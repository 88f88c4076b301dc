------------------------------- MODULE Relay -------------------------------
(***************************************************************************)
(* What the loopback proxy does with one connection of mpv (src/proxy.rs,  *)
(* handle_conn, serve, fetch_upstream, respond; src/fetchguard.rs;         *)
(* src/providers/hls.rs, join_url).  A playlist comes back with every      *)
(* reference led through the proxy, a segment without the decoy bytes      *)
(* before its first packets.  How the proxy starts and stops is in Mpv.    *)
(***************************************************************************)
EXTENDS Integers, Sequences, SequencesExt, FiniteSets

CONSTANTS
    Urls,          \* the urls there are
    Webs,          \* what the servers may hold: functions on urls, by name
    Masters,       \* the urls a link may name
    MaxRedirects,  \* MAX_REDIRECTS
    FetchTicks,    \* FETCH_DEADLINE
    MaxScan,       \* MAX_PREFIX_SCAN
    Stride,        \* TS_PACKET
    Decoys,        \* byte sequences put before a stream, "G" the sync byte
    MaxPackets,    \* bound of the run: packets of a stream
    MaxAsks        \* bound of the run: requests

ASSUME RelayAssumption ==
    /\ MaxRedirects \in Nat /\ FetchTicks \in Nat \ {0} /\ MaxScan \in Nat /\ Stride \in Nat \ {0, 1}
    /\ MaxPackets \in Nat /\ MaxAsks \in Nat /\ Masters \subseteq Urls /\ Decoys \subseteq Seq({"G", "x"})

VARIABLES
    web,      \* which of Webs the servers hold
    link,     \* the url the link names
    line,     \* the connection: "none", "idle", "busy"
    upstream,    \* the upstream url of the request
    hop,      \* the url the chain has come to
    hops,     \* redirects followed
    waited,   \* time spent on the whole chain
    known,    \* urls mpv was given through the proxy
    direct,   \* references mpv was given as they stood
    reached,  \* urls asked of a server
    sent,     \* the last answer: [status, was, body]
    asks      \* requests so far

relayVars == <<web, link, line, upstream, hop, hops, waited, known, direct, reached, sent, asks>>

\* What a url answers.
Found(u) == Webs[web][u]

-----------------------------------------------------------------------------
Forms == {"name", "localhost", "digits", "v4", "v6", "v4in6"}

\* guard_fetch_url: web schemes, nobody named before the host, and a host that is a
\* name or a public address, whichever way it is written.
Admits(u) ==
    /\ u.scheme = "http" /\ ~u.user
    /\ \/ u.host.form = "name"
       \/ u.host.form \in {"v4", "v6", "v4in6"} /\ u.host.public

\* join_url: what starts with a slash keeps the host, a "//host/" too; what is no web
\* url otherwise hangs on the directory, a "data:" too.
Join(base, r) ==
    CASE r.kind = "absolute" -> r.at
      [] r.kind \in {"rooted", "network"} -> [base EXCEPT !.dir = r.dir, !.file = r.file]
      [] r.kind \in {"relative", "inline"} -> [base EXCEPT !.file = r.file]

\* RFC 3986, as a player resolves: "//host/" names a host.
Resolves(base, r) == IF r.kind = "network" THEN r.at ELSE Join(base, r)

\* What a server names is a url, whoever resolves it.
ASSUME WebsAssumption ==
    \A w \in DOMAIN Webs, u \in Urls :
        /\ Webs[w][u].kind = "moved" => {Join(u, Webs[w][u].to), Resolves(u, Webs[w][u].to)} \subseteq Urls
        /\ Webs[w][u].kind = "playlist" =>
               \A l \in ToSet(Webs[w][u].lines) : {Join(u, l.ref), Resolves(u, l.ref)} \subseteq Urls

-----------------------------------------------------------------------------
(***************************************************************************)
(* A segment: a decoy, then packets that each start with the sync byte.    *)
(***************************************************************************)
Packets(n) == [i \in 1 .. (n * Stride) |-> IF \E k \in 0 .. (n - 1) : i = 1 + k * Stride THEN "G" ELSE "x"]

SyncAt(body, i) == \A k \in 0 .. 2 : body[i + k * Stride] = "G"

\* Mutated form: one sync byte is believed.
TripleOne(body) == {i \in 1 .. (Len(body) - 2 * Stride) : i <= MaxScan /\ body[i] = "G"}

\* Where three sync bytes stand a packet apart, within the window.
Triple(body) == {i \in 1 .. (Len(body) - 2 * Stride) : i <= MaxScan /\ SyncAt(body, i)}

\* decloak: from the first such place on; without one the body goes out as it came.
Decloaked(body) ==
    IF Triple(body) = {} THEN body
    ELSE SubSeq(body, CHOOSE i \in Triple(body) : \A j \in Triple(body) : i <= j, Len(body))

-----------------------------------------------------------------------------
NoAnswer == [status |-> 0, was |-> <<>>, body |-> <<>>]

RelayTypeOK ==
    /\ line \in {"none", "idle", "busy"} /\ link \in Masters
    /\ hops \in 0 .. MaxRedirects /\ waited \in 0 .. FetchTicks
    /\ asks \in 0 .. MaxAsks /\ sent.status \in {0, 200, 404, 502}
    /\ line # "busy" => hops = 0 /\ waited = 0

\* engage: the master url is the first that goes through the proxy.
RelayInit ==
    /\ web \in DOMAIN Webs /\ link \in Masters
    /\ line = "none" /\ upstream = link /\ hop = link /\ hops = 0 /\ waited = 0
    /\ known = {link} /\ direct = {} /\ reached = {} /\ sent = NoAnswer /\ asks = 0

Rest == hops' = 0 /\ waited' = 0

Connects ==
    /\ line = "none" /\ asks < MaxAsks /\ line' = "idle"
    /\ UNCHANGED <<web, link, upstream, hop, hops, waited, known, direct, reached, sent, asks>>

\* A client that sends nothing is dropped, as is one that closes.
Dropped ==
    /\ line = "idle" /\ line' = "none"
    /\ UNCHANGED <<web, link, upstream, hop, hops, waited, known, direct, reached, sent, asks>>

\* serve: the request carries the token of this playback and a url that decodes.
Asks(u) ==
    /\ line = "idle" /\ asks < MaxAsks /\ asks' = asks + 1
    /\ u \in known
    /\ line' = "busy" /\ upstream' = u /\ hop' = u /\ sent' = NoAnswer /\ Rest
    /\ UNCHANGED <<web, link, known, direct, reached>>

Closes(status) == line' = "none" /\ sent' = [NoAnswer EXCEPT !.status = status] /\ Rest

\* Another path or token, or a url that does not decode.
AsksStray ==
    /\ line = "idle" /\ asks < MaxAsks /\ asks' = asks + 1
    /\ \E status \in {404, 502} : Closes(status)
    /\ UNCHANGED <<web, link, upstream, hop, known, direct, reached>>

\* Mutated form: only the url of the request is vetted.
HopVettedFirst(u) == hops > 0 \/ Admits(u)

\* fetch_upstream vets every hop.
HopVetted(u) == Admits(u)

Refuses ==
    /\ line = "busy" /\ ~HopVetted(hop) /\ Closes(502)
    /\ UNCHANGED <<web, link, upstream, hop, known, direct, reached, asks>>

\* Mutated form: no deadline.
TimedOutNever == FALSE

\* The deadline spans the chain and the body; a server that is silent meets it.
TimedOut == waited = FetchTicks

Waits ==
    /\ line = "busy" /\ ~TimedOut /\ waited < FetchTicks /\ waited' = waited + 1
    /\ UNCHANGED <<web, link, line, upstream, hop, hops, known, direct, reached, sent, asks>>

Expires ==
    /\ line = "busy" /\ TimedOut /\ Closes(502)
    /\ UNCHANGED <<web, link, upstream, hop, known, direct, reached, asks>>

Heard(kinds) == line = "busy" /\ HopVetted(hop) /\ ~TimedOut /\ Found(hop).kind \in kinds /\ reached' = reached \cup {hop}

\* A failed send, a status that is no success, or a body past MAX_BODY.
Fails ==
    /\ Heard({"moved", "playlist", "media", "gone"}) /\ Closes(502)
    /\ UNCHANGED <<web, link, upstream, hop, known, direct, asks>>

\* The chain goes on as long as it has hops left.
Redirected ==
    /\ Heard({"moved"})
    /\ IF hops >= MaxRedirects THEN Closes(502) /\ UNCHANGED hop
       ELSE hops' = hops + 1 /\ hop' = Join(hop, Found(hop).to) /\ UNCHANGED <<line, waited, sent>>
    /\ UNCHANGED <<web, link, upstream, known, direct, asks>>

\* Mutated form: what stands inside a tag is left as it is.
RewrittenLines(lines) == {l \in ToSet(lines) : ~l.tag}

\* rewrite_playlist and rewrite_tag_uri
Rewritten(lines) == ToSet(lines)

\* Mutated form: references resolve against the url of the request.
BaseAsked == upstream

\* The url of the last hop.
Base == hop

\* The answer keeps the connection, unless mpv has gone: then it is lost.
RelayReplies(was, body) ==
    /\ sent' = [status |-> 200, was |-> was, body |-> body]
    /\ line' \in {"idle", "none"} /\ Rest
    /\ UNCHANGED <<web, link, upstream, hop, asks>>

RelaysPlaylist ==
    /\ Heard({"playlist"})
    /\ LET lines == Found(hop).lines
       IN  /\ known' = known \cup {Join(Base, l.ref) : l \in Rewritten(lines)}
           /\ direct' = direct \cup (ToSet(lines) \ Rewritten(lines))
    /\ RelayReplies(<<>>, <<>>)

\* A segment, or one that wears a playlist's head: is_playlist sees through it.
RelaysMedia ==
    /\ Heard({"media"})
    /\ \E decoy \in Decoys, n \in 0 .. MaxPackets :
          LET body == decoy \o Packets(n) IN RelayReplies([decoy |-> decoy, packets |-> n], Decloaked(body))
    /\ UNCHANGED <<known, direct>>

RelayWork == Waits \/ Expires \/ Refuses
RelayNext ==
    \/ Connects \/ Dropped \/ AsksStray \/ \E u \in known : Asks(u)
    \/ RelayWork \/ Fails \/ Redirected \/ RelaysPlaylist \/ RelaysMedia

RelaySpec == RelayInit /\ [][RelayNext]_relayVars /\ WF_relayVars(RelayWork)

-----------------------------------------------------------------------------
\* Where a player without a proxy would be led from a url: the redirects followed one
\* by one, to the end.
Chain(w, u) ==
    LET at[n \in 0 .. MaxRedirects] ==
            IF n = 0 THEN u
            ELSE LET from == at[n - 1]
                 IN  IF Webs[w][from].kind = "moved" THEN Resolves(from, Webs[w][from].to) ELSE from
    IN  at

Final(w, u) == Chain(w, u)[MaxRedirects]

\* The references of the playlist that stands there, taken from there; what a reference
\* holds itself is not fetched.
Leads(w, u) ==
    LET end == Final(w, u)
    IN  IF Webs[w][end].kind # "playlist" THEN {}
        ELSE {Resolves(end, l.ref) : l \in {k \in ToSet(Webs[w][end].lines) : k.ref.kind # "inline"}}

\* Where it can come to in so many requests.
Led(w, start) ==
    LET urls[n \in 0 .. MaxAsks] ==
            IF n = 0 THEN {start} ELSE urls[n - 1] \cup UNION {Leads(w, u) : u \in urls[n - 1]}
    IN  urls

\* The references join_url is made for: not the two kinds it takes for others (the gap
\* docs/port/backport.md:24 keeps open).
Plain(w) ==
    \A u \in Urls :
        /\ Webs[w][u].kind = "moved" => Webs[w][u].to.kind \notin {"network", "inline"}
        /\ Webs[w][u].kind = "playlist" =>
               \A l \in ToSet(Webs[w][u].lines) : l.ref.kind \notin {"network", "inline"}

\* Over plain references mpv is led where a direct player would be, whatever redirects
\* stand between: a relative one is resolved against the url the playlist was found at.
LedTruly == Plain(web) => known \subseteq Led(web, link)[asks]

\* No reference leaves the proxy aside, inside a tag or on a line of its own: a
\* segment fetched past it keeps its decoy and ends the play.
NothingAside == direct = {}

\* No server is asked that the guard would not admit, at any hop of any chain.
EveryHopVetted == \A u \in reached : Admits(u)

\* A stream of three packets behind a decoy that fits the window goes out bare, a bare
\* one goes out as it came, and a decoy's own sync bytes are not taken for the start.
StreamBare ==
    sent.was # <<>> /\ sent.was.packets >= 3 /\ Len(sent.was.decoy) < MaxScan =>
        \/ sent.body = Packets(sent.was.packets)
        \/ \E i \in 1 .. Len(sent.was.decoy) : SyncAt(sent.was.decoy \o Packets(sent.was.packets), i)

\* The four together.
RelayHonest == LedTruly /\ NothingAside /\ EveryHopVetted /\ StreamBare

\* A request ends, however silent the server and whatever the redirects.
RequestEnds == line = "busy" ~> line # "busy"
=============================================================================
