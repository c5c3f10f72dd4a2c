----------------------------- MODULE QuicRouter -----------------------------
(***************************************************************************)
(* The opaque QUIC/SNI gateway (runtime/quic_router.py): one asyncio       *)
(* process that receives client datagrams on UDP 443, reassembles the      *)
(* ClientHello of unknown connections, opens one upstream socket per       *)
(* connection and forwards datagrams both ways by connection id.           *)
(*                                                                         *)
(* Every callback of the event loop (a client or upstream datagram, the    *)
(* start and the resumption of _open, a timer, a reaper or reloader turn)  *)
(* is one action; `await create_datagram_endpoint` is what lies between    *)
(* HelloRouted and OpenSucceeds or OpenFails.                              *)
(*                                                                         *)
(* Abstracted: cryptography and byte layouts.  A long-header datagram is   *)
(* its destination id and the ClientHello fragment that decrypting it      *)
(* yields (0: none); a short-header one is the id in its first bytes, no   *)
(* id being a prefix of another.  A dictionary with a default is a total   *)
(* function.  Time is absent except for the order of last_seen: a timeout  *)
(* may strike whenever its subject exists.                                 *)
(***************************************************************************)
EXTENDS Integers, Sequences, FiniteSets

CONSTANTS
    Conn,          \* client connections
    Addr,          \* client UDP addresses
    AddrsOf,       \* the addresses a connection sends from
    Cid,           \* connection ids
    InitialCid,    \* the id a client chooses for its first flight
    ServerCids,    \* the ids a connection's server issues
    LengthOf,      \* length of an id
    RouteFiles,    \* what route files may hold: the connections they route
    Fragments,     \* a ClientHello spans fragments 1..Fragments
    QueueLimit,    \* datagrams kept per opening connection (8)
    PendingLimit,  \* opening connections (2048)
    NoKey          \* "no session"

ASSUME RouterConstantsOK ==
    /\ AddrsOf \in [Conn -> SUBSET Addr]
    /\ InitialCid \in [Conn -> Cid]
    /\ ServerCids \in [Conn -> SUBSET Cid]
    /\ LengthOf \in [Cid -> Nat]
    /\ RouteFiles \subseteq SUBSET Conn
    /\ Fragments \in Nat \ {0}
    /\ QueueLimit \in Nat \ {0}
    /\ PendingLimit \in Nat \ {0}
    /\ NoKey \notin Addr \X Cid

\* _session_key
Key == Addr \X Cid

VARIABLES
    sessions,        \* keys with a Session
    server_cids,     \* server_cids[k]: Session.server_cids
    responded,       \* sessions whose upstream has sent something
    by_addr,         \* sessions_by_addr
    by_cid,          \* sessions_by_server_cid, NoKey where absent
    length_counts,   \* _server_cid_length_counts
    pending,         \* pending[k]: fragments of the queued datagrams
    crypto,          \* pending_crypto[k]: fragments received
    seen,            \* pending_seen's keys, longest silent first
    started,         \* pending_started's keys
    opening,         \* opening
    awaiting,        \* _awaiting_first_upstream
    timers,          \* _ingress_pause_timers' keys
    paused,          \* has pause_reading() stopped the listener?
    routes,          \* connections whose SNI and ALPN have a route
    listening,       \* FALSE after connection_lost
    issued,          \* history: ids that servers have issued
    fate             \* history: what became of the last client datagram

indexVars == <<sessions, server_cids, responded, by_addr, by_cid,
               length_counts>>
queueVars == <<pending, crypto, seen, started, opening>>
pauseVars == <<awaiting, timers, paused>>
envVars   == <<routes, listening, issued>>
vars      == <<indexVars, queueVars, pauseVars, envVars, fate>>

Lengths  == {LengthOf[c] : c \in Cid}
Fates    == {"none", "mixed", "stray", "lost"}
Elems(s) == {s[i] : i \in 1..Len(s)}
Queued   == {k \in Key : pending[k] # <<>>}
CidsOf(conn) == {InitialCid[conn]} \cup ServerCids[conn]

QTypeOK ==
    /\ sessions \in SUBSET Key
    /\ server_cids \in [Key -> SUBSET Cid]
    /\ responded \in SUBSET Key
    /\ by_addr \in [Addr -> SUBSET Key]
    /\ by_cid \in [Cid -> Key \cup {NoKey}]
    /\ length_counts \in [Lengths -> Nat]
    /\ pending \in [Key -> Seq(0..Fragments)]
    /\ crypto \in [Key -> SUBSET (1..Fragments)]
    /\ seen \in Seq(Key)
    /\ started \in SUBSET Key
    /\ opening \in SUBSET Key
    /\ awaiting \in SUBSET Key
    /\ timers \in SUBSET Key
    /\ paused \in BOOLEAN
    /\ routes \in SUBSET Conn
    /\ listening \in BOOLEAN
    /\ issued \in SUBSET Cid
    /\ fate \in Fates

QInit ==
    /\ sessions = {}
    /\ server_cids = [k \in Key |-> {}]
    /\ responded = {}
    /\ by_addr = [a \in Addr |-> {}]
    /\ by_cid = [c \in Cid |-> NoKey]
    /\ length_counts = [n \in Lengths |-> 0]
    /\ pending = [k \in Key |-> <<>>]
    /\ crypto = [k \in Key |-> {}]
    /\ seen = <<>>
    /\ started = {}
    /\ opening = {}
    /\ awaiting = {}
    /\ timers = {}
    /\ paused = FALSE
    /\ routes \in RouteFiles
    /\ listening = TRUE
    /\ issued = {}
    /\ fate = "none"

-----------------------------------------------------------------------------
(* Finding the session of a client datagram: _session_for_datagram *)

LongTarget(addr, cid) ==
    LET owner == by_cid[cid] IN
    IF owner \in sessions /\ owner[1] = addr THEN owner
    ELSE IF <<addr, cid>> \in sessions THEN <<addr, cid>>
    ELSE NoKey

\* Mutant of ShortTarget: an unknown id goes to some session of the address.
ShortTargetGuess(addr, cid) ==
    IF length_counts[LengthOf[cid]] > 0 /\ by_cid[cid] \in by_addr[addr]
    THEN by_cid[cid]
    ELSE IF by_addr[addr] # {} THEN CHOOSE k \in by_addr[addr] : TRUE
    ELSE NoKey

\* Only lengths that are in use are tried; the only session of an address
\* gets what no id identifies.
ShortTarget(addr, cid) ==
    IF length_counts[LengthOf[cid]] > 0 /\ by_cid[cid] \in by_addr[addr]
    THEN by_cid[cid]
    ELSE IF Cardinality(by_addr[addr]) = 1 THEN CHOOSE k \in by_addr[addr] : TRUE
    ELSE NoKey

\* What happens to a datagram that connection conn sends from addr.
Fate(conn, addr, target) ==
    LET live == \E k \in sessions : k[1] = addr /\ k[2] \in CidsOf(conn) IN
    IF target = NoKey THEN IF live THEN "lost" ELSE "none"
    ELSE IF target[2] \in CidsOf(conn) THEN "none"
    ELSE IF live THEN "mixed" ELSE "stray"

-----------------------------------------------------------------------------
(* datagram_received *)

\* The listener reads a datagram of conn from addr with destination id cid.
Receives(conn, addr, cid) ==
    /\ listening /\ ~paused
    /\ addr \in AddrsOf[conn]
    /\ cid = InitialCid[conn] \/ cid \in ServerCids[conn] \cap issued

\* A long header of an established connection is sent upstream.
ForwardLong(conn, addr, cid) ==
    /\ Receives(conn, addr, cid)
    /\ LongTarget(addr, cid) # NoKey
    /\ fate' = Fate(conn, addr, LongTarget(addr, cid))
    /\ UNCHANGED <<indexVars, queueVars, pauseVars, envVars>>

\* A short header is sent upstream or dropped.
ReceiveShort(conn, addr, cid) ==
    /\ Receives(conn, addr, cid)
    /\ cid \in issued
    /\ fate' = Fate(conn, addr, ShortTarget(addr, cid))
    /\ UNCHANGED <<indexVars, queueVars, pauseVars, envVars>>

\* A long header without a session: an opening or a new connection.
Unrouted(conn, addr, cid) ==
    /\ Receives(conn, addr, cid)
    /\ LongTarget(addr, cid) = NoKey
    /\ fate' = "none"

\* _open is under way: the datagram is queued for it, or dropped.
QueueWhileOpening(conn, addr, cid, fragment) ==
    LET k == <<addr, cid>> IN
    /\ Unrouted(conn, addr, cid)
    /\ k \in opening
    /\ pending' = [pending EXCEPT ![k] =
          IF Len(@) < QueueLimit THEN Append(@, fragment) ELSE @]
    /\ UNCHANGED <<indexVars, crypto, seen, started, opening, pauseVars,
                   envVars>>

\* seen without k.
Silenced(k) ==
    IF k \in Elems(seen)
    THEN LET i == CHOOSE i \in 1..Len(seen) : seen[i] = k
         IN  SubSeq(seen, 1, i - 1) \o SubSeq(seen, i + 1, Len(seen))
    ELSE seen

\* Mutant of Forget: pending_started keeps the key.
ForgetQueue(k) ==
    /\ pending' = [pending EXCEPT ![k] = <<>>]
    /\ crypto' = [crypto EXCEPT ![k] = {}]
    /\ seen' = Silenced(k)
    /\ UNCHANGED started

Forget(k) ==
    /\ pending' = [pending EXCEPT ![k] = <<>>]
    /\ crypto' = [crypto EXCEPT ![k] = {}]
    /\ seen' = Silenced(k)
    /\ started' = started \ {k}

\* Neither opening nor over the limit of connections that are.
Admitted(conn, addr, cid) ==
    /\ Unrouted(conn, addr, cid)
    /\ <<addr, cid>> \notin opening
    /\ <<addr, cid>> \in Queued \/ Cardinality(Queued) < PendingLimit

\* The queue is full before the ClientHello is complete: start over.
DropOverfull(conn, addr, cid) ==
    LET k == <<addr, cid>> IN
    /\ Admitted(conn, addr, cid)
    /\ Len(pending[k]) >= QueueLimit
    /\ Forget(k)
    /\ UNCHANGED <<indexVars, opening, pauseVars, envVars>>

\* crypto once fragment has been decrypted and added.
Assembled(k, fragment) == crypto[k] \cup ({fragment} \ {0})

\* The datagram is queued; its fragment, if any, does not complete the hello.
QueueIncomplete(conn, addr, cid, fragment) ==
    LET k == <<addr, cid>> IN
    /\ Admitted(conn, addr, cid)
    /\ Len(pending[k]) < QueueLimit
    /\ fragment = 0 \/ Assembled(k, fragment) # 1..Fragments
    /\ pending' = [pending EXCEPT ![k] = Append(@, fragment)]
    /\ crypto' = [crypto EXCEPT ![k] = Assembled(k, fragment)]
    /\ seen' = Append(Silenced(k), k)
    /\ started' = started \cup {k}
    /\ UNCHANGED <<indexVars, opening, pauseVars, envVars>>

HelloComplete(conn, addr, cid, fragment) ==
    LET k == <<addr, cid>> IN
    /\ Admitted(conn, addr, cid)
    /\ Len(pending[k]) < QueueLimit
    /\ fragment # 0 /\ Assembled(k, fragment) = 1..Fragments

\* No route for the SNI, or not for the ALPN: forget the connection.
HelloUnroutable(conn, addr, cid, fragment) ==
    /\ HelloComplete(conn, addr, cid, fragment)
    /\ conn \notin routes
    /\ Forget(<<addr, cid>>)
    /\ UNCHANGED <<indexVars, opening, pauseVars, envVars>>

\* _open is spawned; from now on only it may reclaim the queue.
HelloRouted(conn, addr, cid, fragment) ==
    LET k == <<addr, cid>> IN
    /\ HelloComplete(conn, addr, cid, fragment)
    /\ conn \in routes
    /\ pending' = [pending EXCEPT ![k] = Append(@, fragment)]
    /\ crypto' = [crypto EXCEPT ![k] = {}]
    /\ seen' = Silenced(k)
    /\ started' = started \cup {k}
    /\ opening' = opening \cup {k}
    /\ UNCHANGED <<indexVars, pauseVars, envVars>>

-----------------------------------------------------------------------------
(* _open, and the pause that protects the first upstream answer *)

\* The upstream socket exists: _add_session, _pause_ingress_for_first_upstream
\* and the queued datagrams go out.  (_open's own check that the session does
\* not exist yet never fires: see QueuesAreReclaimed.)
OpenSucceeds(k) ==
    /\ listening
    /\ k \in opening
    /\ sessions' = sessions \cup {k}
    /\ by_addr' = [by_addr EXCEPT ![k[1]] = @ \cup {k}]
    /\ server_cids' = [server_cids EXCEPT ![k] = {}]
    /\ responded' = responded \ {k}
    /\ Forget(k)
    /\ awaiting' = awaiting \cup {k}
    /\ paused' = (paused \/ awaiting = {})
    /\ timers' = timers \cup {k}
    /\ opening' = opening \ {k}
    /\ fate' = "none"
    /\ UNCHANGED <<by_cid, length_counts, envVars>>

\* Mutant of Release: the first answer resumes the listener for all.
ReleaseAll(k) ==
    IF k \in awaiting
    THEN /\ awaiting' = awaiting \ {k}
         /\ timers' = timers \ {k}
         /\ paused' = FALSE
    ELSE UNCHANGED pauseVars

\* Mutant of Release: nobody resumes the listener.
ReleaseNone(k) ==
    IF k \in awaiting
    THEN /\ awaiting' = awaiting \ {k}
         /\ timers' = timers \ {k}
         /\ UNCHANGED paused
    ELSE UNCHANGED pauseVars

\* _release_ingress_pause
Release(k) ==
    IF k \in awaiting
    THEN /\ awaiting' = awaiting \ {k}
         /\ timers' = timers \ {k}
         /\ paused' = (paused /\ awaiting # {k})
    ELSE UNCHANGED pauseVars

\* Mutant of OpenFails: the key is not discarded from `opening`.
OpenFailsOpening(k) ==
    /\ listening
    /\ k \in opening
    /\ Forget(k)
    /\ Release(k)
    /\ fate' = "none"
    /\ UNCHANGED <<indexVars, opening, envVars>>

\* The socket cannot be opened (OSError, ValueError).
OpenFails(k) ==
    /\ listening
    /\ k \in opening
    /\ Forget(k)
    /\ Release(k)
    /\ opening' = opening \ {k}
    /\ fate' = "none"
    /\ UNCHANGED <<indexVars, envVars>>

\* call_later(0.25): nothing came from the upstream in time.
PauseTimeout(k) ==
    /\ k \in timers
    /\ Release(k)
    /\ fate' = "none"
    /\ UNCHANGED <<indexVars, queueVars, envVars>>

-----------------------------------------------------------------------------
(* UpstreamProtocol.datagram_received *)

\* Mutant of Register: an id that another session owns changes hands.
RegisterTakesOver(k, cid) ==
    /\ server_cids' = [server_cids EXCEPT ![k] = @ \cup {cid}]
    /\ by_cid' = [by_cid EXCEPT ![cid] = k]
    /\ length_counts' = [length_counts EXCEPT
          ![LengthOf[cid]] = IF by_cid[cid] = k THEN @ ELSE @ + 1]

\* _index_server_connection_id: an id that another session owns is ignored.
Register(k, cid) ==
    IF by_cid[cid] = NoKey
    THEN /\ server_cids' = [server_cids EXCEPT ![k] = @ \cup {cid}]
         /\ by_cid' = [by_cid EXCEPT ![cid] = k]
         /\ length_counts' = [length_counts EXCEPT ![LengthOf[cid]] = @ + 1]
    ELSE UNCHANGED <<server_cids, by_cid, length_counts>>

FromUpstream(k, conn, cid) ==
    /\ listening
    /\ k \in sessions
    /\ k[2] \in CidsOf(conn) /\ cid \in ServerCids[conn]
    /\ issued' = issued \cup {cid}
    /\ responded' = responded \cup {k}
    /\ IF k \in responded THEN UNCHANGED pauseVars ELSE Release(k)
    /\ fate' = "none"
    /\ UNCHANGED <<sessions, by_addr, queueVars, routes, listening>>

\* A long header shows the id the server has chosen.
UpstreamLong(k, conn, cid) ==
    /\ FromUpstream(k, conn, cid)
    /\ Register(k, cid)

\* A short header hides everything, also the new ids that it may issue.
UpstreamShort(k, conn, cid) ==
    /\ FromUpstream(k, conn, cid)
    /\ UNCHANGED <<server_cids, by_cid, length_counts>>

-----------------------------------------------------------------------------
(* Background tasks *)

\* Mutant of CidsOwned: the client's own ids are removed as well.
CidsNamed(gone) ==
    {c \in Cid : \E k \in gone : c = k[2] \/ (c \in server_cids[k] /\ by_cid[c] = k)}

CidsOwned(gone) == {c \in Cid : \E k \in gone : c \in server_cids[k] /\ by_cid[c] = k}

\* _reaper: the openings that have been silent longest, and the sessions
\* that are past their route's own idle timeout (_remove_session).
Reap(silent, gone) ==
    LET quiet == Elems(SubSeq(seen, 1, silent)) IN
    /\ listening
    /\ quiet # {} \/ gone # {}
    /\ pending' = [k \in Key |-> IF k \in quiet THEN <<>> ELSE pending[k]]
    /\ crypto' = [k \in Key |-> IF k \in quiet THEN {} ELSE crypto[k]]
    /\ seen' = SubSeq(seen, silent + 1, Len(seen))
    /\ started' = started \ quiet
    /\ sessions' = sessions \ gone
    /\ responded' = responded \ gone
    /\ by_addr' = [a \in Addr |-> by_addr[a] \ gone]
    /\ server_cids' = [k \in Key |-> IF k \in gone THEN {} ELSE server_cids[k]]
    /\ by_cid' = [c \in Cid |-> IF c \in CidsOwned(gone) THEN NoKey ELSE by_cid[c]]
    /\ length_counts' = [n \in Lengths |->
          length_counts[n] - Cardinality({c \in CidsOwned(gone) : LengthOf[c] = n})]
    /\ awaiting' = awaiting \ gone
    /\ timers' = timers \ gone
    /\ paused' = (paused /\ (awaiting \ gone # {} \/ awaiting = {}))
    /\ fate' = "none"
    /\ UNCHANGED <<opening, envVars>>

\* reload(): a route file that cannot be read changes nothing.
Reload(configured) ==
    /\ listening
    /\ routes' = configured
    /\ fate' = "none"
    /\ UNCHANGED <<indexVars, queueVars, pauseVars, listening, issued>>

\* The listener is gone: tasks and timers are cancelled (a cancelled _open
\* leaves `opening`), upstream sockets are closed.
ConnectionLost ==
    /\ listening
    /\ listening' = FALSE
    /\ opening' = {}
    /\ awaiting' = {}
    /\ timers' = {}
    /\ fate' = "none"
    /\ UNCHANGED <<indexVars, pending, crypto, seen, started, paused, routes,
                   issued>>

ClientDatagram(conn, addr, cid) ==
    \/ ForwardLong(conn, addr, cid)
    \/ ReceiveShort(conn, addr, cid)
    \/ DropOverfull(conn, addr, cid)
    \/ \E fragment \in 0..Fragments :
          \/ QueueWhileOpening(conn, addr, cid, fragment)
          \/ QueueIncomplete(conn, addr, cid, fragment)
          \/ HelloUnroutable(conn, addr, cid, fragment)
          \/ HelloRouted(conn, addr, cid, fragment)

QNext ==
    \/ \E conn \in Conn, addr \in Addr, cid \in Cid :
          ClientDatagram(conn, addr, cid)
    \/ \E k \in Key : OpenSucceeds(k) \/ OpenFails(k) \/ PauseTimeout(k)
    \/ \E k \in Key, conn \in Conn, cid \in Cid :
          UpstreamLong(k, conn, cid) \/ UpstreamShort(k, conn, cid)
    \/ \E silent \in 0..Len(seen), gone \in SUBSET sessions : Reap(silent, gone)
    \/ \E configured \in RouteFiles : Reload(configured)
    \/ ConnectionLost

QSpec == QInit /\ [][QNext]_vars

\* Timers fire and the event loop resumes _open, whatever it has become.
RouterFairness ==
    \A k \in Key :
        /\ WF_vars(PauseTimeout(k))
        /\ WF_vars(OpenSucceeds(k) \/ OpenFails(k))

FairQSpec == QSpec /\ RouterFairness

-----------------------------------------------------------------------------
(* Properties *)

\* The four indexes over the sessions agree: _add_session, _remove_session
\* and _index_server_connection_id keep by_addr, by_cid and the counts of id
\* lengths in step with the sessions and their server ids, also when two
\* servers issue the same id and one of the two sessions is removed.
IndexesAgree ==
    /\ \A a \in Addr : by_addr[a] = {k \in sessions : k[1] = a}
    /\ \A c \in Cid, k \in Key :
          by_cid[c] = k <=> k \in sessions /\ c \in server_cids[k]
    /\ \A n \in Lengths :
          length_counts[n] =
              Cardinality({c \in Cid : by_cid[c] # NoKey /\ LengthOf[c] = n})

\* The listener is paused exactly while some session waits for its first
\* upstream datagram, and each of those has its timer: no order of
\* answers, timeouts, reaping and new sessions leaves ingress paused
\* (_pause_ingress_for_first_upstream, _release_ingress_pause).
PauseMatchesWait ==
    listening =>
        /\ paused <=> awaiting # {}
        /\ timers = awaiting
        /\ awaiting \subseteq sessions \ responded

\* Whatever is queued is reclaimed by someone: _open while it runs, the
\* reaper otherwise.  A queue without either would count against
\* PendingLimit for good.  A connection that is being opened has no session
\* yet, so it is not opened twice, and has the whole ClientHello in its
\* queue, so the upstream can complete the handshake from what is flushed.
QueuesAreReclaimed ==
    listening =>
        /\ Queued = opening \cup Elems(seen)
        /\ opening \cap Elems(seen) = {}
        /\ started = Queued
        /\ opening \cap sessions = {}
        /\ \A k \in opening : 1..Fragments \subseteq Elems(pending[k])

\* A datagram of a connection that has a session at its address is never
\* sent to the upstream of another one ("not mixed into concurrent
\* sessions", test_quic_passthrough.py).
NeverMixed == fate # "mixed"

\* A paused listener is resumed.
IngressResumes == paused ~> (~paused \/ ~listening)

\* Every spawned _open leaves `opening`.
EveryOpeningEnds == \A k \in Key : k \in opening ~> k \notin opening

-----------------------------------------------------------------------------
(* What the documentation says and the code does not do *)

\* The gateway "forwards every datagram without terminating TLS" (README.md).
EveryDatagramForwarded == fate # "lost"
=============================================================================
