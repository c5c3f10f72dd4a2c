-------------------------- MODULE QuicRouterProofs --------------------------
(***************************************************************************)
(* Theorems about QuicRouter, for any connections, addresses, connection   *)
(* ids and limits.                                                         *)
(***************************************************************************)
EXTENDS QuicRouter, FiniteSetTheorems, SequenceTheorems, TLAPS

-----------------------------------------------------------------------------
(* The pause of the listener *)

LEMMA ClientDatagramKeepsPause ==
  ASSUME NEW conn \in Conn, NEW addr \in Addr, NEW cid \in Cid,
         ClientDatagram(conn, addr, cid)
  PROVE  UNCHANGED <<sessions, responded, awaiting, timers, paused, listening>>
  <1> USE DEF indexVars, queueVars, pauseVars, envVars
  <1>1. CASE ForwardLong(conn, addr, cid) \/ ReceiveShort(conn, addr, cid)
    BY <1>1 DEF ForwardLong, ReceiveShort
  <1>2. CASE DropOverfull(conn, addr, cid)
    BY <1>2 DEF DropOverfull
  <1>3. ASSUME NEW fragment \in 0..Fragments,
               \/ QueueWhileOpening(conn, addr, cid, fragment)
               \/ QueueIncomplete(conn, addr, cid, fragment)
               \/ HelloUnroutable(conn, addr, cid, fragment)
               \/ HelloRouted(conn, addr, cid, fragment)
        PROVE  UNCHANGED <<sessions, responded, awaiting, timers, paused, listening>>
    BY <1>3 DEF QueueWhileOpening, QueueIncomplete, HelloUnroutable, HelloRouted
  <1> QED
    BY <1>1, <1>2, <1>3 DEF ClientDatagram

PauseInv == PauseMatchesWait /\ paused \in BOOLEAN

LEMMA StepPauseInv ==
  ASSUME PauseInv, [QNext]_vars
  PROVE  PauseInv'
  <1> USE DEF PauseInv, PauseMatchesWait
  <1>1. ASSUME NEW conn \in Conn, NEW addr \in Addr, NEW cid \in Cid,
               ClientDatagram(conn, addr, cid)
        PROVE  PauseInv'
    BY <1>1, ClientDatagramKeepsPause
  <1>2. ASSUME NEW k \in Key, OpenSucceeds(k)
        PROVE  PauseInv'
    BY <1>2 DEF OpenSucceeds, envVars
  <1>3. ASSUME NEW k \in Key, OpenFails(k)
        PROVE  PauseInv'
    BY <1>3 DEF OpenFails, Release, indexVars, envVars, pauseVars
  <1>4. ASSUME NEW k \in Key, PauseTimeout(k)
        PROVE  PauseInv'
    BY <1>4 DEF PauseTimeout, Release, indexVars, envVars, pauseVars
  <1>5. ASSUME NEW k \in Key, NEW conn \in Conn, NEW cid \in Cid,
               UpstreamLong(k, conn, cid) \/ UpstreamShort(k, conn, cid)
        PROVE  PauseInv'
    <2>1. /\ k \in sessions /\ UNCHANGED <<sessions, listening>>
          /\ responded' = responded \cup {k}
      BY <1>5 DEF UpstreamLong, UpstreamShort, FromUpstream
    <2>2. CASE k \in awaiting /\ k \notin responded
      <3>1. /\ awaiting' = awaiting \ {k} /\ timers' = timers \ {k}
            /\ paused' = (paused /\ awaiting # {k})
        BY <1>5, <2>2 DEF UpstreamLong, UpstreamShort, FromUpstream, Release
      <3> QED
        BY <2>1, <2>2, <3>1
    <2>3. CASE k \notin awaiting
      <3>1. UNCHANGED pauseVars
        BY <1>5, <2>3 DEF UpstreamLong, UpstreamShort, FromUpstream, Release
      <3> QED
        BY <2>1, <2>3, <3>1 DEF pauseVars
    <2>4. CASE k \in responded
      <3>1. UNCHANGED pauseVars
        BY <1>5, <2>4 DEF UpstreamLong, UpstreamShort, FromUpstream
      <3> QED
        BY <2>1, <2>4, <3>1 DEF pauseVars
    <2> QED
      BY <2>2, <2>3, <2>4
  <1>6. ASSUME NEW silent \in 0..Len(seen), NEW gone \in SUBSET sessions,
               Reap(silent, gone)
        PROVE  PauseInv'
    BY <1>6 DEF Reap, envVars
  <1>7. ASSUME NEW configured \in RouteFiles, Reload(configured)
        PROVE  PauseInv'
    BY <1>7 DEF Reload, indexVars, pauseVars
  <1>8. CASE ConnectionLost
    BY <1>8 DEF ConnectionLost
  <1>9. CASE UNCHANGED vars
    BY <1>9 DEF vars, indexVars, pauseVars, envVars
  <1> QED
    BY <1>1, <1>2, <1>3, <1>4, <1>5, <1>6, <1>7, <1>8, <1>9 DEF QNext

\* Ingress is paused exactly while a session waits for its first upstream
\* datagram and has a timer to end the wait, however many sessions open,
\* answer, time out and are reaped (_pause_ingress_for_first_upstream).
THEOREM PauseIsBounded == QSpec => []PauseMatchesWait
  <1>1. QInit => PauseInv
    BY DEF QInit, PauseInv, PauseMatchesWait
  <1>2. PauseInv /\ [QNext]_vars => PauseInv'
    BY StepPauseInv
  <1>3. PauseInv => PauseMatchesWait
    BY DEF PauseInv
  <1> QED
    BY <1>1, <1>2, <1>3, PTL DEF QSpec

-----------------------------------------------------------------------------
(* Sequences of keys *)

\* As a dictionary has its keys.
Unique(s) == \A i, j \in 1..Len(s) : s[i] = s[j] => i = j

LEMMA ElemsOfAppend ==
  ASSUME NEW S, NEW s \in Seq(S), NEW x \in S
  PROVE  /\ Append(s, x) \in Seq(S) /\ Append(s, x) # <<>>
         /\ Elems(Append(s, x)) = Elems(s) \cup {x}
         /\ Unique(s) /\ x \notin Elems(s) => Unique(Append(s, x))
  BY DEF Elems, Unique

\* A sequence without its first elements.
LEMMA UniqueSuffix ==
  ASSUME NEW S, NEW s \in Seq(S), Unique(s), NEW n \in 0..Len(s)
  PROVE  /\ SubSeq(s, n + 1, Len(s)) \in Seq(S)
         /\ Unique(SubSeq(s, n + 1, Len(s)))
         /\ Elems(SubSeq(s, n + 1, Len(s))) = Elems(s) \ Elems(SubSeq(s, 1, n))
         /\ Elems(SubSeq(s, 1, n)) \subseteq S \cap Elems(s)
  <1> DEFINE t == SubSeq(s, n + 1, Len(s))
             u == SubSeq(s, 1, n)
  <1>1. /\ t \in Seq(S) /\ Len(t) = Len(s) - n
        /\ \A i \in 1..Len(t) : t[i] = s[n + i]
    OBVIOUS
  <1>2. u \in Seq(S) /\ Len(u) = n /\ \A i \in 1..n : u[i] = s[i]
    OBVIOUS
  <1> HIDE DEF t, u
  <1>3. Unique(t)
    BY <1>1 DEF Unique
  <1>4. Elems(t) \subseteq Elems(s) \ Elems(u)
    BY <1>1, <1>2 DEF Unique, Elems
  <1>5. Elems(s) \ Elems(u) \subseteq Elems(t)
    <2> SUFFICES ASSUME NEW i \in 1..Len(s), s[i] \notin Elems(u)
                 PROVE  s[i] \in Elems(t)
      BY DEF Elems
    <2>1. i > n
      BY <1>2 DEF Elems
    <2>2. i - n \in 1..Len(t) /\ t[i - n] = s[i]
      BY <1>1, <2>1
    <2> QED
      BY <2>2 DEF Elems
  <1>6. Elems(u) \subseteq S \cap Elems(s)
    BY <1>2 DEF Elems
  <1> QED
    BY <1>1, <1>3, <1>4, <1>5, <1>6 DEF t, u

\* The order of last_seen without one key.
LEMMA SilencedIsWithout ==
  ASSUME seen \in Seq(Key), Unique(seen), NEW k
  PROVE  /\ Silenced(k) \in Seq(Key) /\ Unique(Silenced(k))
         /\ Elems(Silenced(k)) = Elems(seen) \ {k}
  <1>1. CASE k \notin Elems(seen)
    BY <1>1 DEF Silenced
  <1>2. CASE k \in Elems(seen)
    <2> DEFINE i == CHOOSE j \in 1..Len(seen) : seen[j] = k
               t == SubSeq(seen, 1, i - 1) \o SubSeq(seen, i + 1, Len(seen))
    <2>1. i \in 1..Len(seen) /\ seen[i] = k
      BY <1>2 DEF Elems
    <2>2. Silenced(k) = t
      BY <1>2 DEF Silenced
    <2> HIDE DEF i
    <2>3. /\ t \in Seq(Key) /\ Len(t) = Len(seen) - 1
          /\ \A j \in 1..Len(t) : t[j] = IF j < i THEN seen[j] ELSE seen[j + 1]
      <3> DEFINE front == SubSeq(seen, 1, i - 1)
                 back == SubSeq(seen, i + 1, Len(seen))
      <3>1. front \in Seq(Key) /\ Len(front) = i - 1 /\ \A j \in 1..i - 1 : front[j] = seen[j]
        BY <2>1
      <3>2. /\ back \in Seq(Key) /\ Len(back) = Len(seen) - i
            /\ \A j \in 1..Len(back) : back[j] = seen[i + j]
        BY <2>1
      <3> HIDE DEF front, back
      <3>3. /\ front \o back \in Seq(Key) /\ Len(front \o back) = Len(seen) - 1
            /\ \A j \in 1..Len(seen) - 1 :
                  (front \o back)[j] = IF j < i THEN front[j] ELSE back[j - (i - 1)]
        <4>1. /\ front \o back \in Seq(Key) /\ Len(front \o back) = Len(front) + Len(back)
              /\ \A j \in 1..Len(front) + Len(back) :
                    (front \o back)[j] = IF j <= Len(front) THEN front[j]
                                         ELSE back[j - Len(front)]
          BY <3>1, <3>2, ConcatProperties
        <4> QED
          BY <2>1, <3>1, <3>2, <4>1
      <3>4. \A j \in 1..Len(seen) - 1 :
              (front \o back)[j] = IF j < i THEN seen[j] ELSE seen[j + 1]
        BY <2>1, <3>1, <3>2, <3>3
      <3> QED
        BY <3>3, <3>4 DEF t, front, back
    <2> HIDE DEF t
    <2>4. Unique(t)
      BY <2>1, <2>3 DEF Unique
    <2>5. Elems(t) \subseteq Elems(seen) \ {k}
      BY <2>1, <2>3 DEF Unique, Elems
    <2>6. Elems(seen) \ {k} \subseteq Elems(t)
      <3> SUFFICES ASSUME NEW j \in 1..Len(seen), seen[j] # k
                   PROVE  seen[j] \in Elems(t)
        BY DEF Elems
      <3>1. CASE j < i
        BY <2>1, <2>3, <3>1 DEF Elems
      <3>2. CASE j > i
        <4>1. j - 1 \in 1..Len(t) /\ t[j - 1] = seen[j]
          BY <2>1, <2>3, <3>2
        <4> QED
          BY <4>1 DEF Elems
      <3> QED
        BY <2>1, <3>1, <3>2
    <2> QED
      BY <2>2, <2>3, <2>4, <2>5, <2>6
  <1> QED
    BY <1>1, <1>2

-----------------------------------------------------------------------------
(* Connections that are being opened *)

QueueTypes ==
    /\ pending \in [Key -> Seq(0..Fragments)]
    /\ crypto \in [Key -> SUBSET (1..Fragments)]
    /\ seen \in Seq(Key) /\ started \in SUBSET Key /\ opening \in SUBSET Key
    /\ listening \in BOOLEAN

\* The fragments received of a hello are those of the datagrams in the queue.
HelloIsQueued ==
    listening => \A k \in Key \ opening : crypto[k] \subseteq Elems(pending[k])

QueueInv == QueueTypes /\ Unique(seen) /\ QueuesAreReclaimed /\ HelloIsQueued

USE RouterConstantsOK

\* What Forget leaves behind.
LEMMA ForgetReclaims ==
  ASSUME QueueTypes, Unique(seen), NEW k \in Key, Forget(k)
  PROVE  /\ pending' \in [Key -> Seq(0..Fragments)] /\ pending'[k] = <<>>
         /\ crypto' \in [Key -> SUBSET (1..Fragments)] /\ crypto'[k] = {}
         /\ \A j \in Key \ {k} : pending'[j] = pending[j] /\ crypto'[j] = crypto[j]
         /\ Queued' = Queued \ {k}
         /\ seen' \in Seq(Key) /\ Unique(seen') /\ Elems(seen') = Elems(seen) \ {k}
         /\ started' = started \ {k}
  <1>1. seen' \in Seq(Key) /\ Unique(seen') /\ Elems(seen') = Elems(seen) \ {k}
    BY SilencedIsWithout DEF Forget, QueueTypes
  <1>2. <<>> \in Seq(0..Fragments)
    OBVIOUS
  <1>3. /\ pending' \in [Key -> Seq(0..Fragments)] /\ pending'[k] = <<>>
        /\ \A j \in Key \ {k} : pending'[j] = pending[j]
    BY <1>2 DEF Forget, QueueTypes
  <1>4. /\ crypto' \in [Key -> SUBSET (1..Fragments)] /\ crypto'[k] = {}
        /\ \A j \in Key \ {k} : crypto'[j] = crypto[j]
    BY DEF Forget, QueueTypes
  <1>5. Queued' = Queued \ {k}
    BY <1>3 DEF Queued
  <1> QED
    BY <1>1, <1>3, <1>4, <1>5 DEF Forget

\* A datagram goes to the end of the queue of k.
LEMMA QueueGrows ==
  ASSUME QueueTypes, NEW k \in Key, NEW fragment \in 0..Fragments,
         pending' = [pending EXCEPT ![k] = Append(@, fragment)]
  PROVE  /\ pending' \in [Key -> Seq(0..Fragments)]
         /\ Elems(pending'[k]) = Elems(pending[k]) \cup {fragment}
         /\ \A j \in Key \ {k} : pending'[j] = pending[j]
         /\ Queued' = Queued \cup {k}
  <1>1. pending[k] \in Seq(0..Fragments)
    BY DEF QueueTypes
  <1>2. /\ Append(pending[k], fragment) \in Seq(0..Fragments)
        /\ Append(pending[k], fragment) # <<>>
        /\ Elems(Append(pending[k], fragment)) = Elems(pending[k]) \cup {fragment}
    <2> DEFINE S == 0..Fragments
    <2>1. pending[k] \in Seq(S) /\ fragment \in S
      BY <1>1
    <2> HIDE DEF S
    <2>2. /\ Append(pending[k], fragment) \in Seq(S)
          /\ Append(pending[k], fragment) # <<>>
          /\ Elems(Append(pending[k], fragment)) = Elems(pending[k]) \cup {fragment}
      BY <2>1, ElemsOfAppend
    <2> QED
      BY <2>2 DEF S
  <1>3. /\ pending' \in [Key -> Seq(0..Fragments)]
        /\ pending'[k] = Append(pending[k], fragment)
        /\ \A j \in Key \ {k} : pending'[j] = pending[j]
    BY <1>2 DEF QueueTypes
  <1> QED
    BY <1>2, <1>3 DEF Queued

LEMMA QueueStep ==
  ASSUME QueueInv, sessions \subseteq Key, [QNext]_vars
  PROVE  QueueInv'
  <1> USE DEF QueueInv
  <1>u. ASSUME UNCHANGED <<queueVars, listening>>, sessions' \subseteq sessions
        PROVE  QueueInv'
    <2>1. UNCHANGED <<pending, crypto, seen, started, opening, listening>>
      BY <1>u DEF queueVars
    <2>2. Queued' = Queued /\ Elems(seen)' = Elems(seen)
      BY <2>1 DEF Queued
    <2>3. QueueTypes' /\ Unique(seen)' /\ HelloIsQueued'
      BY <2>1 DEF QueueTypes, Unique, HelloIsQueued
    <2>4. QueuesAreReclaimed'
      BY <1>u, <2>1, <2>2 DEF QueuesAreReclaimed
    <2> QED
      BY <2>3, <2>4
  \* Forgetting a connection, which nobody opens from now on.
  <1>f. ASSUME NEW k \in Key, Forget(k), opening' \in {opening, opening \ {k}},
               listening, UNCHANGED listening, sessions' \subseteq sessions \cup {k},
               k \notin opening'
        PROVE  QueueInv'
    <2>1. /\ pending' \in [Key -> Seq(0..Fragments)] /\ pending'[k] = <<>>
          /\ crypto' \in [Key -> SUBSET (1..Fragments)] /\ crypto'[k] = {}
          /\ \A j \in Key \ {k} : pending'[j] = pending[j] /\ crypto'[j] = crypto[j]
          /\ Queued' = Queued \ {k}
          /\ seen' \in Seq(Key) /\ Unique(seen') /\ Elems(seen') = Elems(seen) \ {k}
          /\ started' = started \ {k}
      BY <1>f, ForgetReclaims
    <2>2. opening' = opening \ {k}
      BY <1>f
    <2>3. QueueTypes'
      BY <1>f, <2>1, <2>2 DEF QueueTypes
    <2>4. QueuesAreReclaimed'
      BY <1>f, <2>1, <2>2 DEF QueuesAreReclaimed, QueueTypes
    <2>5. HelloIsQueued'
      BY <1>f, <2>1, <2>2 DEF HelloIsQueued, QueueTypes
    <2> QED
      BY <2>1, <2>3, <2>4, <2>5
  <1>1. ASSUME NEW conn \in Conn, NEW addr \in Addr, NEW cid \in Cid,
               ForwardLong(conn, addr, cid) \/ ReceiveShort(conn, addr, cid)
        PROVE  QueueInv'
    BY <1>u, <1>1 DEF ForwardLong, ReceiveShort, envVars, indexVars
  <1>2. ASSUME NEW conn \in Conn, NEW addr \in Addr, NEW cid \in Cid,
               NEW fragment \in 0..Fragments,
               QueueWhileOpening(conn, addr, cid, fragment)
        PROVE  QueueInv'
    <2> DEFINE k == <<addr, cid>>
    <2>1. k \in Key /\ k \in opening /\ listening
      BY <1>2 DEF QueueWhileOpening, Unrouted, Receives, Key
    <2>2. /\ pending' \in {pending, [pending EXCEPT ![k] = Append(@, fragment)]}
          /\ UNCHANGED <<sessions, crypto, seen, started, opening, listening>>
      BY <1>2, <2>1 DEF QueueWhileOpening, indexVars, envVars, QueueTypes
    <2> HIDE DEF k
    <2>3. CASE pending' = pending
      BY <1>u, <2>2, <2>3 DEF queueVars
    <2>4. CASE pending' = [pending EXCEPT ![k] = Append(@, fragment)]
      <3>1. /\ pending' \in [Key -> Seq(0..Fragments)]
            /\ Elems(pending'[k]) = Elems(pending[k]) \cup {fragment}
            /\ \A j \in Key \ {k} : pending'[j] = pending[j]
            /\ Queued' = Queued \cup {k}
        BY <2>1, <2>4, QueueGrows
      <3>2. QueuesAreReclaimed'
        <4>1. Queued' = Queued /\ Elems(seen)' = Elems(seen)
          BY <2>1, <2>2, <3>1 DEF QueuesAreReclaimed
        <4>2. \A j \in opening : Elems(pending[j]) \subseteq Elems(pending'[j])
          BY <3>1 DEF QueueTypes
        <4> QED
          BY <2>1, <2>2, <4>1, <4>2 DEF QueuesAreReclaimed
      <3>3. HelloIsQueued'
        BY <2>1, <2>2, <3>1 DEF HelloIsQueued
      <3>4. Unique(seen)'
        BY <2>2 DEF Unique
      <3> QED
        BY <2>2, <3>1, <3>2, <3>3, <3>4 DEF QueueTypes
    <2> QED
      BY <2>2, <2>3, <2>4
  <1>3. ASSUME NEW conn \in Conn, NEW addr \in Addr, NEW cid \in Cid,
               DropOverfull(conn, addr, cid)
        PROVE  QueueInv'
    BY <1>f, <1>3 DEF DropOverfull, Admitted, Unrouted, Receives, Key, indexVars, envVars
  <1>4. ASSUME NEW conn \in Conn, NEW addr \in Addr, NEW cid \in Cid,
               NEW fragment \in 0..Fragments,
               HelloUnroutable(conn, addr, cid, fragment)
        PROVE  QueueInv'
    BY <1>f, <1>4 DEF HelloUnroutable, HelloComplete, Admitted, Unrouted, Receives, Key,
                      indexVars, envVars
  <1>5. ASSUME NEW conn \in Conn, NEW addr \in Addr, NEW cid \in Cid,
               NEW fragment \in 0..Fragments,
               QueueIncomplete(conn, addr, cid, fragment)
        PROVE  QueueInv'
    <2> DEFINE k == <<addr, cid>>
    <2>1. k \in Key /\ k \notin opening /\ listening
      BY <1>5 DEF QueueIncomplete, Admitted, Unrouted, Receives, Key
    <2>2. /\ pending' = [pending EXCEPT ![k] = Append(@, fragment)]
          /\ crypto' = [crypto EXCEPT ![k] = crypto[k] \cup ({fragment} \ {0})]
          /\ seen' = Append(Silenced(k), k) /\ started' = started \cup {k}
          /\ UNCHANGED <<sessions, opening, listening>>
      BY <1>5 DEF QueueIncomplete, Assembled, indexVars, envVars
    <2> HIDE DEF k
    <2>3. /\ pending' \in [Key -> Seq(0..Fragments)]
          /\ Elems(pending'[k]) = Elems(pending[k]) \cup {fragment}
          /\ \A j \in Key \ {k} : pending'[j] = pending[j]
          /\ Queued' = Queued \cup {k}
      BY <2>1, <2>2, QueueGrows
    <2>4. seen' \in Seq(Key) /\ Unique(seen') /\ Elems(seen') = Elems(seen) \cup {k}
      <3>1. /\ Silenced(k) \in Seq(Key) /\ Unique(Silenced(k))
            /\ Elems(Silenced(k)) = Elems(seen) \ {k}
        BY SilencedIsWithout DEF QueueTypes
      <3> QED
        BY <2>1, <2>2, <3>1, ElemsOfAppend
    <2>5. QueueTypes'
      BY <2>1, <2>2, <2>3, <2>4 DEF QueueTypes
    <2>6. QueuesAreReclaimed'
      BY <2>1, <2>2, <2>3, <2>4 DEF QueuesAreReclaimed, QueueTypes
    <2>7. HelloIsQueued'
      BY <2>1, <2>2, <2>3 DEF HelloIsQueued, QueueTypes
    <2> QED
      BY <2>4, <2>5, <2>6, <2>7
  <1>6. ASSUME NEW conn \in Conn, NEW addr \in Addr, NEW cid \in Cid,
               NEW fragment \in 0..Fragments,
               HelloRouted(conn, addr, cid, fragment)
        PROVE  QueueInv'
    <2> DEFINE k == <<addr, cid>>
    <2>1. k \in Key /\ k \notin opening /\ listening /\ k \notin sessions
      BY <1>6 DEF HelloRouted, HelloComplete, Admitted, Unrouted, Receives, LongTarget, Key
    <2>2. /\ pending' = [pending EXCEPT ![k] = Append(@, fragment)]
          /\ crypto' = [crypto EXCEPT ![k] = {}]
          /\ seen' = Silenced(k) /\ started' = started \cup {k}
          /\ opening' = opening \cup {k}
          /\ UNCHANGED <<sessions, listening>>
      BY <1>6 DEF HelloRouted, indexVars, envVars
    <2>h. crypto[k] \cup ({fragment} \ {0}) = 1..Fragments
      BY <1>6 DEF HelloRouted, HelloComplete, Assembled
    <2> HIDE DEF k
    <2>3. /\ pending' \in [Key -> Seq(0..Fragments)]
          /\ Elems(pending'[k]) = Elems(pending[k]) \cup {fragment}
          /\ \A j \in Key \ {k} : pending'[j] = pending[j]
          /\ Queued' = Queued \cup {k}
      BY <2>1, <2>2, QueueGrows
    <2>4. seen' \in Seq(Key) /\ Unique(seen') /\ Elems(seen') = Elems(seen) \ {k}
      BY <2>2, SilencedIsWithout DEF QueueTypes
    <2>5. QueueTypes'
      BY <2>1, <2>2, <2>3, <2>4 DEF QueueTypes
    <2>6. 1..Fragments \subseteq Elems(pending'[k])
      BY <2>1, <2>3, <2>h DEF HelloIsQueued
    <2>7. QueuesAreReclaimed'
      BY <2>1, <2>2, <2>3, <2>4, <2>6 DEF QueuesAreReclaimed, QueueTypes
    <2>8. HelloIsQueued'
      BY <2>1, <2>2, <2>3 DEF HelloIsQueued, QueueTypes
    <2> QED
      BY <2>4, <2>5, <2>7, <2>8
  <1>7. ASSUME NEW k \in Key, OpenSucceeds(k) \/ OpenFails(k)
        PROVE  QueueInv'
    <2>1. /\ listening /\ Forget(k) /\ opening' = opening \ {k}
          /\ sessions' \subseteq sessions \cup {k} /\ UNCHANGED listening
      BY <1>7 DEF OpenSucceeds, OpenFails, indexVars, envVars
    <2> QED
      BY <1>f, <2>1
  <1>8. ASSUME NEW k \in Key, PauseTimeout(k)
        PROVE  QueueInv'
    BY <1>u, <1>8 DEF PauseTimeout, indexVars, envVars
  <1>9. ASSUME NEW k \in Key, NEW conn \in Conn, NEW cid \in Cid,
               UpstreamLong(k, conn, cid) \/ UpstreamShort(k, conn, cid)
        PROVE  QueueInv'
    BY <1>u, <1>9 DEF UpstreamLong, UpstreamShort, FromUpstream
  <1>10. ASSUME NEW silent \in 0..Len(seen), NEW gone \in SUBSET sessions,
                Reap(silent, gone)
         PROVE  QueueInv'
    <2> DEFINE quiet == Elems(SubSeq(seen, 1, silent))
    <2>1. /\ listening /\ UNCHANGED <<opening, listening>>
          /\ pending' = [k \in Key |-> IF k \in quiet THEN <<>> ELSE pending[k]]
          /\ crypto' = [k \in Key |-> IF k \in quiet THEN {} ELSE crypto[k]]
          /\ seen' = SubSeq(seen, silent + 1, Len(seen))
          /\ started' = started \ quiet /\ sessions' \subseteq sessions
      BY <1>10 DEF Reap, envVars
    <2>2. seen \in Seq(Key) /\ Unique(seen) /\ silent \in 0..Len(seen)
      BY <1>10 DEF QueueTypes
    <2>3. /\ seen' \in Seq(Key) /\ Unique(seen') /\ Elems(seen') = Elems(seen) \ quiet
          /\ quiet \subseteq Key /\ quiet \subseteq Elems(seen)
      BY <2>1, <2>2, UniqueSuffix
    <2> HIDE DEF quiet
    <2>5. Queued' = Queued \ quiet
      BY <2>1 DEF Queued
    <2>6. <<>> \in Seq(0..Fragments)
      OBVIOUS
    <2>7. QueueTypes'
      BY <2>1, <2>3, <2>6 DEF QueueTypes
    <2>8. QueuesAreReclaimed'
      BY <2>1, <2>3, <2>5 DEF QueuesAreReclaimed, QueueTypes
    <2>9. HelloIsQueued'
      BY <2>1 DEF HelloIsQueued, QueueTypes
    <2> QED
      BY <2>3, <2>7, <2>8, <2>9
  <1>11. ASSUME NEW configured \in RouteFiles, Reload(configured)
         PROVE  QueueInv'
    BY <1>u, <1>11 DEF Reload, indexVars
  <1>12. CASE ConnectionLost
    BY <1>12 DEF ConnectionLost, QueueTypes, Unique, QueuesAreReclaimed, HelloIsQueued
  <1>13. CASE UNCHANGED vars
    BY <1>u, <1>13 DEF vars, indexVars, envVars
  <1> QED
    BY <1>1, <1>2, <1>3, <1>4, <1>5, <1>6, <1>7, <1>8, <1>9, <1>10, <1>11, <1>12, <1>13
    DEF QNext, ClientDatagram

-----------------------------------------------------------------------------
(* The indexes of the sessions *)

IndexTypes ==
    /\ sessions \in SUBSET Key /\ server_cids \in [Key -> SUBSET Cid]
    /\ responded \in SUBSET Key
    /\ by_addr \in [Addr -> SUBSET Key] /\ by_cid \in [Cid -> Key \cup {NoKey}]
    /\ length_counts \in [Lengths -> Nat]

\* Server ids are registered for a session of the connection whose server issued them.
Owners ==
    \A c \in Cid : by_cid[c] # NoKey =>
        \E conn \in Conn : by_cid[c][2] \in CidsOf(conn) /\ c \in ServerCids[conn]

Registered == {c \in Cid : by_cid[c] # NoKey}

OfLength(n) == {c \in Cid : by_cid[c] # NoKey /\ LengthOf[c] = n}

\* The three parts of IndexesAgree.
AddressesAgree == \A a \in Addr : by_addr[a] = {k \in sessions : k[1] = a}
IdsAgree ==
    \A c \in Cid, k \in Key : by_cid[c] = k <=> k \in sessions /\ c \in server_cids[k]
CountsAgree == \A n \in Lengths : length_counts[n] = Cardinality(OfLength(n))

IndexInv ==
    /\ IndexTypes /\ AddressesAgree /\ IdsAgree /\ CountsAgree /\ Owners
    /\ IsFiniteSet(sessions) /\ IsFiniteSet(Registered)

\* Ids of one length, counted.
LEMMA CountsAreNatural ==
  ASSUME IsFiniteSet(Registered), NEW n
  PROVE  IsFiniteSet(OfLength(n)) /\ Cardinality(OfLength(n)) \in Nat
  <1>1. OfLength(n) \in SUBSET Registered
    BY DEF Registered, OfLength
  <1>2. IsFiniteSet(OfLength(n))
    BY <1>1, FS_Subset
  <1> QED
    BY <1>2, FS_CardinalityType

LEMMA RegisterKeepsIndexes ==
  ASSUME IndexInv, NEW k \in sessions, NEW conn \in Conn, NEW cid \in ServerCids[conn],
         k[2] \in CidsOf(conn), Register(k, cid), UNCHANGED <<sessions, by_addr>>,
         responded' = responded \cup {k}
  PROVE  IndexInv'
  <1> USE DEF IndexInv, IndexTypes
  <1>1. k \in Key /\ cid \in Cid /\ k # NoKey
    BY DEF Key
  <1>2. CASE by_cid[cid] # NoKey
    <2>1. UNCHANGED <<server_cids, by_cid, length_counts>>
      BY <1>2 DEF Register
    <2> QED
      BY <1>1, <2>1 DEF AddressesAgree, IdsAgree, CountsAgree, OfLength, Owners, Registered
  <1>3. CASE by_cid[cid] = NoKey
    <2>1. /\ server_cids' = [server_cids EXCEPT ![k] = @ \cup {cid}]
          /\ by_cid' = [by_cid EXCEPT ![cid] = k]
          /\ length_counts' = [length_counts EXCEPT ![LengthOf[cid]] = @ + 1]
      BY <1>3 DEF Register
    <2>2. Registered' = Registered \cup {cid}
      BY <1>1, <2>1 DEF Registered
    <2>3. IsFiniteSet(Registered')
      BY <2>2, FS_AddElement
    <2>4. CountsAgree'
      <3> SUFFICES ASSUME NEW n \in Lengths
                   PROVE  length_counts'[n] = Cardinality(OfLength(n)')
        BY DEF CountsAgree
      <3>1. IsFiniteSet(OfLength(n)) /\ length_counts[n] = Cardinality(OfLength(n))
        BY CountsAreNatural DEF CountsAgree
      <3>2. cid \notin OfLength(n)
        BY <1>3 DEF OfLength
      <3>3. OfLength(n)' = IF LengthOf[cid] = n THEN OfLength(n) \cup {cid} ELSE OfLength(n)
        BY <1>1, <2>1 DEF OfLength
      <3>4. Cardinality(OfLength(n) \cup {cid}) = Cardinality(OfLength(n)) + 1
        BY <3>1, <3>2, FS_AddElement
      <3>5. length_counts'[n] = IF LengthOf[cid] = n THEN length_counts[n] + 1
                                ELSE length_counts[n]
        BY <2>1
      <3> QED
        BY <3>1, <3>3, <3>4, <3>5
    <2>5. IdsAgree'
      <3> SUFFICES ASSUME NEW c \in Cid, NEW j \in Key
                   PROVE  by_cid'[c] = j <=> j \in sessions /\ c \in server_cids'[j]
        BY DEF IdsAgree
      <3>1. by_cid[c] = j <=> j \in sessions /\ c \in server_cids[j]
        BY DEF IdsAgree
      <3>2. by_cid'[c] = IF c = cid THEN k ELSE by_cid[c]
        BY <2>1
      <3>3. server_cids'[j] = IF j = k THEN server_cids[k] \cup {cid} ELSE server_cids[j]
        BY <2>1
      <3> QED
        BY <1>1, <1>3, <3>1, <3>2, <3>3 DEF Key
    <2>6. AddressesAgree'
      BY DEF AddressesAgree
    <2>7. LengthOf[cid] \in Lengths /\ length_counts' \in [Lengths -> Nat]
      BY <1>1, <2>1 DEF Lengths
    <2>8. Owners'
      BY <1>1, <2>1 DEF Owners
    <2>9. IndexTypes'
      BY <1>1, <2>1, <2>7
    <2> QED
      BY <2>3, <2>4, <2>5, <2>6, <2>8, <2>9
  <1> QED
    BY <1>2, <1>3

LEMMA IndexStep ==
  ASSUME IndexInv, QueueInv, [QNext]_vars
  PROVE  IndexInv'
  <1> USE DEF IndexInv
  <1>u. ASSUME UNCHANGED indexVars PROVE IndexInv'
    BY <1>u DEF indexVars, IndexTypes, AddressesAgree, IdsAgree, CountsAgree, OfLength, Owners,
                Registered
  <1>1. ASSUME NEW conn \in Conn, NEW addr \in Addr, NEW cid \in Cid,
               ClientDatagram(conn, addr, cid)
        PROVE  IndexInv'
    BY <1>u, <1>1 DEF ClientDatagram, ForwardLong, ReceiveShort, DropOverfull,
                      QueueWhileOpening, QueueIncomplete, HelloUnroutable, HelloRouted
  <1>2. ASSUME NEW k \in Key, OpenSucceeds(k)
        PROVE  IndexInv'
    <2>1. k \notin sessions
      BY <1>2 DEF OpenSucceeds, QueueInv, QueuesAreReclaimed
    <2>2. /\ sessions' = sessions \cup {k} /\ responded' = responded \ {k}
          /\ by_addr' = [by_addr EXCEPT ![k[1]] = @ \cup {k}]
          /\ server_cids' = [server_cids EXCEPT ![k] = {}]
          /\ UNCHANGED <<by_cid, length_counts>>
      BY <1>2 DEF OpenSucceeds
    <2>3. k[1] \in Addr
      BY DEF Key
    <2>4. IndexTypes'
      BY <2>2, <2>3 DEF IndexTypes
    <2>5. AddressesAgree'
      BY <2>2, <2>3 DEF AddressesAgree, IndexTypes
    <2>6. IdsAgree'
      BY <2>1, <2>2 DEF IdsAgree, IndexTypes
    <2>7. IsFiniteSet(sessions')
      BY <2>2, FS_AddElement
    <2>8. CountsAgree'
      BY <2>2 DEF CountsAgree, OfLength
    <2> QED
      BY <2>2, <2>4, <2>5, <2>6, <2>7, <2>8 DEF Owners, Registered
  <1>3. ASSUME NEW k \in Key, OpenFails(k) \/ PauseTimeout(k)
        PROVE  IndexInv'
    BY <1>u, <1>3 DEF OpenFails, PauseTimeout
  <1>4. ASSUME NEW k \in Key, NEW conn \in Conn, NEW cid \in Cid, UpstreamLong(k, conn, cid)
        PROVE  IndexInv'
    BY <1>4, RegisterKeepsIndexes DEF UpstreamLong, FromUpstream
  <1>5. ASSUME NEW k \in Key, NEW conn \in Conn, NEW cid \in Cid, UpstreamShort(k, conn, cid)
        PROVE  IndexInv'
    BY <1>5 DEF UpstreamShort, FromUpstream, IndexTypes, AddressesAgree, IdsAgree, CountsAgree,
                OfLength, Owners, Registered
  <1>6. ASSUME NEW silent \in 0..Len(seen), NEW gone \in SUBSET sessions,
               Reap(silent, gone)
        PROVE  IndexInv'
    <2> DEFINE owned == CidsOwned(gone)
    <2>1. /\ sessions' = sessions \ gone /\ responded' = responded \ gone
          /\ by_addr' = [a \in Addr |-> by_addr[a] \ gone]
          /\ server_cids' = [k \in Key |-> IF k \in gone THEN {} ELSE server_cids[k]]
          /\ by_cid' = [c \in Cid |-> IF c \in owned THEN NoKey ELSE by_cid[c]]
          /\ length_counts' = [n \in Lengths |->
                length_counts[n] - Cardinality({c \in owned : LengthOf[c] = n})]
      BY <1>6 DEF Reap
    <2>2. gone \subseteq Key
      BY DEF IndexTypes
    <2>3. \A c \in Cid : c \in owned <=> by_cid[c] \in gone
      BY <2>2 DEF CidsOwned, IdsAgree
    <2>4. owned \subseteq Registered
      BY <2>2, <2>3 DEF CidsOwned, Registered, Key
    <2> HIDE DEF owned
    <2>5. Registered' = Registered \ owned
      BY <2>1, <2>4 DEF Registered
    <2>6. IsFiniteSet(Registered') /\ IsFiniteSet(sessions')
      BY <2>1, <2>5, FS_Difference
    <2>7. ASSUME NEW n \in Lengths
          PROVE  /\ length_counts'[n] = Cardinality(OfLength(n)')
                 /\ length_counts'[n] \in Nat
      <3> DEFINE freed == {c \in owned : LengthOf[c] = n}
      <3>1. IsFiniteSet(OfLength(n)) /\ length_counts[n] = Cardinality(OfLength(n))
        BY CountsAreNatural DEF CountsAgree
      <3>2. OfLength(n)' = OfLength(n) \ freed /\ OfLength(n) \cap freed = freed
        BY <2>1, <2>4 DEF Registered, OfLength
      <3>3. length_counts'[n] = length_counts[n] - Cardinality(freed)
        BY <2>1
      <3> HIDE DEF freed
      <3>4. /\ IsFiniteSet(OfLength(n) \ freed)
            /\ Cardinality(OfLength(n) \ freed)
               = Cardinality(OfLength(n)) - Cardinality(OfLength(n) \cap freed)
        BY <3>1, FS_Difference
      <3>5. Cardinality(OfLength(n)') \in Nat
        BY <3>2, <3>4, FS_CardinalityType
      <3> QED
        BY <3>1, <3>2, <3>3, <3>4, <3>5
    <2>8. AddressesAgree'
      BY <2>1 DEF AddressesAgree, IndexTypes
    <2>9. IdsAgree'
      <3> SUFFICES ASSUME NEW c \in Cid, NEW j \in Key
                   PROVE  by_cid'[c] = j <=> j \in sessions' /\ c \in server_cids'[j]
        BY DEF IdsAgree
      <3>1. by_cid[c] = j <=> j \in sessions /\ c \in server_cids[j]
        BY DEF IdsAgree
      <3>2. by_cid'[c] = IF by_cid[c] \in gone THEN NoKey ELSE by_cid[c]
        BY <2>1, <2>3
      <3>3. server_cids'[j] = IF j \in gone THEN {} ELSE server_cids[j]
        BY <2>1
      <3>4. j # NoKey
        BY DEF Key
      <3> QED
        BY <2>1, <3>1, <3>2, <3>3, <3>4
    <2>10. CountsAgree'
      BY <2>7 DEF CountsAgree
    <2>11. IndexTypes'
      BY <2>1, <2>7 DEF IndexTypes
    <2>12. Owners'
      BY <2>1 DEF Owners
    <2> QED
      BY <2>6, <2>8, <2>9, <2>10, <2>11, <2>12
  <1>7. ASSUME NEW configured \in RouteFiles, Reload(configured)
        PROVE  IndexInv'
    BY <1>u, <1>7 DEF Reload
  <1>8. CASE ConnectionLost
    BY <1>u, <1>8 DEF ConnectionLost
  <1>9. CASE UNCHANGED vars
    BY <1>u, <1>9 DEF vars
  <1> QED
    BY <1>1, <1>2, <1>3, <1>4, <1>5, <1>6, <1>7, <1>8, <1>9 DEF QNext

-----------------------------------------------------------------------------
(* Types, and the session of a datagram *)

RestTypes ==
    /\ awaiting \in SUBSET Key /\ timers \in SUBSET Key /\ paused \in BOOLEAN
    /\ routes \in SUBSET Conn /\ issued \in SUBSET Cid /\ fate \in Fates

LEMMA RestTypesStep ==
  ASSUME RestTypes, [QNext]_vars
  PROVE  RestTypes'
  <1> USE DEF RestTypes, Fates, pauseVars, envVars
  <1>1. ASSUME NEW conn \in Conn, NEW addr \in Addr, NEW cid \in Cid,
               ClientDatagram(conn, addr, cid)
        PROVE  RestTypes'
    <2>1. UNCHANGED <<awaiting, timers, paused, routes, issued>>
      BY <1>1 DEF ClientDatagram, ForwardLong, ReceiveShort, DropOverfull,
                  QueueWhileOpening, QueueIncomplete, HelloUnroutable, HelloRouted
    <2>2. \A target : Fate(conn, addr, target) \in Fates
      BY DEF Fate
    <2>3. fate' \in Fates
      BY <1>1, <2>2 DEF ClientDatagram, ForwardLong, ReceiveShort, DropOverfull,
                        QueueWhileOpening, QueueIncomplete, HelloUnroutable, HelloRouted,
                        HelloComplete, Admitted, Unrouted
    <2> QED
      BY <2>1, <2>3
  <1>2. ASSUME NEW k \in Key, OpenSucceeds(k)
        PROVE  RestTypes'
    BY <1>2 DEF OpenSucceeds
  <1>3. ASSUME NEW k \in Key, Release(k) \/ UNCHANGED pauseVars,
               fate' = "none", UNCHANGED routes, issued' \in SUBSET Cid
        PROVE  RestTypes'
    BY <1>3 DEF Release
  <1>4. ASSUME NEW k \in Key, OpenFails(k) \/ PauseTimeout(k)
        PROVE  RestTypes'
    BY <1>3, <1>4 DEF OpenFails, PauseTimeout
  <1>5. ASSUME NEW k \in Key, NEW conn \in Conn, NEW cid \in Cid,
               UpstreamLong(k, conn, cid) \/ UpstreamShort(k, conn, cid)
        PROVE  RestTypes'
    BY <1>3, <1>5 DEF UpstreamLong, UpstreamShort, FromUpstream
  <1>6. ASSUME NEW silent \in 0..Len(seen), NEW gone \in SUBSET sessions,
               Reap(silent, gone)
        PROVE  RestTypes'
    BY <1>6 DEF Reap
  <1>7. ASSUME NEW configured \in RouteFiles, Reload(configured)
        PROVE  RestTypes'
    BY <1>7 DEF Reload
  <1>8. CASE ConnectionLost
    BY <1>8 DEF ConnectionLost
  <1>9. CASE UNCHANGED vars
    BY <1>9 DEF vars
  <1> QED
    BY <1>1, <1>2, <1>4, <1>5, <1>6, <1>7, <1>8, <1>9 DEF QNext

QInv == QueueInv /\ IndexInv /\ RestTypes

LEMMA InitQInv == QInit => QInv
  <1> SUFFICES ASSUME QInit PROVE QInv
    OBVIOUS
  <1> USE DEF QInit
  <1>1. <<>> \in Seq(0..Fragments) /\ <<>> \in Seq(Key) /\ Len(<<>>) = 0
    OBVIOUS
  <1>2. Elems(seen) = {} /\ Unique(seen) /\ Queued = {}
    BY <1>1 DEF Elems, Unique, Queued
  <1>3. QueueInv
    BY <1>1, <1>2 DEF QueueInv, QueueTypes, QueuesAreReclaimed, HelloIsQueued
  <1>4. IndexTypes /\ AddressesAgree /\ Owners
    BY DEF IndexTypes, AddressesAgree, Owners
  <1>5. IdsAgree
    BY DEF IdsAgree, Key
  <1>6. CountsAgree /\ IsFiniteSet(sessions) /\ IsFiniteSet(Registered)
    <2>1. Registered = {} /\ \A n \in Lengths : OfLength(n) = {}
      BY DEF Registered, OfLength
    <2> QED
      BY <2>1, FS_EmptySet DEF CountsAgree
  <1>7. RestTypes
    BY DEF RestTypes, Fates
  <1> QED
    BY <1>3, <1>4, <1>5, <1>6, <1>7 DEF QInv, IndexInv

LEMMA StepQInv ==
  ASSUME QInv, [QNext]_vars
  PROVE  QInv'
  BY QueueStep, IndexStep, RestTypesStep DEF QInv, IndexInv, IndexTypes

\* The router's dictionaries keep their types.
THEOREM RouterTypeCorrect == QSpec => []QTypeOK
  <1>1. QInv => QTypeOK
    BY DEF QInv, QueueInv, QueueTypes, IndexInv, IndexTypes, RestTypes, QTypeOK
  <1> QED
    BY <1>1, InitQInv, StepQInv, PTL DEF QSpec

\* The indexes over the sessions agree, whatever opens, answers and is reaped in between,
\* and whichever servers issue the same id (_add_session, _remove_session and
\* _index_server_connection_id).
THEOREM IndexesAlwaysAgree == QSpec => []IndexesAgree
  <1>1. QInv => IndexesAgree
    BY DEF QInv, IndexInv, AddressesAgree, IdsAgree, CountsAgree, OfLength, IndexesAgree
  <1> QED
    BY <1>1, InitQInv, StepQInv, PTL DEF QSpec

\* Every queue belongs to an opening or will be reaped, no connection that is being opened
\* has a session, and each has its whole hello in the queue (datagram_received, _open and
\* _reaper).
THEOREM QueuesAlwaysReclaimed == QSpec => []QueuesAreReclaimed
  <1>1. QInv => QueuesAreReclaimed
    BY DEF QInv, QueueInv
  <1> QED
    BY <1>1, InitQInv, StepQInv, PTL DEF QSpec

\* No two connections use the same id: clients choose theirs at random, and so do servers.
IdsAreDistinct ==
    \A c, d \in Conn : c # d => CidsOf(c) \cap CidsOf(d) = {}

\* Where a datagram goes: to a session of its connection, or to the only session there is.
LEMMA TargetIsOwn ==
  ASSUME QInv, IdsAreDistinct, NEW conn \in Conn, NEW addr \in Addr, NEW cid \in CidsOf(conn)
  PROVE  /\ Fate(conn, addr, LongTarget(addr, cid)) # "mixed"
         /\ Fate(conn, addr, ShortTarget(addr, cid)) # "mixed"
  <1> USE DEF QInv, IndexInv
  <1>1. cid \in Cid
    BY DEF CidsOf
  <1>2. by_cid[cid] # NoKey => by_cid[cid][2] \in CidsOf(conn)
    BY <1>1 DEF Owners, IdsAreDistinct, CidsOf
  <1>3. Fate(conn, addr, LongTarget(addr, cid)) # "mixed"
    <2>1. LongTarget(addr, cid) # NoKey => LongTarget(addr, cid)[2] \in CidsOf(conn)
      BY <1>2 DEF LongTarget, IndexTypes, Key
    <2> QED
      BY <2>1 DEF Fate
  <1>4. Fate(conn, addr, ShortTarget(addr, cid)) # "mixed"
    <2>1. CASE by_cid[cid] \in by_addr[addr] /\ length_counts[LengthOf[cid]] > 0
      <3>1. ShortTarget(addr, cid) = by_cid[cid] /\ by_cid[cid] \in Key
        BY <2>1 DEF ShortTarget, IndexTypes
      <3>2. by_cid[cid][2] \in CidsOf(conn)
        BY <1>2, <3>1 DEF Key
      <3> QED
        BY <3>1, <3>2 DEF Fate
    <2>2. CASE /\ ~(length_counts[LengthOf[cid]] > 0 /\ by_cid[cid] \in by_addr[addr])
               /\ Cardinality(by_addr[addr]) = 1
      <3>1. by_addr[addr] = {k \in sessions : k[1] = addr}
        BY DEF AddressesAgree
      <3>2. IsFiniteSet(by_addr[addr])
        BY <3>1, FS_Subset
      <3>3. PICK k : by_addr[addr] = {k}
        BY <2>2, <3>2, FS_Singleton
      <3>4. ShortTarget(addr, cid) = k
        BY <2>2, <3>3 DEF ShortTarget
      <3>5. (\E j \in sessions : j[1] = addr /\ j[2] \in CidsOf(conn)) => k[2] \in CidsOf(conn)
        BY <3>1, <3>3
      <3> QED
        BY <3>4, <3>5 DEF Fate
    <2>3. CASE /\ ~(length_counts[LengthOf[cid]] > 0 /\ by_cid[cid] \in by_addr[addr])
               /\ Cardinality(by_addr[addr]) # 1
      BY <2>3 DEF ShortTarget, Fate
    <2> QED
      BY <2>1, <2>2, <2>3
  <1> QED
    BY <1>3, <1>4

\* When no two connections use the same id, no datagram of a connection with a session at
\* its address reaches another upstream, for any number of clients, migrations and
\* restarts of a session (_session_for_datagram).
THEOREM ConnectionsAreNeverMixed ==
  ASSUME IdsAreDistinct
  PROVE  QSpec => []NeverMixed
  <1>1. QInit => NeverMixed
    BY DEF QInit, NeverMixed
  <1>2. QInv /\ NeverMixed /\ [QNext]_vars => NeverMixed'
    <2> SUFFICES ASSUME QInv, NeverMixed, [QNext]_vars PROVE NeverMixed'
      OBVIOUS
    <2>1. ASSUME NEW conn \in Conn, NEW addr \in Addr, NEW cid \in Cid,
                 ForwardLong(conn, addr, cid) \/ ReceiveShort(conn, addr, cid)
          PROVE  NeverMixed'
      <3>1. cid \in CidsOf(conn)
        BY <2>1 DEF ForwardLong, ReceiveShort, Receives, CidsOf
      <3> QED
        BY <2>1, <3>1, TargetIsOwn DEF ForwardLong, ReceiveShort, NeverMixed
    <2>2. ASSUME NEW conn \in Conn, NEW addr \in Addr, NEW cid \in Cid,
                 ClientDatagram(conn, addr, cid)
          PROVE  NeverMixed'
      BY <2>1, <2>2 DEF ClientDatagram, DropOverfull, QueueWhileOpening, QueueIncomplete,
                        HelloUnroutable, HelloRouted, HelloComplete, Admitted, Unrouted,
                        NeverMixed
    <2>3. CASE \/ \E k \in Key : OpenSucceeds(k) \/ OpenFails(k) \/ PauseTimeout(k)
               \/ \E k \in Key, conn \in Conn, cid \in Cid :
                     UpstreamLong(k, conn, cid) \/ UpstreamShort(k, conn, cid)
               \/ \E silent \in 0..Len(seen), gone \in SUBSET sessions : Reap(silent, gone)
               \/ \E configured \in RouteFiles : Reload(configured)
               \/ ConnectionLost
      <3>1. fate' = "none"
        BY <2>3 DEF OpenSucceeds, OpenFails, PauseTimeout, UpstreamLong, UpstreamShort,
                    FromUpstream, Reap, Reload, ConnectionLost
      <3> QED
        BY <3>1 DEF NeverMixed
    <2> QED
      BY <2>2, <2>3 DEF NeverMixed, QNext, vars
  <1> QED
    BY <1>1, <1>2, InitQInv, StepQInv, PTL DEF QSpec
=============================================================================
