------------------------ MODULE SessionCleanupProofs ------------------------
(***************************************************************************)
(* Proofs about SessionCleanup, for any numbers of processes, sessions,    *)
(* hosts and process numbers.                                              *)
(*                                                                         *)
(* The inductive invariant Inv says what a collection may rely on between  *)
(* its judgement of a directory and its removal, though other processes    *)
(* start, end and collect in between: what it has doomed belongs to nobody *)
(* who lives on its host (Doomed), and what it has to remove stays         *)
(* removable until it is removed (Owed).  For the end of a workspace it    *)
(* says that emergency cleanup, once it has run, has left nothing but what *)
(* is on record (Cleaned), and that it will run for every workspace that   *)
(* has not had it (Registered).                                            *)
(***************************************************************************)
EXTENDS SessionCleanup, SequenceTheorems, TLAPS

Tasks == {"construct", "snapshot", "restore"}
Jobs == [task : Tasks, session : Sessions, step : {"judge", "swept", "made", "copied"},
         todo : SUBSET Sessions, doomed : Sessions \cup {None}]

Places == {"tmpfs", "session root"}

\* A process that has started keeps its place, and what belongs to a process
\* belongs to one that has started.
Born ==
    /\ \A p \in Procs : proc[p] # "unborn" => place[p] \in [host : Hosts, pid : Pids]
    /\ \A s \in Sessions : owner[s] # None => proc[owner[s]] # "unborn"
    /\ \A s \in Sessions : dir[s] # "none" \/ s \in built => owner[s] # None
    /\ \A q \in temps : proc[q] # "unborn"

\* A process works on a session of its own, which is built unless it is being
\* constructed; only a constructor makes a directory.
Working ==
    \A p \in Procs : busy[p] # None =>
        /\ Running(p)
        /\ owner[busy[p].session] = p
        /\ busy[p].session \in built <=> busy[p].task # "construct"
        /\ busy[p].step = "made" => busy[p].task = "construct"

\* Emergency cleanup has run where its flags say so.
Flags ==
    /\ cleanupHasRun \subseteq emergencyCleanupCompleted
    /\ disposed \subseteq emergencyCleanupCompleted
    /\ emergencyCleanupCompleted \subseteq built

Distinct(h) == \A j, k \in 1 .. Len(h) : h[j] = h[k] => j = k

\* A workspace listens once.
Once == \A p \in Procs : Distinct(handlers[p])

\* The directory that a collection is about to remove has an owner that is
\* gone, or is on another host, or had no lock when it was a day old.
Doomed ==
    /\ old \subseteq late
    /\ \A p \in Procs : Step(p) = "judge" /\ busy[p].doomed # None =>
          LET d == busy[p].doomed
          IN  /\ owner[d] # None
              /\ \/ d \in late
                 \/ ~Running(owner[d])
                 \/ place[owner[d]].host # place[p].host

\* What a collection has to remove belongs to processes that have ended; it is
\* gone, or its removal has failed, or the collection has still to judge it and
\* will doom it, or has doomed it.  Of the temporary files it has passed, those
\* that are left are ignored or could not be removed.
OwedBy(p) ==
    Step(p) \in {"judge", "swept"} =>
        /\ \A q \in due[p].temps : proc[q] \notin {"unborn", "running"}
        /\ \A d \in due[p].dirs :
              /\ owner[d] # None /\ ~Running(owner[d])
              /\ \/ dir[d] = "none" \/ d \in stuck
                 \/ /\ Step(p) = "judge"
                    /\ (d \in busy[p].todo /\ ShouldRemove(p, d)) \/ d = busy[p].doomed
        /\ Step(p) = "swept" => due[p].temps \cap temps \subseteq ignored \cup stuckTemps

Owed == \A p \in Procs : OwedBy(p)

\* Emergency cleanup leaves nothing but what is on record.
Cleaned ==
    \A s \in emergencyCleanupCompleted :
        /\ s \in hooked \cup stored => s \in revived
        /\ "tmpfs" \in files[s] => s \in revived \cup leaked
        /\ dir[s] = "none" \/ s \in stuck

\* Emergency cleanup has run, or will run when the process ends in order.
Registered ==
    \A s \in built \ emergencyCleanupCompleted :
        /\ proc[owner[s]] \notin {"exited", "signalled"}
        /\ Running(owner[s]) => s \in Range(handlers[owner[s]])

Inv ==
    /\ TypeOK
    /\ Born
    /\ Working
    /\ Flags
    /\ Once
    /\ Doomed
    /\ Owed
    /\ LiveSessionsKept
    /\ Cleaned
    /\ Registered
-----------------------------------------------------------------------------
(* What the ends of workspaces and processes do. *)

\* Emergency cleanup runs for the workspaces S.
Cleans(S) ==
    /\ emergencyCleanupCompleted' = emergencyCleanupCompleted \cup S
    /\ cleanupHasRun' \subseteq cleanupHasRun \cup S
    /\ hooked' \subseteq hooked /\ stored' \subseteq stored
    /\ files' \in [Sessions -> SUBSET Places]
    /\ leaked \subseteq leaked' /\ leaked' \subseteq Sessions
    /\ \A s \in Sessions : "tmpfs" \in files'[s] => "tmpfs" \in files[s]
    /\ dir' \in [Sessions -> {"none", "bare", "locked"}]
    /\ stuck \subseteq stuck' /\ stuck' \subseteq Sessions
    /\ \A s \in S \ emergencyCleanupCompleted :
          /\ s \notin hooked' \cup stored'
          /\ "tmpfs" \in files'[s] => s \in leaked'
          /\ dir'[s] = "none" \/ s \in stuck'
    /\ \A s \in Sessions : dir'[s] # "none" => dir[s] # "none"
    /\ \A s \in Sessions : s \notin S \/ s \in emergencyCleanupCompleted => dir'[s] = dir[s]
    /\ old' = old \ (S \ emergencyCleanupCompleted)
    /\ UNCHANGED <<foreign, late, snapshots, revived, built>>

\* What cleaning up the storage of S leaves of it.
LEMMA StorageEffect ==
    ASSUME TypeOK, NEW S \in SUBSET Sessions, CleanStorage(S)
    PROVE  /\ stored' = stored \ S
           /\ files' \in [Sessions -> SUBSET Places]
           /\ leaked \subseteq leaked' /\ leaked' \subseteq Sessions
           /\ \A s \in Sessions : "tmpfs" \in files'[s] => "tmpfs" \in files[s]
           /\ \A s \in S : "tmpfs" \in files'[s] => s \in leaked'
<1>1. PICK failed \in SUBSET {s \in S : "tmpfs" \in files[s]} :
         /\ stored' = stored \ S
         /\ leaked' = leaked \cup failed
         /\ files' = [s \in Sessions |-> IF s \in S \ leaked' THEN files[s] \ {"tmpfs"}
                                        ELSE files[s]]
  BY DEF CleanStorage
<1>2. leaked \subseteq Sessions /\ files \in [Sessions -> SUBSET Places]
  BY DEF TypeOK, LeftoversOK, Places
<1>3. leaked \subseteq leaked' /\ leaked' \subseteq Sessions
  BY <1>1, <1>2
<1>4. ASSUME NEW s \in Sessions
      PROVE  files'[s] = IF s \in S \ leaked' THEN files[s] \ {"tmpfs"} ELSE files[s]
  BY <1>1
<1> QED
  BY <1>1, <1>2, <1>3, <1>4

LEMMA CleanupEffect ==
    ASSUME TypeOK, Flags, NEW S \in SUBSET Sessions, EmergencyCleanup(S),
           cleanupHasRun' \subseteq cleanupHasRun \cup S, UNCHANGED built
    PROVE  Cleans(S)
<1> DEFINE first == S \ emergencyCleanupCompleted
<1>1. PICK left \in [first -> {"none", "bare"}] :
         /\ \A s \in first : dir[s] = "none" => left[s] = "none"
         /\ dir' = [s \in Sessions |-> IF s \in first THEN left[s] ELSE dir[s]]
         /\ stuck' = stuck \cup {s \in first : left[s] # "none"}
  BY DEF EmergencyCleanup
<1>2. /\ dir' \in [Sessions -> {"none", "bare", "locked"}]
      /\ stuck \subseteq stuck' /\ stuck' \subseteq Sessions
      /\ \A s \in first : dir'[s] = "none" \/ s \in stuck'
      /\ \A s \in Sessions : dir'[s] # "none" => dir[s] # "none"
      /\ \A s \in Sessions : s \notin first => dir'[s] = dir[s]
  BY <1>1 DEF TypeOK, StateOK
<1>3. /\ stored' = stored \ first
      /\ files' \in [Sessions -> SUBSET Places]
      /\ leaked \subseteq leaked' /\ leaked' \subseteq Sessions
      /\ \A s \in Sessions : "tmpfs" \in files'[s] => "tmpfs" \in files[s]
      /\ \A s \in first : "tmpfs" \in files'[s] => s \in leaked'
  <2>1. first \in SUBSET Sessions /\ CleanStorage(first)
    BY DEF EmergencyCleanup
  <2> QED
    BY <2>1, StorageEffect
<1>4. /\ emergencyCleanupCompleted' = emergencyCleanupCompleted \cup S
      /\ hooked' = hooked \ first /\ old' = old \ first
      /\ UNCHANGED <<foreign, late, snapshots, revived>>
  BY DEF EmergencyCleanup
<1> QED
  BY <1>2, <1>3, <1>4 DEF Cleans

LEMMA RunEffect ==
    ASSUME TypeOK, Flags, NEW S \in SUBSET Sessions, RunCleanups(S)
    PROVE  Cleans(S) /\ UNCHANGED disposed
<1> DEFINE T == S \ cleanupHasRun
<1>1. T \in SUBSET Sessions /\ EmergencyCleanup(T) /\ UNCHANGED <<built, disposed>>
  BY DEF RunCleanups
<1>2. cleanupHasRun' \subseteq cleanupHasRun \cup T
  BY DEF RunCleanups
<1>3. Cleans(T)
  BY <1>1, <1>2, CleanupEffect
<1>4. S \ emergencyCleanupCompleted = T \ emergencyCleanupCompleted
      /\ emergencyCleanupCompleted \cup S = emergencyCleanupCompleted \cup T
  BY DEF Flags
<1> HIDE DEF T
<1>5. T \subseteq S
  BY DEF T
<1> QED
  BY <1>1, <1>3, <1>4, <1>5 DEF Cleans

\* A process ends.  If it ends in order, every workspace that listens has had
\* its emergency cleanup.
ProcessEnds(p) ==
    /\ Running(p)
    /\ \E S \in SUBSET Range(handlers[p]), how \in {"exited", "signalled", "crashed", "killed"} :
          /\ how \in {"exited", "signalled"} => S = Range(handlers[p])
          /\ Cleans(S)
          /\ Ends(p, how)
    /\ UNCHANGED disposed

\* A process survives an event that its workspaces listen to.
ProcessSurvives(p) ==
    /\ Idle(p)
    /\ Cleans(Range(handlers[p]))
    /\ Survives(p)
    /\ UNCHANGED disposed

LEMMA FirstTwo ==
    ASSUME NEW T, NEW h \in Seq(T), h # <<>>
    PROVE  LET S == {h[i] : i \in 1 .. (IF Len(h) = 1 THEN 1 ELSE 2)}
           IN  S \subseteq Range(h) /\ (Len(h) = 1 => S = Range(h))
<1>1. Len(h) \in Nat /\ Len(h) # 0 /\ DOMAIN h = 1 .. Len(h)
  BY EmptySeq
<1>2. CASE Len(h) = 1
  BY <1>1, <1>2 DEF Range
<1>3. CASE Len(h) # 1
  <2>1. 1 \in DOMAIN h /\ 2 \in DOMAIN h
    BY <1>1, <1>3
  <2>2. {h[i] : i \in 1 .. 2} \subseteq Range(h)
    BY <2>1 DEF Range
  <2> QED
    BY <1>3, <2>2
<1> QED
  BY <1>2, <1>3

LEMMA EndEffect ==
    ASSUME TypeOK, Flags, NEW p \in Procs,
           \/ Exit(p) \/ Signal(p) \/ UncaughtException(p) \/ UnhandledRejection(p) \/ Kill(p)
    PROVE  ProcessEnds(p) \/ ProcessSurvives(p)
<1> DEFINE R == Range(handlers[p])
<1>1. R \in SUBSET Sessions /\ handlers[p] \in Seq(Sessions)
  BY DEF TypeOK, StateOK, Of
<1>2. ASSUME NEW S \in SUBSET R, RunCleanups(S) PROVE Cleans(S) /\ UNCHANGED disposed
  BY <1>1, <1>2, RunEffect
<1>3. CASE Exit(p)
  BY <1>2, <1>3 DEF Exit, ProcessEnds, Idle
<1>4. CASE Signal(p)
  BY <1>2, <1>4 DEF Signal, ProcessEnds, ProcessSurvives, Idle
<1>5. CASE UncaughtException(p)
  <2>1. {Head(handlers[p])} \in SUBSET R
    BY <1>1, <1>5 DEF UncaughtException, Range
  <2> QED
    BY <1>2, <1>5, <2>1 DEF UncaughtException, ProcessEnds, Idle
<1>6. CASE UnhandledRejection(p)
  <2> DEFINE n == IF Len(handlers[p]) = 1 THEN 1 ELSE 2
             S == {handlers[p][i] : i \in 1 .. n}
  <2>1. handlers[p] # <<>>
    BY <1>6 DEF UnhandledRejection
  <2>3. S \in SUBSET R /\ (Len(handlers[p]) = 1 => S = R)
    BY <1>1, <2>1, FirstTwo
  <2>4. Idle(p) /\ RunCleanups(S)
        /\ (Ends(p, "crashed") \/ (Len(handlers[p]) = 1 /\ Survives(p)))
    BY <1>6 DEF UnhandledRejection
  <2> HIDE DEF S, n
  <2>5. Cleans(S) /\ UNCHANGED disposed
    BY <1>2, <2>3, <2>4
  <2> QED
    BY <2>3, <2>4, <2>5 DEF ProcessEnds, ProcessSurvives, Idle
<1>7. CASE Kill(p)
  <2>1. {} \in SUBSET R /\ Cleans({})
    BY <1>7 DEF Kill, Cleans, Places, TypeOK, StateOK, LeftoversOK, dirVars, storageVars, useVars, flagVars
  <2> QED
    BY <1>7, <2>1 DEF Kill, ProcessEnds, flagVars
<1> QED
  BY <1>3, <1>4, <1>5, <1>6, <1>7

\* dispose() of s: its registry, which listened once, listens no more.
Disposed(s) ==
    /\ Usable(s)
    /\ Cleans({s})
    /\ disposed' = disposed \cup {s}
    /\ handlers' \in [Procs -> Seq(Sessions)]
    /\ \A p \in Procs : /\ p # owner[s] => handlers'[p] = handlers[p]
                        /\ Range(handlers'[p]) = Range(handlers[p]) \ {s}
    /\ Once'
    /\ UNCHANGED <<procVars, busy, tempVars, due>>

\* g is h without its i-th element.
Without(g, h, i) ==
    /\ Len(g) = Len(h) - 1
    /\ \A j \in 1 .. Len(h) - 1 : /\ j < i => g[j] = h[j]
                                  /\ j >= i => g[j] = h[j + 1]

LEMMA WithoutElement ==
    ASSUME NEW S, NEW h \in Seq(S), NEW i \in 1 .. Len(h)
    PROVE  LET g == SubSeq(h, 1, i - 1) \o SubSeq(h, i + 1, Len(h))
           IN  g \in Seq(S) /\ Without(g, h, i)
<1> DEFINE a == SubSeq(h, 1, i - 1)
           b == SubSeq(h, i + 1, Len(h))
           g == a \o b
<1>1. Len(h) \in Nat /\ \A j \in 1 .. Len(h) : h[j] \in S
  OBVIOUS
<1>2. /\ a \in Seq(S) /\ Len(a) = i - 1
      /\ \A j \in 1 .. i - 1 : a[j] = h[j]
  <2>1. 1 \in Int /\ i - 1 \in Int /\ \A j \in 1 .. i - 1 : h[j] \in S
    BY <1>1
  <2>2. /\ a \in Seq(S) /\ Len(a) = IF 1 <= i - 1 THEN i - 1 - 1 + 1 ELSE 0
        /\ \A j \in 1 .. i - 1 - 1 + 1 : a[j] = h[1 + j - 1]
    BY <2>1, SubSeqProperties
  <2> HIDE DEF a
  <2> QED
    BY <1>1, <2>2
<1>3. /\ b \in Seq(S) /\ Len(b) = Len(h) - i
      /\ \A j \in 1 .. Len(h) - i : b[j] = h[i + j]
  <2>1. i + 1 \in Int /\ Len(h) \in Int /\ \A j \in i + 1 .. Len(h) : h[j] \in S
    BY <1>1
  <2>2. /\ b \in Seq(S) /\ Len(b) = IF i + 1 <= Len(h) THEN Len(h) - (i + 1) + 1 ELSE 0
        /\ \A j \in 1 .. Len(h) - (i + 1) + 1 : b[j] = h[i + 1 + j - 1]
    BY <2>1, SubSeqProperties
  <2> HIDE DEF b
  <2> QED
    BY <1>1, <2>2
<1> HIDE DEF a, b
<1>4. /\ g \in Seq(S) /\ Len(g) = Len(a) + Len(b)
      /\ \A j \in 1 .. Len(a) + Len(b) : g[j] = IF j <= Len(a) THEN a[j] ELSE b[j - Len(a)]
  BY <1>2, <1>3, ConcatProperties
<1> HIDE DEF g
<1>5. Len(a) + Len(b) = Len(h) - 1
  BY <1>1, <1>2, <1>3
<1>6. ASSUME NEW j \in 1 .. Len(h) - 1, j < i PROVE g[j] = h[j]
  <2>1. j \in 1 .. i - 1 /\ j <= Len(a) /\ j \in 1 .. Len(a) + Len(b)
    BY <1>1, <1>2, <1>5, <1>6
  <2> QED
    BY <1>2, <1>4, <2>1
<1>7. ASSUME NEW j \in 1 .. Len(h) - 1, j >= i PROVE g[j] = h[j + 1]
  <2>1. ~(j <= Len(a)) /\ j \in 1 .. Len(a) + Len(b)
    BY <1>1, <1>2, <1>5, <1>7
  <2>2. j - Len(a) \in 1 .. Len(h) - i /\ i + (j - Len(a)) = j + 1
    BY <1>1, <1>2, <1>7
  <2>3. g[j] = b[j - Len(a)]
    BY <1>4, <2>1
  <2> QED
    BY <1>3, <2>2, <2>3
<1>8. g \in Seq(S) /\ Without(g, h, i)
  BY <1>4, <1>5, <1>6, <1>7 DEF Without
<1> QED
  BY <1>8 DEF g, a, b

LEMMA RemoveElement ==
    ASSUME NEW S, NEW h \in Seq(S), NEW i \in 1 .. Len(h),
           NEW g \in Seq(S), Without(g, h, i), Distinct(h)
    PROVE  Range(g) = Range(h) \ {h[i]} /\ Distinct(g)
<1> USE DEF Without, Distinct
<1>1. Len(h) \in Nat /\ DOMAIN g = 1 .. Len(h) - 1 /\ DOMAIN h = 1 .. Len(h)
  OBVIOUS
<1>2. ASSUME NEW j \in 1 .. Len(h) - 1 PROVE g[j] \in Range(h) /\ g[j] # h[i]
  <2>1. CASE j < i
    <3>1. j \in 1 .. Len(h) /\ j # i /\ g[j] = h[j]
      BY <1>1, <2>1
    <3> QED
      BY <1>1, <3>1 DEF Range
  <2>2. CASE j >= i
    <3>1. j + 1 \in 1 .. Len(h) /\ j + 1 # i /\ g[j] = h[j + 1]
      BY <1>1, <2>2
    <3> QED
      BY <1>1, <3>1 DEF Range
  <2> QED
    BY <1>1, <2>1, <2>2
<1>3. ASSUME NEW j \in 1 .. Len(h), j # i PROVE \E k \in 1 .. Len(h) - 1 : g[k] = h[j]
  <2>1. CASE j < i
    BY <1>1, <2>1
  <2>2. CASE j > i
    <3>1. j - 1 \in 1 .. Len(h) - 1 /\ j - 1 >= i /\ (j - 1) + 1 = j
      BY <1>1, <2>2
    <3> QED
      BY <3>1
  <2> QED
    BY <1>1, <1>3, <2>1, <2>2
<1>4. Distinct(g)
  BY <1>1
<1>5. Range(g) = Range(h) \ {h[i]}
  <2>1. Range(g) \subseteq Range(h) \ {h[i]}
    BY <1>1, <1>2 DEF Range
  <2>2. Range(h) \ {h[i]} \subseteq Range(g)
    <3> SUFFICES ASSUME NEW x \in Range(h), x # h[i] PROVE x \in Range(g)
      OBVIOUS
    <3>1. PICK j \in 1 .. Len(h) : h[j] = x
      BY <1>1 DEF Range
    <3>2. PICK k \in 1 .. Len(h) - 1 : g[k] = x
      BY <1>3, <3>1
    <3> QED
      BY <1>1, <3>2 DEF Range
  <2> QED
    BY <2>1, <2>2
<1> QED
  BY <1>4, <1>5

LEMMA DisposeEffect ==
    ASSUME TypeOK, Flags, Once, Born, NEW s \in Sessions, Dispose(s)
    PROVE  Disposed(s)
<1> DEFINE p == owner[s]
           h == handlers[p]
<1>1. p \in Procs /\ Idle(p) /\ h \in Seq(Sessions)
  BY DEF Dispose, Usable, TypeOK, StateOK, Born
<1>2. Cleans({s})
  BY CleanupEffect DEF Dispose
<1>3. \A q \in Procs : q # p => s \notin Range(handlers[q])
  BY DEF TypeOK, StateOK, Of
<1>4. /\ handlers' \in [Procs -> Seq(Sessions)] /\ Once'
      /\ \A q \in Procs : /\ q # p => handlers'[q] = handlers[q]
                          /\ Range(handlers'[q]) = Range(handlers[q]) \ {s}
  <2>1. CASE s \notin Range(h) /\ UNCHANGED handlers
    BY <1>3, <2>1 DEF TypeOK, StateOK, Once
  <2>2. ASSUME NEW i \in DOMAIN h, h[i] = s,
               handlers' = [handlers EXCEPT ![p] = SubSeq(h, 1, i - 1) \o SubSeq(h, i + 1, Len(h))]
        PROVE  <1>4!:
    <3> DEFINE g == SubSeq(h, 1, i - 1) \o SubSeq(h, i + 1, Len(h))
    <3>1. i \in 1 .. Len(h) /\ Distinct(h)
      BY <1>1, <2>2 DEF Once
    <3> HIDE DEF h
    <3>2. g \in Seq(Sessions) /\ Range(g) = Range(h) \ {s} /\ Distinct(g)
      <4>1. g \in Seq(Sessions) /\ Without(g, h, i)
        BY <1>1, <3>1, WithoutElement
      <4> HIDE DEF g
      <4> QED
        BY <1>1, <2>2, <3>1, <4>1, RemoveElement
    <3>3. handlers' = [handlers EXCEPT ![p] = g]
      BY <2>2
    <3> HIDE DEF g
    <3>4. handlers'[p] = g /\ \A q \in Procs : q # p => handlers'[q] = handlers[q]
      BY <1>1, <3>3 DEF TypeOK, StateOK
    <3>5. Once'
      BY <3>2, <3>4 DEF Once
    <3> QED
      <4>1. handlers' \in [Procs -> Seq(Sessions)]
        BY <1>1, <3>2, <3>3 DEF TypeOK, StateOK
      <4>2. ASSUME NEW q \in Procs PROVE Range(handlers'[q]) = Range(handlers[q]) \ {s}
        BY <1>3, <3>2, <3>4 DEF h
      <4> QED
        BY <3>4, <3>5, <4>1, <4>2
  <2> QED
    BY <2>1, <2>2 DEF Dispose, Unregister
<1> QED
  BY <1>2, <1>4 DEF Dispose, Disposed

LEMMA RangeAppend ==
    ASSUME NEW S, NEW h \in Seq(S), NEW e \in S
    PROVE  /\ Append(h, e) \in Seq(S)
           /\ Range(Append(h, e)) = Range(h) \cup {e}
           /\ Distinct(h) /\ e \notin Range(h) => Distinct(Append(h, e))
<1>1. /\ Append(h, e) \in Seq(S) /\ Len(Append(h, e)) = Len(h) + 1
      /\ \A i \in 1 .. Len(h) : Append(h, e)[i] = h[i]
      /\ Append(h, e)[Len(h) + 1] = e
  BY AppendProperties
<1>2. /\ DOMAIN h = 1 .. Len(h) /\ Len(h) \in Nat
      /\ DOMAIN Append(h, e) = 1 .. Len(h) + 1
  BY <1>1
<1>3. Range(Append(h, e)) \subseteq Range(h) \cup {e}
  <2> SUFFICES ASSUME NEW i \in 1 .. Len(h) + 1 PROVE Append(h, e)[i] \in Range(h) \cup {e}
    BY <1>2 DEF Range
  <2>1. i \in 1 .. Len(h) \/ i = Len(h) + 1
    BY <1>2
  <2> QED
    BY <1>1, <1>2, <2>1 DEF Range
<1>4. Range(h) \cup {e} \subseteq Range(Append(h, e))
  <2>1. Len(h) + 1 \in DOMAIN Append(h, e) /\ 1 .. Len(h) \subseteq DOMAIN Append(h, e)
    BY <1>2
  <2> QED
    BY <1>1, <1>2, <2>1 DEF Range
<1>5. ASSUME Distinct(h), e \notin Range(h) PROVE Distinct(Append(h, e))
  <2>1. \A i \in 1 .. Len(h) : h[i] # e
    BY <1>2, <1>5 DEF Range
  <2> SUFFICES ASSUME NEW i \in 1 .. Len(h) + 1, NEW j \in 1 .. Len(h) + 1,
                      Append(h, e)[i] = Append(h, e)[j]
               PROVE  i = j
    BY <1>1 DEF Distinct
  <2>2. (i \in 1 .. Len(h) \/ i = Len(h) + 1) /\ (j \in 1 .. Len(h) \/ j = Len(h) + 1)
    BY <1>2
  <2> QED
    BY <1>1, <1>5, <2>1, <2>2 DEF Distinct
<1> QED
  BY <1>1, <1>3, <1>4, <1>5

\* What all processes but p have doomed is as it was.
DoomsNothing(p) ==
    /\ \A q \in Procs : q # p => busy'[q] = busy[q]
    /\ ~(Step(p)' = "judge" /\ busy'[p].doomed # None)
    /\ \A q \in Procs : Running(q)' => Running(q)
    /\ late' = late /\ old' \subseteq old /\ place' = place
    /\ \A e \in Sessions : owner[e] # None => owner'[e] = owner[e]

LEMMA DoomedFrame ==
    ASSUME TypeOK, Born, Doomed, NEW p \in Procs, DoomsNothing(p)
    PROVE  Doomed'
<1> USE DEF DoomsNothing
<1>1. old' \subseteq late'
  BY DEF Doomed
<1>2. ASSUME NEW q \in Procs, Step(q)' = "judge", busy'[q].doomed # None
      PROVE  LET d == busy'[q].doomed
             IN  /\ owner'[d] # None
                 /\ \/ d \in late'
                    \/ proc'[owner'[d]] # "running"
                    \/ place'[owner'[d]].host # place'[q].host
  <2> DEFINE d == busy[q].doomed
  <2>1. q # p /\ busy'[q] = busy[q] /\ Step(q) = "judge" /\ d # None /\ busy[q] # None
    BY <1>2 DEF Step, Running
  <2>2. busy[q] \in Jobs
    BY <2>1 DEF TypeOK, StateOK, Jobs, Tasks
  <2>3. d \in Sessions
    BY <2>1, <2>2 DEF Jobs
  <2>4. owner[d] # None
        /\ (d \in late \/ ~Running(owner[d]) \/ place[owner[d]].host # place[q].host)
    BY <2>1 DEF Doomed
  <2>5. owner'[d] = owner[d] /\ owner[d] \in Procs
    BY <2>3, <2>4 DEF TypeOK, StateOK
  <2>6. proc'[owner[d]] = "running" => proc[owner[d]] = "running"
    BY <2>5 DEF Running
  <2> HIDE DEF d
  <2>7. busy'[q].doomed = d
    BY <2>1 DEF d
  <2> QED
    BY <2>4, <2>5, <2>6, <2>7 DEF Running
<1> QED
  BY <1>1, <1>2 DEF Doomed, Running

\* What no step but the start of a process undoes: what has ended has ended, and
\* nobody adds to what it has left.
Abates ==
    /\ stuck \subseteq stuck' /\ place' = place
    /\ \A q \in Procs : /\ proc'[q] = "running" => proc[q] = "running"
                        /\ proc[q] \notin {"unborn", "running"} => proc'[q] = proc[q]
                        /\ q \in temps' /\ proc[q] # "running" =>
                              /\ q \in temps
                              /\ q \in ignored \cup stuckTemps => q \in ignored' \cup stuckTemps'
    /\ \A d \in Sessions : owner[d] # None =>
          /\ owner'[d] = owner[d]
          /\ proc[owner[d]] # "running" =>
                \/ dir'[d] = "none" \/ d \in stuck'
                \/ dir'[d] = dir[d] /\ (dir[d] = "bare" /\ d \in old => d \in old')

LEMMA OwedFrame ==
    ASSUME TypeOK, Born, Abates, NEW p \in Procs, OwedBy(p), busy'[p] = busy[p], due'[p] = due[p]
    PROVE  OwedBy(p)'
<1> SUFFICES ASSUME Step(p)' \in {"judge", "swept"} PROVE OwedBy(p)'
  BY DEF OwedBy
<1>1. Step(p) = Step(p)' /\ Step(p) \in {"judge", "swept"} /\ Running(p)
  BY DEF Step, Running, Abates
<1>2. \A q \in due'[p].temps : proc'[q] \notin {"unborn", "running"}
  BY <1>1 DEF OwedBy, Abates, TypeOK, StateOK
<1>3. ASSUME NEW d \in due'[p].dirs
      PROVE  /\ owner'[d] # None /\ proc'[owner'[d]] # "running"
             /\ \/ dir'[d] = "none" \/ d \in stuck'
                \/ /\ Step(p)' = "judge"
                   /\ (d \in busy'[p].todo /\ ShouldRemove(p, d)') \/ d = busy'[p].doomed
  <2>1. d \in Sessions /\ d \in due[p].dirs
    BY DEF TypeOK, StateOK
  <2>2. /\ owner[d] # None /\ proc[owner[d]] # "running" /\ owner[d] \in Procs
        /\ \/ dir[d] = "none" \/ d \in stuck
           \/ /\ Step(p) = "judge"
              /\ (d \in busy[p].todo /\ ShouldRemove(p, d)) \/ d = busy[p].doomed
    BY <1>1, <2>1 DEF OwedBy, TypeOK, StateOK, Running
  <2>3. owner'[d] = owner[d] /\ proc'[owner[d]] # "running"
    BY <2>1, <2>2 DEF Abates
  <2>4. \/ dir'[d] = "none" \/ d \in stuck'
        \/ dir'[d] = dir[d] /\ (dir[d] = "bare" /\ d \in old => d \in old')
    BY <2>1, <2>2 DEF Abates
  <2>5. dir'[d] = dir[d] /\ (dir[d] = "bare" /\ d \in old => d \in old') /\ ShouldRemove(p, d)
          => ShouldRemove(p, d)'
    BY <2>3 DEF ShouldRemove, IsProcessAlive, Running, Abates
  <2>6. d \in stuck => d \in stuck'
    BY DEF Abates
  <2> QED
    BY <1>1, <2>2, <2>3, <2>4, <2>5, <2>6
<1>4. Step(p)' = "swept" => due'[p].temps \cap temps' \subseteq ignored' \cup stuckTemps'
  <2>1. \A q \in due[p].temps : q \in Procs /\ proc[q] # "running"
    BY <1>1 DEF OwedBy, TypeOK, StateOK
  <2>2. Step(p)' = "swept" => due[p].temps \cap temps \subseteq ignored \cup stuckTemps
    BY <1>1 DEF OwedBy
  <2> QED
    BY <2>1, <2>2 DEF Abates
<1> QED
  BY <1>2, <1>3, <1>4 DEF OwedBy, Running

Starts == \E p \in Procs, h \in Hosts, i \in Pids : Start(p, h, i)


\* A snapshot gets its storage, or fails and leaves what could not be cleaned up.
Stores(p) ==
    /\ Step(p) = "swept" /\ busy[p].task = "snapshot"
    /\ busy' = [busy EXCEPT ![p] = None]
    /\ due' = [due EXCEPT ![p] = NothingDue]
    /\ stored' \subseteq Sessions
    /\ revived \subseteq revived' /\ revived' \subseteq Sessions
    /\ files' \in [Sessions -> SUBSET Places]
    /\ leaked \subseteq leaked' /\ leaked' \subseteq Sessions
    /\ \A s \in emergencyCleanupCompleted :
          /\ s \in stored' => s \in stored \cup revived'
          /\ "tmpfs" \in files'[s] => "tmpfs" \in files[s] \/ s \in revived' \cup leaked'
    /\ UNCHANGED <<procVars, handlers, dirVars, tempVars, hooked, snapshots, flagVars>>

LEMMA StoreEffect ==
    ASSUME TypeOK, Flags, NEW p \in Procs, Store(p)
    PROVE  Stores(p)
<1> DEFINE s == busy[p].session
<1>1. busy[p] \in Jobs
  BY DEF Store, Step, TypeOK, StateOK, Jobs, Tasks
<1>2. s \in Sessions
  BY <1>1 DEF Jobs
<1> HIDE DEF s
<1>3. /\ files \in [Sessions -> SUBSET Places] /\ leaked \subseteq Sessions
      /\ stored \subseteq Sessions /\ revived \subseteq Sessions
      /\ emergencyCleanupCompleted \subseteq Sessions
  BY DEF TypeOK, StateOK, LeftoversOK, Places
<1>4. ASSUME NEW where \in Places, Placed(s, where)
      PROVE  /\ files' \in [Sessions -> SUBSET Places]
             /\ \A t \in Sessions : t # s => files'[t] = files[t]
  BY <1>2, <1>3, <1>4 DEF Placed
<1>5. CASE /\ stored' = stored \cup {s}
           /\ \E where \in Places : Placed(s, where)
           /\ revived' = IF s \in emergencyCleanupCompleted THEN revived \cup {s} ELSE revived
           /\ UNCHANGED leaked
  BY <1>2, <1>3, <1>4, <1>5 DEF Store, Stores, flagVars
<1>6. CASE UNCHANGED <<storageVars, revived>>
  BY <1>3, <1>6 DEF Store, Stores, storageVars
<1>7. CASE /\ Placed(s, "tmpfs") /\ leaked' = leaked \cup {s}
           /\ UNCHANGED <<stored, revived>>
  <2>1. "tmpfs" \in Places
    BY DEF Places
  <2> QED
    BY <1>2, <1>3, <1>4, <1>7, <2>1 DEF Store, Stores
<1> QED
  BY <1>5, <1>6, <1>7 DEF Store, s, Places

\* The storage of the last checkpoint of s is cleaned up.
StorageEnds(s) ==
    /\ Usable(s)
    /\ stored' \subseteq stored
    /\ files' \in [Sessions -> SUBSET Places]
    /\ leaked \subseteq leaked' /\ leaked' \subseteq Sessions
    /\ \A t \in Sessions : "tmpfs" \in files'[t] => "tmpfs" \in files[t]
    /\ UNCHANGED <<procVars, handlers, busy, dirVars, tempVars, hooked, snapshots, revived,
                   flagVars, due>>

LEMMA StorageEndEffect ==
    ASSUME TypeOK, NEW s \in Sessions, LastCheckpointEnds(s)
    PROVE  StorageEnds(s)
<1>1. {s} \in SUBSET Sessions /\ CleanStorage({s})
  BY DEF LastCheckpointEnds
<1> QED
  BY <1>1, StorageEffect DEF LastCheckpointEnds, StorageEnds

\* The steps, with their effects in place of the ends of workspaces and processes.
LEMMA Steps ==
    ASSUME TypeOK, Flags, Once, Born, [Next]_vars
    PROVE  \/ DayPasses
           \/ \E p \in Procs, h \in Hosts, i \in Pids : Start(p, h, i)
           \/ \E p \in Procs, s \in Sessions : Construct(p, s)
           \/ \E s \in Sessions : Snapshot(s)
           \/ \E p \in Procs, d \in Sessions : Judge(p, d)
           \/ \E p \in Procs : Remove(p)
           \/ \E p \in Procs : RemoveTemps(p)
           \/ \E p \in Procs : Stores(p)
           \/ \E p \in Procs : MakeDirectory(p)
           \/ \E p \in Procs : WriteLock(p)
           \/ \E p \in Procs : LockFails(p)
           \/ \E s \in Sessions : BeginRestore(s)
           \/ \E p \in Procs : EndRestore(p)
           \/ \E s \in Sessions : InstallFsInterceptor(s)
           \/ \E s \in Sessions : UninstallFsInterceptor(s)
           \/ \E s \in Sessions : StorageEnds(s)
           \/ \E s \in Sessions : Disposed(s)
           \/ \E p \in Procs : ProcessEnds(p)
           \/ \E p \in Procs : ProcessSurvives(p)
           \/ UNCHANGED vars
BY EndEffect, DisposeEffect, StoreEffect, StorageEndEffect DEF Next
-----------------------------------------------------------------------------
(* Each part of the invariant is kept by every step. *)

\* What processes are at, and what they use, keeps its type.
LEMMA StateStep ==
    ASSUME TypeOK, Flags, Once, Born, Working, [Next]_vars
    PROVE  StateOK'
<1> USE DEF TypeOK, StateOK, procVars, dirVars, tempVars, storageVars, useVars, flagVars,
   Running, Idle, Step, Flags, Once, Born, Working, NothingDue, Of
<1>1. ASSUME DayPasses
      PROVE  StateOK'
  BY <1>1, NoneAssumption DEF DayPasses
<1>2. ASSUME NEW p \in Procs, NEW h \in Hosts, NEW i \in Pids, Start(p, h, i)
      PROVE  StateOK'
  <2>1. place' \in [Procs -> {None} \cup [host : Hosts, pid : Pids]]
    BY <1>2, NoneAssumption DEF Start
  <2>2. due' \in [Procs -> [dirs : SUBSET Sessions, temps : SUBSET Procs]]
    <3>1. ASSUME NEW q \in Procs
          PROVE  [due[q] EXCEPT !.dirs = {e \in @ : place[owner[e]].pid # i}]
                   \in [dirs : SUBSET Sessions, temps : SUBSET Procs]
      <4>1. due[q] \in [dirs : SUBSET Sessions, temps : SUBSET Procs]
        OBVIOUS
      <4> QED
        BY <4>1
    <3> QED
      BY <1>2, <3>1 DEF Start
  <2> QED
    BY <1>2, NoneAssumption, <2>1, <2>2 DEF Start, Jobs, Tasks
<1>3. ASSUME NEW p \in Procs, NEW s \in Sessions, Construct(p, s)
      PROVE  StateOK'
  BY <1>3, NoneAssumption DEF Construct, Collect, Abandoned
<1>4. ASSUME NEW s \in Sessions, Snapshot(s)
      PROVE  StateOK'
  <2> DEFINE r == [task |-> "snapshot", session |-> s, step |-> "judge",
                   todo |-> {d \in Sessions : dir[d] # "none"}, doomed |-> None]
  <2>1. r \in Jobs
    BY DEF Jobs, Tasks
  <2>2. busy' = [busy EXCEPT ![owner[s]] = r]
    BY <1>4 DEF Snapshot, Collect
  <2> HIDE DEF r
  <2>3. busy' \in [Procs -> {None} \cup Jobs]
    BY <2>1, <2>2 DEF Jobs, Tasks
  <2>4. Abandoned(owner[s]) \in [dirs : SUBSET Sessions, temps : SUBSET Procs]
    BY DEF Abandoned
  <2>5. due' \in [Procs -> [dirs : SUBSET Sessions, temps : SUBSET Procs]]
    BY <1>4, <2>4 DEF Snapshot, Collect
  <2> QED
    BY <1>4, <2>3, <2>5, MaxSnapshotsAssumption DEF Snapshot, Jobs, Tasks
<1>5. ASSUME NEW p \in Procs, NEW d \in Sessions, Judge(p, d)
      PROVE  StateOK'
  <2> DEFINE r == [busy[p] EXCEPT !.todo = @ \ {d}, !.doomed = IF ShouldRemove(p, d) THEN d ELSE None]
  <2>1. busy[p] \in Jobs
    BY <1>5 DEF Judge, Jobs, Tasks
  <2>2. r \in Jobs
    BY <1>5, <2>1 DEF Judge, Jobs, Tasks
  <2>3. busy' = [busy EXCEPT ![p] = r]
    BY <1>5 DEF Judge
  <2> HIDE DEF r
  <2>4. busy' \in [Procs -> {None} \cup Jobs]
    BY <2>2, <2>3 DEF Jobs, Tasks
  <2> QED
    BY <1>5, <2>4, NoneAssumption DEF Judge, Jobs, Tasks
<1>6. ASSUME NEW p \in Procs, Remove(p)
      PROVE  StateOK'
  <2> DEFINE r == [busy[p] EXCEPT !.doomed = None]
  <2>1. busy[p] \in Jobs
    BY <1>6 DEF Remove, Jobs, Tasks
  <2>2. r \in Jobs
    BY <1>6, <2>1 DEF Remove, Jobs, Tasks
  <2>3. busy' = [busy EXCEPT ![p] = r]
    BY <1>6 DEF Remove
  <2> HIDE DEF r
  <2>4. busy' \in [Procs -> {None} \cup Jobs]
    BY <2>2, <2>3 DEF Jobs, Tasks
  <2>5. busy[p].doomed \in Sessions
    BY <1>6, <2>1 DEF Remove, Jobs
  <2>6. dir' \in [Sessions -> {"none", "bare", "locked"}]
        /\ stuck' \subseteq Sessions /\ foreign' \subseteq Sessions /\ old' \subseteq Sessions
    BY <1>6, <2>5 DEF Remove
  <2>7. UNCHANGED <<procVars, handlers, late, tempVars, useVars, flagVars, due>>
    BY <1>6 DEF Remove
  <2> QED
    BY <2>4, <2>6, <2>7, NoneAssumption DEF Jobs, Tasks
<1>7. ASSUME NEW p \in Procs, RemoveTemps(p)
      PROVE  StateOK'
  <2> DEFINE r == [busy[p] EXCEPT !.step = "swept"]
  <2>1. busy[p] \in Jobs
    BY <1>7 DEF RemoveTemps, Jobs, Tasks
  <2>2. r \in Jobs
    BY <1>7, <2>1 DEF RemoveTemps, Jobs, Tasks
  <2>3. busy' = [busy EXCEPT ![p] = r]
    BY <1>7 DEF RemoveTemps
  <2> HIDE DEF r
  <2>4. busy' \in [Procs -> {None} \cup Jobs]
    BY <2>2, <2>3 DEF Jobs, Tasks
  <2>5. temps' \subseteq temps /\ ignored' \subseteq temps' /\ stuckTemps' \subseteq temps'
        /\ UNCHANGED <<procVars, handlers, dirVars, useVars, flagVars, due>>
    BY <1>7 DEF RemoveTemps
  <2> QED
    BY <2>4, <2>5, NoneAssumption DEF Jobs, Tasks
<1>8. ASSUME NEW p \in Procs, Stores(p)
      PROVE  StateOK'
  BY <1>8, NoneAssumption DEF Stores
<1>9. ASSUME NEW p \in Procs, MakeDirectory(p)
      PROVE  StateOK'
  <2> DEFINE r == [busy[p] EXCEPT !.step = "made"]
  <2>1. busy[p] \in Jobs
    BY <1>9 DEF MakeDirectory, Jobs, Tasks
  <2>2. r \in Jobs
    BY <1>9, <2>1 DEF MakeDirectory, Jobs, Tasks
  <2>3. busy' = [busy EXCEPT ![p] = r]
    BY <1>9 DEF MakeDirectory
  <2> HIDE DEF r
  <2>4. busy' \in [Procs -> {None} \cup Jobs]
    BY <2>2, <2>3 DEF Jobs, Tasks
  <2>5. dir' \in [Sessions -> {"none", "bare", "locked"}]
    BY <1>9, <2>1 DEF MakeDirectory, Jobs, Tasks
  <2>6. due' \in [Procs -> [dirs : SUBSET Sessions, temps : SUBSET Procs]]
    BY <1>9 DEF MakeDirectory
  <2>7. old' \subseteq old
        /\ UNCHANGED <<procVars, handlers, foreign, late, stuck, tempVars, useVars, flagVars>>
    BY <1>9 DEF MakeDirectory
  <2> QED
    BY <2>4, <2>5, <2>6, <2>7, NoneAssumption DEF Jobs, Tasks
<1>10. ASSUME NEW p \in Procs, WriteLock(p)
       PROVE  StateOK'
  <2> DEFINE t == busy[p].session
  <2>1. busy[p] \in Jobs /\ t \in Sessions /\ owner[t] = p /\ t \notin built
    BY <1>10 DEF WriteLock, Jobs, Tasks
  <2>2. Append(handlers[p], t) \in Seq(Sessions)
        /\ Range(Append(handlers[p], t)) = Range(handlers[p]) \cup {t}
    BY <2>1, RangeAppend
  <2>3. handlers' = [handlers EXCEPT ![p] = Append(handlers[p], t)]
    BY <1>10 DEF WriteLock
  <2> HIDE DEF t
  <2>4. built' = built \cup {t} /\ dir' = [dir EXCEPT ![t] = "locked"] /\ old' = old \ {t}
    BY <1>10 DEF WriteLock, t
  <2>5. handlers' \in [Procs -> Seq(Sessions)]
    BY <2>2, <2>3
  <2>6. \A q \in Procs : Range(handlers'[q]) \subseteq (built' \cap Of(q)') \ disposed'
    <3>1. ASSUME NEW q \in Procs, q # p PROVE handlers'[q] = handlers[q]
      BY <2>3, <3>1
    <3>2. Range(handlers'[p]) = Range(handlers[p]) \cup {t}
      BY <2>2, <2>3
    <3>3. UNCHANGED <<owner, disposed>>
      BY <1>10 DEF WriteLock
    <3>4. t \notin disposed
      BY <2>1
    <3>5. built' = built \cup {t} /\ \A q \in Procs : Of(q)' = Of(q)
      BY <2>4, <3>3
    <3>6. Range(handlers'[p]) \subseteq (built' \cap Of(p)') \ disposed'
      BY <2>1, <3>2, <3>3, <3>4, <3>5
    <3>7. ASSUME NEW q \in Procs, q # p
          PROVE  Range(handlers'[q]) \subseteq (built' \cap Of(q)') \ disposed'
      BY <3>1, <3>3, <3>5, <3>7
    <3> QED
      BY <3>6, <3>7
  <2>7. busy' \in [Procs -> {None} \cup Jobs]
    BY <1>10 DEF WriteLock, Jobs, Tasks
  <2> QED
    BY <1>10, <2>1, <2>4, <2>5, <2>6, <2>7 DEF WriteLock, Jobs, Tasks
<1>11. ASSUME NEW p \in Procs, LockFails(p)
       PROVE  StateOK'
  BY <1>11, NoneAssumption DEF LockFails
<1>12. ASSUME NEW s \in Sessions, BeginRestore(s)
       PROVE  StateOK'
  BY <1>12, NoneAssumption DEF BeginRestore, Usable
<1>13. ASSUME NEW p \in Procs, EndRestore(p)
       PROVE  StateOK'
  BY <1>13, NoneAssumption DEF EndRestore
<1>14. ASSUME NEW s \in Sessions, InstallFsInterceptor(s)
       PROVE  StateOK'
  BY <1>14, NoneAssumption DEF InstallFsInterceptor, Usable
<1>15. ASSUME NEW s \in Sessions, UninstallFsInterceptor(s)
       PROVE  StateOK'
  BY <1>15, NoneAssumption DEF UninstallFsInterceptor
<1>16. ASSUME NEW s \in Sessions, StorageEnds(s)
       PROVE  StateOK'
  BY <1>16, NoneAssumption DEF StorageEnds, Usable
<1>17. ASSUME NEW s \in Sessions, Disposed(s)
       PROVE  StateOK'
  BY <1>17, NoneAssumption DEF Disposed, Cleans, Usable
<1>18. ASSUME NEW p \in Procs, ProcessEnds(p)
       PROVE  StateOK'
  <2>1. Range(<<>>) = {}
    BY DEF Range
  <2>2. handlers' = [handlers EXCEPT ![p] = <<>>] /\ UNCHANGED <<built, disposed, owner>>
    BY <1>18 DEF ProcessEnds, Cleans, Ends
  <2>3. handlers' \in [Procs -> Seq(Sessions)]
        /\ \A q \in Procs : Range(handlers'[q]) \subseteq (built' \cap Of(q)') \ disposed'
    BY <2>1, <2>2
  <2>4. proc' \in [Procs -> {"unborn", "running", "exited", "signalled", "crashed", "killed"}]
    BY <1>18 DEF ProcessEnds, Ends
  <2>5. busy' \in [Procs -> {None} \cup Jobs]
    BY <1>18 DEF ProcessEnds, Ends, Jobs, Tasks
  <2>6. due' \in [Procs -> [dirs : SUBSET Sessions, temps : SUBSET Procs]]
    BY <1>18 DEF ProcessEnds, Ends
  <2>7. emergencyCleanupCompleted' \subseteq Sessions
    BY <1>18 DEF ProcessEnds, Cleans
  <2> QED
    BY <1>18, <2>2, <2>3, <2>4, <2>5, <2>6, <2>7 DEF ProcessEnds, Cleans, Ends, Jobs, Tasks
<1>19. ASSUME NEW p \in Procs, ProcessSurvives(p)
       PROVE  StateOK'
  <2>1. Range(<<>>) = {}
    BY DEF Range
  <2>2. handlers' = [handlers EXCEPT ![p] = <<>>] /\ UNCHANGED <<built, disposed, owner>>
    BY <1>19 DEF ProcessSurvives, Cleans, Survives
  <2>3. handlers' \in [Procs -> Seq(Sessions)]
        /\ \A q \in Procs : Range(handlers'[q]) \subseteq (built' \cap Of(q)') \ disposed'
    BY <2>1, <2>2
  <2> QED
    BY <1>19, <2>2, <2>3 DEF ProcessSurvives, Cleans, Survives
<1>20. CASE UNCHANGED vars
  BY <1>20 DEF vars
<1> HIDE DEF TypeOK, StateOK, procVars, dirVars, tempVars, storageVars, useVars, flagVars,
   Running, Idle, Step, Flags, Once, Born, Working, NothingDue, Of
<1> QED
  BY <1>1, <1>2, <1>3, <1>4, <1>5, <1>6, <1>7, <1>8, <1>9, <1>10, <1>11, <1>12, <1>13,
     <1>14, <1>15, <1>16, <1>17, <1>18, <1>19, <1>20, Steps

\* What is left behind keeps its type.
LEMMA LeftoversStep ==
    ASSUME TypeOK, Flags, Once, Born, [Next]_vars
    PROVE  LeftoversOK'
<1> USE DEF TypeOK, LeftoversOK, tempVars, storageVars, useVars
<1>1. CASE UNCHANGED <<tempVars, storageVars>>
  BY <1>1
<1>2. ASSUME NEW p \in Procs, RemoveTemps(p) PROVE LeftoversOK'
  BY <1>2 DEF RemoveTemps
<1>3. ASSUME NEW p \in Procs, Stores(p) PROVE LeftoversOK'
  BY <1>3 DEF Stores, Places
<1>4. ASSUME NEW s \in Sessions, BeginRestore(s) PROVE LeftoversOK'
  BY <1>4 DEF BeginRestore
<1>5. ASSUME NEW p \in Procs, EndRestore(p) PROVE LeftoversOK'
  BY <1>5 DEF EndRestore
<1>6. ASSUME NEW s \in Sessions, StorageEnds(s) PROVE LeftoversOK'
  BY <1>6 DEF StorageEnds, Places
<1>7. ASSUME NEW S \in SUBSET Sessions, Cleans(S), UNCHANGED tempVars PROVE LeftoversOK'
  BY <1>7 DEF Cleans, Places
<1>8. ASSUME NEW s \in Sessions, Disposed(s) PROVE LeftoversOK'
  BY <1>7, <1>8 DEF Disposed
<1>9. ASSUME NEW p \in Procs, ProcessEnds(p) \/ ProcessSurvives(p) PROVE LeftoversOK'
  <2>1. Range(handlers[p]) \in SUBSET Sessions
    BY DEF StateOK, Of
  <2>2. UNCHANGED tempVars /\ \E S \in SUBSET Range(handlers[p]) : Cleans(S)
    BY <1>9 DEF ProcessEnds, ProcessSurvives, Ends, Survives
  <2> QED
    BY <1>7, <2>1, <2>2
<1> QED
  <2>1. CASE \/ DayPasses
             \/ \E p \in Procs, h \in Hosts, i \in Pids : Start(p, h, i)
             \/ \E p \in Procs, s \in Sessions : Construct(p, s) \/ Judge(p, s)
             \/ \E s \in Sessions : \/ Snapshot(s) \/ InstallFsInterceptor(s)
                                    \/ UninstallFsInterceptor(s)
    BY <1>1, <2>1 DEF DayPasses, Start, Construct, Judge, Snapshot, InstallFsInterceptor,
       UninstallFsInterceptor
  <2>2. CASE \E p \in Procs : Remove(p) \/ MakeDirectory(p) \/ WriteLock(p) \/ LockFails(p)
    BY <1>1, <2>2 DEF Remove, MakeDirectory, WriteLock, LockFails
  <2>3. CASE UNCHANGED vars
    BY <1>1, <2>3 DEF vars
  <2> QED
    BY <1>2, <1>3, <1>4, <1>5, <1>6, <1>8, <1>9, <2>1, <2>2, <2>3, Steps

\* Every variable keeps its type.
LEMMA TypeStep ==
    ASSUME TypeOK, Flags, Once, Born, Working, [Next]_vars
    PROVE  TypeOK'
BY StateStep, LeftoversStep DEF TypeOK

\* Nothing belongs to a process that has not started.
LEMMA BornStep ==
    ASSUME TypeOK, Flags, Once, Born, Working, [Next]_vars
    PROVE  Born'
<1> USE DEF TypeOK, StateOK, procVars, dirVars, tempVars, storageVars, useVars, flagVars,
   Running, Idle, Step, Flags, Once, Born, Working
<1>1. ASSUME DayPasses
      PROVE  Born'
  BY <1>1, NoneAssumption DEF DayPasses
<1>2. ASSUME NEW p \in Procs, NEW h \in Hosts, NEW i \in Pids, Start(p, h, i)
      PROVE  Born'
  BY <1>2, NoneAssumption DEF Start
<1>3. ASSUME NEW p \in Procs, NEW s \in Sessions, Construct(p, s)
      PROVE  Born'
  BY <1>3, NoneAssumption DEF Construct, Collect, Abandoned
<1>4. ASSUME NEW s \in Sessions, Snapshot(s)
      PROVE  Born'
  BY <1>4, NoneAssumption DEF Snapshot, Collect, Abandoned, Usable
<1>5. ASSUME NEW p \in Procs, NEW d \in Sessions, Judge(p, d)
      PROVE  Born'
  BY <1>5, NoneAssumption DEF Judge
<1>6. ASSUME NEW p \in Procs, Remove(p)
      PROVE  Born'
  BY <1>6, NoneAssumption DEF Remove
<1>7. ASSUME NEW p \in Procs, RemoveTemps(p)
      PROVE  Born'
  BY <1>7, NoneAssumption DEF RemoveTemps
<1>8. ASSUME NEW p \in Procs, Stores(p)
      PROVE  Born'
  BY <1>8, NoneAssumption DEF Stores
<1>9. ASSUME NEW p \in Procs, MakeDirectory(p)
      PROVE  Born'
  BY <1>9, NoneAssumption DEF MakeDirectory
<1>10. ASSUME NEW p \in Procs, WriteLock(p)
       PROVE  Born'
  BY <1>10, NoneAssumption DEF WriteLock
<1>11. ASSUME NEW p \in Procs, LockFails(p)
       PROVE  Born'
  BY <1>11, NoneAssumption DEF LockFails
<1>12. ASSUME NEW s \in Sessions, BeginRestore(s)
       PROVE  Born'
  BY <1>12, NoneAssumption DEF BeginRestore, Usable
<1>13. ASSUME NEW p \in Procs, EndRestore(p)
       PROVE  Born'
  BY <1>13, NoneAssumption DEF EndRestore
<1>14. ASSUME NEW s \in Sessions, InstallFsInterceptor(s)
       PROVE  Born'
  BY <1>14, NoneAssumption DEF InstallFsInterceptor, Usable
<1>15. ASSUME NEW s \in Sessions, UninstallFsInterceptor(s)
       PROVE  Born'
  BY <1>15, NoneAssumption DEF UninstallFsInterceptor
<1>16. ASSUME NEW s \in Sessions, StorageEnds(s)
       PROVE  Born'
  BY <1>16, NoneAssumption DEF StorageEnds, Usable
<1>17. ASSUME NEW s \in Sessions, Disposed(s)
       PROVE  Born'
  BY <1>17, NoneAssumption DEF Disposed, Cleans, Usable
<1>18. ASSUME NEW p \in Procs, ProcessEnds(p)
       PROVE  Born'
  BY <1>18, NoneAssumption DEF ProcessEnds, Cleans, Ends
<1>19. ASSUME NEW p \in Procs, ProcessSurvives(p)
       PROVE  Born'
  BY <1>19, NoneAssumption DEF ProcessSurvives, Cleans, Survives
<1>20. CASE UNCHANGED vars
  BY <1>20 DEF vars
<1> HIDE DEF TypeOK, StateOK, procVars, dirVars, tempVars, storageVars, useVars, flagVars,
   Running, Idle, Step, Flags, Once, Born, Working
<1> QED
  BY <1>1, <1>2, <1>3, <1>4, <1>5, <1>6, <1>7, <1>8, <1>9, <1>10, <1>11, <1>12, <1>13,
     <1>14, <1>15, <1>16, <1>17, <1>18, <1>19, <1>20, Steps

\* A process works on one session of its own.
LEMMA WorkingStep ==
    ASSUME TypeOK, Flags, Once, Born, Working, [Next]_vars
    PROVE  Working'
<1> USE DEF TypeOK, StateOK, procVars, dirVars, tempVars, storageVars, useVars, flagVars,
   Running, Idle, Step, Flags, Once, Born, Working
<1>1. ASSUME DayPasses
      PROVE  Working'
  BY <1>1, NoneAssumption DEF DayPasses
<1>2. ASSUME NEW p \in Procs, NEW h \in Hosts, NEW i \in Pids, Start(p, h, i)
      PROVE  Working'
  BY <1>2, NoneAssumption DEF Start
<1>3. ASSUME NEW p \in Procs, NEW s \in Sessions, Construct(p, s)
      PROVE  Working'
  BY <1>3, NoneAssumption DEF Construct, Collect, Abandoned
<1>4. ASSUME NEW s \in Sessions, Snapshot(s)
      PROVE  Working'
  BY <1>4, NoneAssumption DEF Snapshot, Collect, Abandoned, Usable
<1>5. ASSUME NEW p \in Procs, NEW d \in Sessions, Judge(p, d)
      PROVE  Working'
  BY <1>5, NoneAssumption DEF Judge
<1>6. ASSUME NEW p \in Procs, Remove(p)
      PROVE  Working'
  BY <1>6, NoneAssumption DEF Remove
<1>7. ASSUME NEW p \in Procs, RemoveTemps(p)
      PROVE  Working'
  BY <1>7, NoneAssumption DEF RemoveTemps
<1>8. ASSUME NEW p \in Procs, Stores(p)
      PROVE  Working'
  BY <1>8, NoneAssumption DEF Stores
<1>9. ASSUME NEW p \in Procs, MakeDirectory(p)
      PROVE  Working'
  BY <1>9, NoneAssumption DEF MakeDirectory
<1>10. ASSUME NEW p \in Procs, WriteLock(p)
       PROVE  Working'
  BY <1>10, NoneAssumption DEF WriteLock
<1>11. ASSUME NEW p \in Procs, LockFails(p)
       PROVE  Working'
  BY <1>11, NoneAssumption DEF LockFails
<1>12. ASSUME NEW s \in Sessions, BeginRestore(s)
       PROVE  Working'
  BY <1>12, NoneAssumption DEF BeginRestore, Usable
<1>13. ASSUME NEW p \in Procs, EndRestore(p)
       PROVE  Working'
  BY <1>13, NoneAssumption DEF EndRestore
<1>14. ASSUME NEW s \in Sessions, InstallFsInterceptor(s)
       PROVE  Working'
  BY <1>14, NoneAssumption DEF InstallFsInterceptor, Usable
<1>15. ASSUME NEW s \in Sessions, UninstallFsInterceptor(s)
       PROVE  Working'
  BY <1>15, NoneAssumption DEF UninstallFsInterceptor
<1>16. ASSUME NEW s \in Sessions, StorageEnds(s)
       PROVE  Working'
  BY <1>16, NoneAssumption DEF StorageEnds, Usable
<1>17. ASSUME NEW s \in Sessions, Disposed(s)
       PROVE  Working'
  BY <1>17, NoneAssumption DEF Disposed, Cleans, Usable
<1>18. ASSUME NEW p \in Procs, ProcessEnds(p)
       PROVE  Working'
  BY <1>18, NoneAssumption DEF ProcessEnds, Cleans, Ends
<1>19. ASSUME NEW p \in Procs, ProcessSurvives(p)
       PROVE  Working'
  BY <1>19, NoneAssumption DEF ProcessSurvives, Cleans, Survives
<1>20. CASE UNCHANGED vars
  BY <1>20 DEF vars
<1> HIDE DEF TypeOK, StateOK, procVars, dirVars, tempVars, storageVars, useVars, flagVars,
   Running, Idle, Step, Flags, Once, Born, Working
<1> QED
  BY <1>1, <1>2, <1>3, <1>4, <1>5, <1>6, <1>7, <1>8, <1>9, <1>10, <1>11, <1>12, <1>13,
     <1>14, <1>15, <1>16, <1>17, <1>18, <1>19, <1>20, Steps

\* The flags are set by emergency cleanup only.
LEMMA FlagsStep ==
    ASSUME TypeOK, Flags, Once, Born, Working, [Next]_vars
    PROVE  Flags'
<1> USE DEF TypeOK, StateOK, procVars, dirVars, tempVars, storageVars, useVars, flagVars,
   Running, Idle, Step, Flags, Once, Born, Working
<1>1. ASSUME DayPasses
      PROVE  Flags'
  BY <1>1, NoneAssumption DEF DayPasses
<1>2. ASSUME NEW p \in Procs, NEW h \in Hosts, NEW i \in Pids, Start(p, h, i)
      PROVE  Flags'
  BY <1>2, NoneAssumption DEF Start
<1>3. ASSUME NEW p \in Procs, NEW s \in Sessions, Construct(p, s)
      PROVE  Flags'
  BY <1>3, NoneAssumption DEF Construct, Collect, Abandoned
<1>4. ASSUME NEW s \in Sessions, Snapshot(s)
      PROVE  Flags'
  BY <1>4, NoneAssumption DEF Snapshot, Collect, Abandoned, Usable
<1>5. ASSUME NEW p \in Procs, NEW d \in Sessions, Judge(p, d)
      PROVE  Flags'
  BY <1>5, NoneAssumption DEF Judge
<1>6. ASSUME NEW p \in Procs, Remove(p)
      PROVE  Flags'
  BY <1>6, NoneAssumption DEF Remove
<1>7. ASSUME NEW p \in Procs, RemoveTemps(p)
      PROVE  Flags'
  BY <1>7, NoneAssumption DEF RemoveTemps
<1>8. ASSUME NEW p \in Procs, Stores(p)
      PROVE  Flags'
  BY <1>8, NoneAssumption DEF Stores
<1>9. ASSUME NEW p \in Procs, MakeDirectory(p)
      PROVE  Flags'
  BY <1>9, NoneAssumption DEF MakeDirectory
<1>10. ASSUME NEW p \in Procs, WriteLock(p)
       PROVE  Flags'
  BY <1>10, NoneAssumption DEF WriteLock
<1>11. ASSUME NEW p \in Procs, LockFails(p)
       PROVE  Flags'
  BY <1>11, NoneAssumption DEF LockFails
<1>12. ASSUME NEW s \in Sessions, BeginRestore(s)
       PROVE  Flags'
  BY <1>12, NoneAssumption DEF BeginRestore, Usable
<1>13. ASSUME NEW p \in Procs, EndRestore(p)
       PROVE  Flags'
  BY <1>13, NoneAssumption DEF EndRestore
<1>14. ASSUME NEW s \in Sessions, InstallFsInterceptor(s)
       PROVE  Flags'
  BY <1>14, NoneAssumption DEF InstallFsInterceptor, Usable
<1>15. ASSUME NEW s \in Sessions, UninstallFsInterceptor(s)
       PROVE  Flags'
  BY <1>15, NoneAssumption DEF UninstallFsInterceptor
<1>16. ASSUME NEW s \in Sessions, StorageEnds(s)
       PROVE  Flags'
  BY <1>16, NoneAssumption DEF StorageEnds, Usable
<1>17. ASSUME NEW s \in Sessions, Disposed(s)
       PROVE  Flags'
  BY <1>17, NoneAssumption DEF Disposed, Cleans, Usable
<1>18. ASSUME NEW p \in Procs, ProcessEnds(p)
       PROVE  Flags'
  BY <1>18, NoneAssumption DEF ProcessEnds, Cleans, Ends
<1>19. ASSUME NEW p \in Procs, ProcessSurvives(p)
       PROVE  Flags'
  BY <1>19, NoneAssumption DEF ProcessSurvives, Cleans, Survives
<1>20. CASE UNCHANGED vars
  BY <1>20 DEF vars
<1> HIDE DEF TypeOK, StateOK, procVars, dirVars, tempVars, storageVars, useVars, flagVars,
   Running, Idle, Step, Flags, Once, Born, Working
<1> QED
  BY <1>1, <1>2, <1>3, <1>4, <1>5, <1>6, <1>7, <1>8, <1>9, <1>10, <1>11, <1>12, <1>13,
     <1>14, <1>15, <1>16, <1>17, <1>18, <1>19, <1>20, Steps

\* A workspace starts to listen when it is built.
LEMMA OnceStep ==
    ASSUME TypeOK, Flags, Once, Born, Working, [Next]_vars
    PROVE  Once'
<1> USE DEF TypeOK, StateOK, procVars, dirVars, tempVars, storageVars, useVars, flagVars,
   Running, Idle, Step, Flags, Once, Born, Working, Of
<1>1. ASSUME DayPasses
      PROVE  Once'
  BY <1>1, NoneAssumption DEF DayPasses
<1>2. ASSUME NEW p \in Procs, NEW h \in Hosts, NEW i \in Pids, Start(p, h, i)
      PROVE  Once'
  BY <1>2, NoneAssumption DEF Start
<1>3. ASSUME NEW p \in Procs, NEW s \in Sessions, Construct(p, s)
      PROVE  Once'
  BY <1>3, NoneAssumption DEF Construct, Collect, Abandoned
<1>4. ASSUME NEW s \in Sessions, Snapshot(s)
      PROVE  Once'
  BY <1>4, NoneAssumption DEF Snapshot, Collect, Abandoned, Usable
<1>5. ASSUME NEW p \in Procs, NEW d \in Sessions, Judge(p, d)
      PROVE  Once'
  BY <1>5, NoneAssumption DEF Judge
<1>6. ASSUME NEW p \in Procs, Remove(p)
      PROVE  Once'
  BY <1>6, NoneAssumption DEF Remove
<1>7. ASSUME NEW p \in Procs, RemoveTemps(p)
      PROVE  Once'
  BY <1>7, NoneAssumption DEF RemoveTemps
<1>8. ASSUME NEW p \in Procs, Stores(p)
      PROVE  Once'
  BY <1>8, NoneAssumption DEF Stores
<1>9. ASSUME NEW p \in Procs, MakeDirectory(p)
      PROVE  Once'
  BY <1>9, NoneAssumption DEF MakeDirectory
<1>10. ASSUME NEW p \in Procs, WriteLock(p)
       PROVE  Once'
  <2> DEFINE t == busy[p].session
  <2>1. t \in Sessions /\ handlers[p] \in Seq(Sessions) /\ t \notin Range(handlers[p])
    BY <1>10 DEF WriteLock
  <2>2. Distinct(Append(handlers[p], t))
    BY <2>1, RangeAppend
  <2>3. handlers' = [handlers EXCEPT ![p] = Append(handlers[p], t)]
    BY <1>10 DEF WriteLock
  <2> HIDE DEF t
  <2> QED
    BY <2>2, <2>3
<1>11. ASSUME NEW p \in Procs, LockFails(p)
       PROVE  Once'
  BY <1>11, NoneAssumption DEF LockFails
<1>12. ASSUME NEW s \in Sessions, BeginRestore(s)
       PROVE  Once'
  BY <1>12, NoneAssumption DEF BeginRestore, Usable
<1>13. ASSUME NEW p \in Procs, EndRestore(p)
       PROVE  Once'
  BY <1>13, NoneAssumption DEF EndRestore
<1>14. ASSUME NEW s \in Sessions, InstallFsInterceptor(s)
       PROVE  Once'
  BY <1>14, NoneAssumption DEF InstallFsInterceptor, Usable
<1>15. ASSUME NEW s \in Sessions, UninstallFsInterceptor(s)
       PROVE  Once'
  BY <1>15, NoneAssumption DEF UninstallFsInterceptor
<1>16. ASSUME NEW s \in Sessions, StorageEnds(s)
       PROVE  Once'
  BY <1>16, NoneAssumption DEF StorageEnds, Usable
<1>17. ASSUME NEW s \in Sessions, Disposed(s)
       PROVE  Once'
  BY <1>17 DEF Disposed
<1>18. ASSUME NEW p \in Procs, ProcessEnds(p)
       PROVE  Once'
  <2>1. Distinct(<<>>)
    BY DEF Distinct
  <2> QED
    BY <1>18, <2>1 DEF ProcessEnds, Ends
<1>19. ASSUME NEW p \in Procs, ProcessSurvives(p)
       PROVE  Once'
  <2>1. Distinct(<<>>)
    BY DEF Distinct
  <2> QED
    BY <1>19, <2>1 DEF ProcessSurvives, Survives
<1>20. CASE UNCHANGED vars
  BY <1>20 DEF vars
<1> HIDE DEF TypeOK, StateOK, procVars, dirVars, tempVars, storageVars, useVars, flagVars,
   Running, Idle, Step, Flags, Once, Born, Working, Of
<1> QED
  BY <1>1, <1>2, <1>3, <1>4, <1>5, <1>6, <1>7, <1>8, <1>9, <1>10, <1>11, <1>12, <1>13,
     <1>14, <1>15, <1>16, <1>17, <1>18, <1>19, <1>20, Steps

\* What a collection has doomed stays dead, abroad or late.
LEMMA DoomedStep ==
    ASSUME TypeOK, Flags, Once, Born, Working, Doomed, [Next]_vars
    PROVE  Doomed'
<1> USE DEF TypeOK, StateOK, procVars, dirVars, tempVars, storageVars, useVars, flagVars,
   Running, Idle, Step, Flags, Once, Born, Working, Doomed
<1>1. ASSUME DayPasses
      PROVE  Doomed'
  BY <1>1, NoneAssumption DEF DayPasses
<1>2. ASSUME NEW p \in Procs, NEW h \in Hosts, NEW i \in Pids, Start(p, h, i)
      PROVE  Doomed'
  BY <1>2, NoneAssumption DEF Start
<1>3. ASSUME NEW p \in Procs, NEW s \in Sessions, Construct(p, s)
      PROVE  Doomed'
  <2>1. \A q \in Procs : q # p => busy'[q] = busy[q]
    BY <1>3 DEF Construct, Collect
  <2>2. ~(Step(p)' = "judge" /\ busy'[p].doomed # None)
    BY <1>3 DEF Construct, Collect
  <2>3. \A q \in Procs : Running(q)' => Running(q)
    BY <1>3 DEF Construct, Collect
  <2>4. /\ late' = late /\ old' \subseteq old /\ place' = place
        /\ \A e \in Sessions : owner[e] # None => owner'[e] = owner[e]
    BY <1>3 DEF Construct, Collect
  <2>5. DoomsNothing(p)
    BY <2>1, <2>2, <2>3, <2>4 DEF DoomsNothing
  <2> QED
    BY <2>5, DoomedFrame
<1>4. ASSUME NEW s \in Sessions, Snapshot(s)
      PROVE  Doomed'
  <2>0. PICK p \in Procs : p = owner[s]
    BY <1>4 DEF Snapshot, Collect, Usable
  <2>1. \A q \in Procs : q # p => busy'[q] = busy[q]
    BY <1>4, <2>0 DEF Snapshot, Collect, Usable
  <2>2. ~(Step(p)' = "judge" /\ busy'[p].doomed # None)
    BY <1>4, <2>0 DEF Snapshot, Collect, Usable
  <2>3. \A q \in Procs : Running(q)' => Running(q)
    BY <1>4, <2>0 DEF Snapshot, Collect, Usable
  <2>4. /\ late' = late /\ old' \subseteq old /\ place' = place
        /\ \A e \in Sessions : owner[e] # None => owner'[e] = owner[e]
    BY <1>4, <2>0 DEF Snapshot, Collect, Usable
  <2>5. DoomsNothing(p)
    BY <2>1, <2>2, <2>3, <2>4 DEF DoomsNothing
  <2> QED
    BY <2>5, DoomedFrame
<1>5. ASSUME NEW p \in Procs, NEW d \in Sessions, Judge(p, d)
      PROVE  Doomed'
  <2>1. \A q \in Procs : q # p => busy'[q] = busy[q]
    BY <1>5 DEF Judge
  <2>2. busy'[p].doomed \in {d, None} /\ (busy'[p].doomed # None => ShouldRemove(p, d))
    <3>1. busy[p] \in Jobs
      BY <1>5 DEF Judge, Jobs, Tasks
    <3>2. busy'[p] = [busy[p] EXCEPT !.todo = @ \ {d},
                                     !.doomed = IF ShouldRemove(p, d) THEN d ELSE None]
      BY <1>5 DEF Judge
    <3> QED
      BY <3>1, <3>2 DEF Jobs
  <2>3. d \in Sessions /\ d # None
    BY NoneAssumption
  <2>4. ShouldRemove(p, d) =>
          /\ owner[d] # None
          /\ d \in late \/ ~Running(owner[d]) \/ place[owner[d]].host # place[p].host
    <3>1. owner[d] \in Procs \cup {None} /\ p \in Procs
      BY <1>5
    <3>2. Running(p) /\ place[p].host \in Hosts
      BY <1>5 DEF Judge
    <3>3. CASE dir[d] = "bare" /\ d \in old
      BY <3>3
    <3>4. CASE dir[d] = "locked" /\ ~IsProcessAlive(place[p].host, place[owner[d]].pid)
      <4>1. owner[d] \in Procs /\ place[owner[d]] \in [host : Hosts, pid : Pids]
        BY <3>1, <3>4
      <4> QED
        BY <3>2, <3>4, <4>1 DEF IsProcessAlive
    <3> QED
      BY <3>3, <3>4 DEF ShouldRemove
  <2>5. /\ UNCHANGED <<proc, late, old, place, owner>>
    BY <1>5 DEF Judge
  <2> QED
    BY <2>1, <2>2, <2>3, <2>4, <2>5 DEF Running, Step, Doomed
<1>6. ASSUME NEW p \in Procs, Remove(p)
      PROVE  Doomed'
  <2>1. \A q \in Procs : q # p => busy'[q] = busy[q]
    BY <1>6 DEF Remove
  <2>2. ~(Step(p)' = "judge" /\ busy'[p].doomed # None)
    BY <1>6 DEF Remove
  <2>3. \A q \in Procs : Running(q)' => Running(q)
    BY <1>6 DEF Remove
  <2>4. /\ late' = late /\ old' \subseteq old /\ place' = place
        /\ \A e \in Sessions : owner[e] # None => owner'[e] = owner[e]
    BY <1>6 DEF Remove
  <2>5. DoomsNothing(p)
    BY <2>1, <2>2, <2>3, <2>4 DEF DoomsNothing
  <2> QED
    BY <2>5, DoomedFrame
<1>7. ASSUME NEW p \in Procs, RemoveTemps(p)
      PROVE  Doomed'
  <2>1. \A q \in Procs : q # p => busy'[q] = busy[q]
    BY <1>7 DEF RemoveTemps
  <2>2. ~(Step(p)' = "judge" /\ busy'[p].doomed # None)
    BY <1>7 DEF RemoveTemps
  <2>3. \A q \in Procs : Running(q)' => Running(q)
    BY <1>7 DEF RemoveTemps
  <2>4. /\ late' = late /\ old' \subseteq old /\ place' = place
        /\ \A e \in Sessions : owner[e] # None => owner'[e] = owner[e]
    BY <1>7 DEF RemoveTemps
  <2>5. DoomsNothing(p)
    BY <2>1, <2>2, <2>3, <2>4 DEF DoomsNothing
  <2> QED
    BY <2>5, DoomedFrame
<1>8. ASSUME NEW p \in Procs, Stores(p)
      PROVE  Doomed'
  <2>1. \A q \in Procs : q # p => busy'[q] = busy[q]
    BY <1>8 DEF Stores
  <2>2. ~(Step(p)' = "judge" /\ busy'[p].doomed # None)
    BY <1>8 DEF Stores
  <2>3. \A q \in Procs : Running(q)' => Running(q)
    BY <1>8 DEF Stores
  <2>4. /\ late' = late /\ old' \subseteq old /\ place' = place
        /\ \A e \in Sessions : owner[e] # None => owner'[e] = owner[e]
    BY <1>8 DEF Stores
  <2>5. DoomsNothing(p)
    BY <2>1, <2>2, <2>3, <2>4 DEF DoomsNothing
  <2> QED
    BY <2>5, DoomedFrame
<1>9. ASSUME NEW p \in Procs, MakeDirectory(p)
      PROVE  Doomed'
  BY <1>9, NoneAssumption DEF MakeDirectory
<1>10. ASSUME NEW p \in Procs, WriteLock(p)
       PROVE  Doomed'
  <2>1. \A q \in Procs : q # p => busy'[q] = busy[q]
    BY <1>10 DEF WriteLock
  <2>2. ~(Step(p)' = "judge" /\ busy'[p].doomed # None)
    BY <1>10 DEF WriteLock
  <2>3. \A q \in Procs : Running(q)' => Running(q)
    BY <1>10 DEF WriteLock
  <2>4. /\ late' = late /\ old' \subseteq old /\ place' = place
        /\ \A e \in Sessions : owner[e] # None => owner'[e] = owner[e]
    BY <1>10 DEF WriteLock
  <2>5. DoomsNothing(p)
    BY <2>1, <2>2, <2>3, <2>4 DEF DoomsNothing
  <2> QED
    BY <2>5, DoomedFrame
<1>11. ASSUME NEW p \in Procs, LockFails(p)
       PROVE  Doomed'
  <2>1. \A q \in Procs : q # p => busy'[q] = busy[q]
    BY <1>11 DEF LockFails
  <2>2. ~(Step(p)' = "judge" /\ busy'[p].doomed # None)
    BY <1>11 DEF LockFails
  <2>3. \A q \in Procs : Running(q)' => Running(q)
    BY <1>11 DEF LockFails
  <2>4. /\ late' = late /\ old' \subseteq old /\ place' = place
        /\ \A e \in Sessions : owner[e] # None => owner'[e] = owner[e]
    BY <1>11 DEF LockFails
  <2>5. DoomsNothing(p)
    BY <2>1, <2>2, <2>3, <2>4 DEF DoomsNothing
  <2> QED
    BY <2>5, DoomedFrame
<1>12. ASSUME NEW s \in Sessions, BeginRestore(s)
       PROVE  Doomed'
  <2>0. PICK p \in Procs : p = owner[s]
    BY <1>12 DEF BeginRestore, Usable
  <2>1. \A q \in Procs : q # p => busy'[q] = busy[q]
    BY <1>12, <2>0 DEF BeginRestore, Usable
  <2>2. ~(Step(p)' = "judge" /\ busy'[p].doomed # None)
    BY <1>12, <2>0 DEF BeginRestore, Usable
  <2>3. \A q \in Procs : Running(q)' => Running(q)
    BY <1>12, <2>0 DEF BeginRestore, Usable
  <2>4. /\ late' = late /\ old' \subseteq old /\ place' = place
        /\ \A e \in Sessions : owner[e] # None => owner'[e] = owner[e]
    BY <1>12, <2>0 DEF BeginRestore, Usable
  <2>5. DoomsNothing(p)
    BY <2>1, <2>2, <2>3, <2>4 DEF DoomsNothing
  <2> QED
    BY <2>5, DoomedFrame
<1>13. ASSUME NEW p \in Procs, EndRestore(p)
       PROVE  Doomed'
  <2>1. \A q \in Procs : q # p => busy'[q] = busy[q]
    BY <1>13 DEF EndRestore
  <2>2. ~(Step(p)' = "judge" /\ busy'[p].doomed # None)
    BY <1>13 DEF EndRestore
  <2>3. \A q \in Procs : Running(q)' => Running(q)
    BY <1>13 DEF EndRestore
  <2>4. /\ late' = late /\ old' \subseteq old /\ place' = place
        /\ \A e \in Sessions : owner[e] # None => owner'[e] = owner[e]
    BY <1>13 DEF EndRestore
  <2>5. DoomsNothing(p)
    BY <2>1, <2>2, <2>3, <2>4 DEF DoomsNothing
  <2> QED
    BY <2>5, DoomedFrame
<1>14. ASSUME NEW s \in Sessions, InstallFsInterceptor(s)
       PROVE  Doomed'
  BY <1>14, NoneAssumption DEF InstallFsInterceptor, Usable
<1>15. ASSUME NEW s \in Sessions, UninstallFsInterceptor(s)
       PROVE  Doomed'
  BY <1>15, NoneAssumption DEF UninstallFsInterceptor
<1>16. ASSUME NEW s \in Sessions, StorageEnds(s)
       PROVE  Doomed'
  BY <1>16, NoneAssumption DEF StorageEnds, Usable
<1>17. ASSUME NEW s \in Sessions, Disposed(s)
       PROVE  Doomed'
  BY <1>17, NoneAssumption DEF Disposed, Cleans, Usable
<1>18. ASSUME NEW p \in Procs, ProcessEnds(p)
       PROVE  Doomed'
  <2>1. \A q \in Procs : q # p => busy'[q] = busy[q]
    BY <1>18 DEF ProcessEnds, Cleans, Ends
  <2>2. ~(Step(p)' = "judge" /\ busy'[p].doomed # None)
    BY <1>18 DEF ProcessEnds, Cleans, Ends
  <2>3. \A q \in Procs : Running(q)' => Running(q)
    BY <1>18 DEF ProcessEnds, Cleans, Ends
  <2>4. /\ late' = late /\ old' \subseteq old /\ place' = place
        /\ \A e \in Sessions : owner[e] # None => owner'[e] = owner[e]
    BY <1>18 DEF ProcessEnds, Cleans, Ends
  <2>5. DoomsNothing(p)
    BY <2>1, <2>2, <2>3, <2>4 DEF DoomsNothing
  <2> QED
    BY <2>5, DoomedFrame
<1>19. ASSUME NEW p \in Procs, ProcessSurvives(p)
       PROVE  Doomed'
  BY <1>19, NoneAssumption DEF ProcessSurvives, Cleans, Survives
<1>20. CASE UNCHANGED vars
  BY <1>20 DEF vars
<1> HIDE DEF TypeOK, StateOK, procVars, dirVars, tempVars, storageVars, useVars, flagVars,
   Running, Idle, Step, Flags, Once, Born, Working, Doomed
<1> QED
  BY <1>1, <1>2, <1>3, <1>4, <1>5, <1>6, <1>7, <1>8, <1>9, <1>10, <1>11, <1>12, <1>13,
     <1>14, <1>15, <1>16, <1>17, <1>18, <1>19, <1>20, Steps

\* Only what is doomed is removed, and only emergency cleanup removes what is
\* its own.
LEMMA LiveStep ==
    ASSUME TypeOK, Flags, Once, Born, Working, Doomed, LiveSessionsKept, [Next]_vars
    PROVE  LiveSessionsKept'
<1> USE DEF TypeOK, StateOK, procVars, dirVars, tempVars, storageVars, useVars, flagVars,
   Running, Idle, Step, Flags, Once, Born, Working, Doomed, LiveSessionsKept, Of
<1>1. ASSUME DayPasses
      PROVE  LiveSessionsKept'
  BY <1>1, NoneAssumption DEF DayPasses
<1>2. ASSUME NEW p \in Procs, NEW h \in Hosts, NEW i \in Pids, Start(p, h, i)
      PROVE  LiveSessionsKept'
  BY <1>2, NoneAssumption DEF Start
<1>3. ASSUME NEW p \in Procs, NEW s \in Sessions, Construct(p, s)
      PROVE  LiveSessionsKept'
  BY <1>3, NoneAssumption DEF Construct, Collect, Abandoned
<1>4. ASSUME NEW s \in Sessions, Snapshot(s)
      PROVE  LiveSessionsKept'
  BY <1>4, NoneAssumption DEF Snapshot, Collect, Abandoned, Usable
<1>5. ASSUME NEW p \in Procs, NEW d \in Sessions, Judge(p, d)
      PROVE  LiveSessionsKept'
  BY <1>5, NoneAssumption DEF Judge
<1>6. ASSUME NEW p \in Procs, Remove(p)
      PROVE  LiveSessionsKept'
  <2> DEFINE d == busy[p].doomed
  <2>1. /\ owner[d] # None
        /\ d \in late \/ ~Running(owner[d]) \/ place[owner[d]].host # place[p].host
    BY <1>6 DEF Remove, Doomed
  <2>2. /\ \A s \in Sessions : s # d => dir'[s] = dir[s]
        /\ foreign' = IF place[owner[d]].host = place[p].host THEN foreign
                       ELSE foreign \cup {d}
        /\ UNCHANGED <<proc, owner, built, emergencyCleanupCompleted, late>>
    BY <1>6 DEF Remove
  <2> HIDE DEF d
  <2> QED
    BY <2>1, <2>2 DEF LiveSessionsKept
<1>7. ASSUME NEW p \in Procs, RemoveTemps(p)
      PROVE  LiveSessionsKept'
  BY <1>7, NoneAssumption DEF RemoveTemps
<1>8. ASSUME NEW p \in Procs, Stores(p)
      PROVE  LiveSessionsKept'
  BY <1>8, NoneAssumption DEF Stores
<1>9. ASSUME NEW p \in Procs, MakeDirectory(p)
      PROVE  LiveSessionsKept'
  BY <1>9, NoneAssumption DEF MakeDirectory
<1>10. ASSUME NEW p \in Procs, WriteLock(p)
       PROVE  LiveSessionsKept'
  BY <1>10, NoneAssumption DEF WriteLock
<1>11. ASSUME NEW p \in Procs, LockFails(p)
       PROVE  LiveSessionsKept'
  BY <1>11, NoneAssumption DEF LockFails
<1>12. ASSUME NEW s \in Sessions, BeginRestore(s)
       PROVE  LiveSessionsKept'
  BY <1>12, NoneAssumption DEF BeginRestore, Usable
<1>13. ASSUME NEW p \in Procs, EndRestore(p)
       PROVE  LiveSessionsKept'
  BY <1>13, NoneAssumption DEF EndRestore
<1>14. ASSUME NEW s \in Sessions, InstallFsInterceptor(s)
       PROVE  LiveSessionsKept'
  BY <1>14, NoneAssumption DEF InstallFsInterceptor, Usable
<1>15. ASSUME NEW s \in Sessions, UninstallFsInterceptor(s)
       PROVE  LiveSessionsKept'
  BY <1>15, NoneAssumption DEF UninstallFsInterceptor
<1>16. ASSUME NEW s \in Sessions, StorageEnds(s)
       PROVE  LiveSessionsKept'
  BY <1>16, NoneAssumption DEF StorageEnds, Usable
<1>17. ASSUME NEW s \in Sessions, Disposed(s)
       PROVE  LiveSessionsKept'
  BY <1>17, NoneAssumption DEF Disposed, Cleans, Usable
<1>18. ASSUME NEW p \in Procs, ProcessEnds(p)
       PROVE  LiveSessionsKept'
  BY <1>18, NoneAssumption DEF ProcessEnds, Cleans, Ends
<1>19. ASSUME NEW p \in Procs, ProcessSurvives(p)
       PROVE  LiveSessionsKept'
  BY <1>19, NoneAssumption DEF ProcessSurvives, Cleans, Survives
<1>20. CASE UNCHANGED vars
  BY <1>20 DEF vars
<1> HIDE DEF TypeOK, StateOK, procVars, dirVars, tempVars, storageVars, useVars, flagVars,
   Running, Idle, Step, Flags, Once, Born, Working, Doomed, LiveSessionsKept, Of
<1> QED
  BY <1>1, <1>2, <1>3, <1>4, <1>5, <1>6, <1>7, <1>8, <1>9, <1>10, <1>11, <1>12, <1>13,
     <1>14, <1>15, <1>16, <1>17, <1>18, <1>19, <1>20, Steps

\* After its emergency cleanup a workspace is used on record only.
LEMMA CleanedStep ==
    ASSUME TypeOK, Flags, Once, Born, Working, Cleaned, [Next]_vars
    PROVE  Cleaned'
<1> USE DEF TypeOK, StateOK, procVars, dirVars, tempVars, storageVars, useVars, flagVars,
   Running, Idle, Step, Flags, Once, Born, Working, Cleaned, Of
<1>1. ASSUME DayPasses
      PROVE  Cleaned'
  BY <1>1, NoneAssumption DEF DayPasses
<1>2. ASSUME NEW p \in Procs, NEW h \in Hosts, NEW i \in Pids, Start(p, h, i)
      PROVE  Cleaned'
  BY <1>2, NoneAssumption DEF Start
<1>3. ASSUME NEW p \in Procs, NEW s \in Sessions, Construct(p, s)
      PROVE  Cleaned'
  BY <1>3, NoneAssumption DEF Construct, Collect, Abandoned
<1>4. ASSUME NEW s \in Sessions, Snapshot(s)
      PROVE  Cleaned'
  BY <1>4, NoneAssumption DEF Snapshot, Collect, Abandoned, Usable
<1>5. ASSUME NEW p \in Procs, NEW d \in Sessions, Judge(p, d)
      PROVE  Cleaned'
  BY <1>5, NoneAssumption DEF Judge
<1>6. ASSUME NEW p \in Procs, Remove(p)
      PROVE  Cleaned'
  BY <1>6, NoneAssumption DEF Remove
<1>7. ASSUME NEW p \in Procs, RemoveTemps(p)
      PROVE  Cleaned'
  BY <1>7, NoneAssumption DEF RemoveTemps
<1>8. ASSUME NEW p \in Procs, Stores(p)
      PROVE  Cleaned'
  BY <1>8, NoneAssumption DEF Stores
<1>9. ASSUME NEW p \in Procs, MakeDirectory(p)
      PROVE  Cleaned'
  BY <1>9, NoneAssumption DEF MakeDirectory
<1>10. ASSUME NEW p \in Procs, WriteLock(p)
       PROVE  Cleaned'
  BY <1>10, NoneAssumption DEF WriteLock
<1>11. ASSUME NEW p \in Procs, LockFails(p)
       PROVE  Cleaned'
  BY <1>11, NoneAssumption DEF LockFails
<1>12. ASSUME NEW s \in Sessions, BeginRestore(s)
       PROVE  Cleaned'
  BY <1>12, NoneAssumption DEF BeginRestore, Usable
<1>13. ASSUME NEW p \in Procs, EndRestore(p)
       PROVE  Cleaned'
  BY <1>13, NoneAssumption DEF EndRestore
<1>14. ASSUME NEW s \in Sessions, InstallFsInterceptor(s)
       PROVE  Cleaned'
  BY <1>14, NoneAssumption DEF InstallFsInterceptor, Usable
<1>15. ASSUME NEW s \in Sessions, UninstallFsInterceptor(s)
       PROVE  Cleaned'
  BY <1>15, NoneAssumption DEF UninstallFsInterceptor
<1>16. ASSUME NEW s \in Sessions, StorageEnds(s)
       PROVE  Cleaned'
  BY <1>16, NoneAssumption DEF StorageEnds, Usable
<1>17. ASSUME NEW s \in Sessions, Disposed(s)
       PROVE  Cleaned'
  BY <1>17, NoneAssumption DEF Disposed, Cleans, Usable
<1>18. ASSUME NEW p \in Procs, ProcessEnds(p)
       PROVE  Cleaned'
  BY <1>18, NoneAssumption DEF ProcessEnds, Cleans, Ends
<1>19. ASSUME NEW p \in Procs, ProcessSurvives(p)
       PROVE  Cleaned'
  BY <1>19, NoneAssumption DEF ProcessSurvives, Cleans, Survives
<1>20. CASE UNCHANGED vars
  BY <1>20 DEF vars
<1> HIDE DEF TypeOK, StateOK, procVars, dirVars, tempVars, storageVars, useVars, flagVars,
   Running, Idle, Step, Flags, Once, Born, Working, Cleaned, Of
<1> QED
  BY <1>1, <1>2, <1>3, <1>4, <1>5, <1>6, <1>7, <1>8, <1>9, <1>10, <1>11, <1>12, <1>13,
     <1>14, <1>15, <1>16, <1>17, <1>18, <1>19, <1>20, Steps

\* The listeners of a workspace are there until its emergency cleanup.
LEMMA RegisteredStep ==
    ASSUME TypeOK, Flags, Once, Born, Working, Registered, [Next]_vars
    PROVE  Registered'
<1> USE DEF TypeOK, StateOK, procVars, dirVars, tempVars, storageVars, useVars, flagVars,
   Running, Idle, Step, Flags, Once, Born, Working, Registered, Of
<1>1. ASSUME DayPasses
      PROVE  Registered'
  BY <1>1, NoneAssumption DEF DayPasses
<1>2. ASSUME NEW p \in Procs, NEW h \in Hosts, NEW i \in Pids, Start(p, h, i)
      PROVE  Registered'
  BY <1>2, NoneAssumption DEF Start
<1>3. ASSUME NEW p \in Procs, NEW s \in Sessions, Construct(p, s)
      PROVE  Registered'
  BY <1>3, NoneAssumption DEF Construct, Collect, Abandoned
<1>4. ASSUME NEW s \in Sessions, Snapshot(s)
      PROVE  Registered'
  BY <1>4, NoneAssumption DEF Snapshot, Collect, Abandoned, Usable
<1>5. ASSUME NEW p \in Procs, NEW d \in Sessions, Judge(p, d)
      PROVE  Registered'
  BY <1>5, NoneAssumption DEF Judge
<1>6. ASSUME NEW p \in Procs, Remove(p)
      PROVE  Registered'
  BY <1>6, NoneAssumption DEF Remove
<1>7. ASSUME NEW p \in Procs, RemoveTemps(p)
      PROVE  Registered'
  BY <1>7, NoneAssumption DEF RemoveTemps
<1>8. ASSUME NEW p \in Procs, Stores(p)
      PROVE  Registered'
  BY <1>8, NoneAssumption DEF Stores
<1>9. ASSUME NEW p \in Procs, MakeDirectory(p)
      PROVE  Registered'
  BY <1>9, NoneAssumption DEF MakeDirectory
<1>10. ASSUME NEW p \in Procs, WriteLock(p)
       PROVE  Registered'
  <2> DEFINE t == busy[p].session
  <2>1. t \in Sessions /\ handlers[p] \in Seq(Sessions) /\ owner[t] = p /\ Running(p)
    BY <1>10 DEF WriteLock
  <2>2. Range(Append(handlers[p], t)) = Range(handlers[p]) \cup {t}
    BY <2>1, RangeAppend
  <2>3. handlers' = [handlers EXCEPT ![p] = Append(handlers[p], t)] /\ built' = built \cup {t}
        /\ UNCHANGED <<proc, owner, emergencyCleanupCompleted>>
    BY <1>10 DEF WriteLock
  <2> HIDE DEF t
  <2> QED
    BY <2>1, <2>2, <2>3
<1>11. ASSUME NEW p \in Procs, LockFails(p)
       PROVE  Registered'
  BY <1>11, NoneAssumption DEF LockFails
<1>12. ASSUME NEW s \in Sessions, BeginRestore(s)
       PROVE  Registered'
  BY <1>12, NoneAssumption DEF BeginRestore, Usable
<1>13. ASSUME NEW p \in Procs, EndRestore(p)
       PROVE  Registered'
  BY <1>13, NoneAssumption DEF EndRestore
<1>14. ASSUME NEW s \in Sessions, InstallFsInterceptor(s)
       PROVE  Registered'
  BY <1>14, NoneAssumption DEF InstallFsInterceptor, Usable
<1>15. ASSUME NEW s \in Sessions, UninstallFsInterceptor(s)
       PROVE  Registered'
  BY <1>15, NoneAssumption DEF UninstallFsInterceptor
<1>16. ASSUME NEW s \in Sessions, StorageEnds(s)
       PROVE  Registered'
  BY <1>16, NoneAssumption DEF StorageEnds, Usable
<1>17. ASSUME NEW s \in Sessions, Disposed(s)
       PROVE  Registered'
  BY <1>17, NoneAssumption DEF Disposed, Cleans, Usable
<1>18. ASSUME NEW p \in Procs, ProcessEnds(p)
       PROVE  Registered'
  BY <1>18, NoneAssumption DEF ProcessEnds, Cleans, Ends
<1>19. ASSUME NEW p \in Procs, ProcessSurvives(p)
       PROVE  Registered'
  BY <1>19, NoneAssumption DEF ProcessSurvives, Cleans, Survives
<1>20. CASE UNCHANGED vars
  BY <1>20 DEF vars
<1> HIDE DEF TypeOK, StateOK, procVars, dirVars, tempVars, storageVars, useVars, flagVars,
   Running, Idle, Step, Flags, Once, Born, Working, Registered, Of
<1> QED
  BY <1>1, <1>2, <1>3, <1>4, <1>5, <1>6, <1>7, <1>8, <1>9, <1>10, <1>11, <1>12, <1>13,
     <1>14, <1>15, <1>16, <1>17, <1>18, <1>19, <1>20, Steps

\* Every step but the start of a process abates.
LEMMA AbatesStep ==
    ASSUME TypeOK, Flags, Once, Born, Working, [Next]_vars
    PROVE  Abates \/ Starts
<1> USE DEF TypeOK, StateOK, procVars, dirVars, tempVars, storageVars, useVars, flagVars,
   Running, Idle, Step, Flags, Once, Born, Working, Of, Abates
<1>1. ASSUME DayPasses
      PROVE  Abates \/ Starts
  BY <1>1, NoneAssumption DEF DayPasses
<1>2. ASSUME NEW p \in Procs, NEW h \in Hosts, NEW i \in Pids, Start(p, h, i)
      PROVE  Abates \/ Starts
  BY <1>2 DEF Starts
<1>3. ASSUME NEW p \in Procs, NEW s \in Sessions, Construct(p, s)
      PROVE  Abates \/ Starts
  BY <1>3, NoneAssumption DEF Construct, Collect, Abandoned
<1>4. ASSUME NEW s \in Sessions, Snapshot(s)
      PROVE  Abates \/ Starts
  BY <1>4, NoneAssumption DEF Snapshot, Collect, Abandoned, Usable
<1>5. ASSUME NEW p \in Procs, NEW d \in Sessions, Judge(p, d)
      PROVE  Abates \/ Starts
  BY <1>5, NoneAssumption DEF Judge
<1>6. ASSUME NEW p \in Procs, Remove(p)
      PROVE  Abates \/ Starts
  BY <1>6, NoneAssumption DEF Remove
<1>7. ASSUME NEW p \in Procs, RemoveTemps(p)
      PROVE  Abates \/ Starts
  BY <1>7, NoneAssumption DEF RemoveTemps
<1>8. ASSUME NEW p \in Procs, Stores(p)
      PROVE  Abates \/ Starts
  BY <1>8, NoneAssumption DEF Stores
<1>9. ASSUME NEW p \in Procs, MakeDirectory(p)
      PROVE  Abates \/ Starts
  BY <1>9, NoneAssumption DEF MakeDirectory
<1>10. ASSUME NEW p \in Procs, WriteLock(p)
       PROVE  Abates \/ Starts
  BY <1>10, NoneAssumption DEF WriteLock
<1>11. ASSUME NEW p \in Procs, LockFails(p)
       PROVE  Abates \/ Starts
  BY <1>11, NoneAssumption DEF LockFails
<1>12. ASSUME NEW s \in Sessions, BeginRestore(s)
       PROVE  Abates \/ Starts
  BY <1>12, NoneAssumption DEF BeginRestore, Usable
<1>13. ASSUME NEW p \in Procs, EndRestore(p)
       PROVE  Abates \/ Starts
  BY <1>13, NoneAssumption DEF EndRestore
<1>14. ASSUME NEW s \in Sessions, InstallFsInterceptor(s)
       PROVE  Abates \/ Starts
  BY <1>14, NoneAssumption DEF InstallFsInterceptor, Usable
<1>15. ASSUME NEW s \in Sessions, UninstallFsInterceptor(s)
       PROVE  Abates \/ Starts
  BY <1>15, NoneAssumption DEF UninstallFsInterceptor
<1>16. ASSUME NEW s \in Sessions, StorageEnds(s)
       PROVE  Abates \/ Starts
  BY <1>16, NoneAssumption DEF StorageEnds, Usable
<1>17. ASSUME NEW s \in Sessions, Disposed(s)
       PROVE  Abates \/ Starts
  BY <1>17, NoneAssumption DEF Disposed, Cleans, Usable
<1>18. ASSUME NEW p \in Procs, ProcessEnds(p)
       PROVE  Abates \/ Starts
  BY <1>18, NoneAssumption DEF ProcessEnds, Cleans, Ends
<1>19. ASSUME NEW p \in Procs, ProcessSurvives(p)
       PROVE  Abates \/ Starts
  BY <1>19, NoneAssumption DEF ProcessSurvives, Cleans, Survives
<1>20. CASE UNCHANGED vars
  BY <1>20 DEF vars
<1> HIDE DEF TypeOK, StateOK, procVars, dirVars, tempVars, storageVars, useVars, flagVars,
   Running, Idle, Step, Flags, Once, Born, Working, Of, Abates
<1> QED
  BY <1>1, <1>2, <1>3, <1>4, <1>5, <1>6, <1>7, <1>8, <1>9, <1>10, <1>11, <1>12, <1>13,
     <1>14, <1>15, <1>16, <1>17, <1>18, <1>19, <1>20, Steps

\* A new process may take the number of one that has ended: collections on its
\* host owe nothing for that one any more.
LEMMA OwedStart ==
    ASSUME TypeOK, Born, Working, Owed,
           NEW p \in Procs, NEW h \in Hosts, NEW i \in Pids, Start(p, h, i)
    PROVE  Owed'
<1>1. /\ proc[p] = "unborn" /\ proc' = [proc EXCEPT ![p] = "running"]
      /\ place' = [place EXCEPT ![p] = [host |-> h, pid |-> i]]
      /\ UNCHANGED <<owner, busy, dir, old, stuck, tempVars>>
  BY DEF Start, dirVars
<1>2. /\ \A q \in Procs : q # p => proc'[q] = proc[q] /\ place'[q] = place[q]
      /\ proc'[p] = "running" /\ place'[p] = [host |-> h, pid |-> i]
  BY <1>1 DEF TypeOK, StateOK
<1>3. \A s \in Sessions : owner[s] # None => owner[s] # p /\ owner[s] \in Procs
  BY <1>1 DEF Born, TypeOK, StateOK
<1> SUFFICES ASSUME NEW q \in Procs, Step(q)' \in {"judge", "swept"} PROVE OwedBy(q)'
  BY DEF Owed, OwedBy
<1>4. q # p /\ Running(q) /\ Step(q)' = Step(q) /\ Step(q) \in {"judge", "swept"}
  <2>1. busy[q] # None
    BY <1>1 DEF Step
  <2>2. Running(q)
    BY <2>1 DEF Working
  <2> QED
    BY <1>1, <1>2, <2>1, <2>2 DEF Step, Running
<1>5. /\ due'[q].temps = due[q].temps
      /\ due'[q].dirs = IF place[q].host = h
                        THEN {d \in due[q].dirs : place[owner[d]].pid # i}
                        ELSE due[q].dirs
  <2>1. due[q] \in [dirs : SUBSET Sessions, temps : SUBSET Procs]
    BY DEF TypeOK, StateOK
  <2>2. due'[q] = IF place[q].host = h
                  THEN [due[q] EXCEPT !.dirs = {d \in @ : place[owner[d]].pid # i}]
                  ELSE due[q]
    BY <1>4 DEF Start
  <2> QED
    BY <2>1, <2>2
<1>6. ASSUME NEW d \in due'[q].dirs
      PROVE  /\ owner'[d] # None /\ proc'[owner'[d]] # "running"
             /\ \/ dir'[d] = "none" \/ d \in stuck'
                \/ /\ Step(q)' = "judge"
                   /\ (d \in busy'[q].todo /\ ShouldRemove(q, d)') \/ d = busy'[q].doomed
  <2>1. d \in Sessions /\ d \in due[q].dirs /\ (place[q].host = h => place[owner[d]].pid # i)
    BY <1>5 DEF TypeOK, StateOK
  <2>2. /\ owner[d] # None /\ proc[owner[d]] # "running"
        /\ \/ dir[d] = "none" \/ d \in stuck
           \/ /\ Step(q) = "judge"
              /\ (d \in busy[q].todo /\ ShouldRemove(q, d)) \/ d = busy[q].doomed
    BY <1>4, <2>1 DEF Owed, OwedBy, Running
  <2>3. owner[d] # p /\ owner[d] \in Procs /\ place'[owner[d]] = place[owner[d]]
        /\ proc'[owner[d]] # "running" /\ place'[q] = place[q]
    BY <1>2, <1>3, <1>4, <2>1, <2>2
  <2>4. ShouldRemove(q, d) => ShouldRemove(q, d)'
    <3>1. ~(place'[p] = [host |-> place[q].host, pid |-> place[owner[d]].pid])
      BY <1>2, <2>1
    <3> QED
      BY <1>1, <1>2, <2>3, <3>1 DEF ShouldRemove, IsProcessAlive, Running
  <2> QED
    BY <1>1, <1>4, <2>2, <2>3, <2>4
<1>7. \A x \in due'[q].temps : proc'[x] \notin {"unborn", "running"}
  <2>1. \A x \in due[q].temps : proc[x] \notin {"unborn", "running"} /\ x \in Procs
    BY <1>4 DEF Owed, OwedBy, TypeOK, StateOK
  <2> QED
    BY <1>1, <1>2, <1>5, <2>1
<1>8. Step(q)' = "swept" => due'[q].temps \cap temps' \subseteq ignored' \cup stuckTemps'
  <2>1. UNCHANGED tempVars
    BY DEF Start
  <2> QED
    BY <1>1, <1>4, <1>5, <2>1 DEF Owed, OwedBy, tempVars
<1> QED
  BY <1>6, <1>7, <1>8 DEF OwedBy, Running

\* A collection does what it owes, whatever other processes do meanwhile.
LEMMA OwedAbating ==
    ASSUME TypeOK, Flags, Once, Born, Working, Owed, Abates, [Next]_vars
    PROVE  Owed'
<1>others. ASSUME NEW p \in Procs, OwedBy(p)',
                  \A q \in Procs : q # p => busy'[q] = busy[q] /\ due'[q] = due[q]
           PROVE  Owed'
  BY <1>others, OwedFrame DEF Owed
<1>all. UNCHANGED <<busy, due>> => Owed'
  BY OwedFrame DEF Owed
<1> USE DEF TypeOK, StateOK, procVars, dirVars, tempVars, storageVars, useVars, flagVars,
   Running, Idle, Step, Flags, Once, Born, Working
<1>1. ASSUME DayPasses
      PROVE  Owed'
  <2>1. UNCHANGED <<busy, due>>
    BY <1>1 DEF DayPasses
  <2> QED
    BY <2>1, <1>all
<1>2. ASSUME NEW p \in Procs, NEW h \in Hosts, NEW i \in Pids, Start(p, h, i)
      PROVE  Owed'
  BY <1>2, OwedStart
<1>3. ASSUME NEW p \in Procs, NEW s \in Sessions, Construct(p, s)
      PROVE  Owed'
  <2>1. \A q \in Procs : q # p => busy'[q] = busy[q] /\ due'[q] = due[q]
    BY <1>3 DEF Construct, Collect
  <2>2. OwedBy(p)'
    <3> SUFFICES ASSUME busy'[p] # None PROVE OwedBy(p)'
      BY DEF OwedBy
    <3>1. /\ Running(p) /\ due'[p] = Abandoned(p) /\ Step(p)' = "judge"
          /\ busy'[p].todo = {d \in Sessions : dir[d] # "none"}
          /\ UNCHANGED <<proc, place, dir, old, tempVars>>
      BY <1>3 DEF Construct, Collect
    <3>2. \A d \in Sessions : dir[d] # "none" => owner[d] \in Procs /\ owner'[d] = owner[d]
      BY <1>3 DEF Construct, Collect
    <3>3. ASSUME NEW d \in Abandoned(p).dirs
          PROVE  /\ owner'[d] # None /\ proc'[owner'[d]] # "running"
                 /\ d \in busy'[p].todo /\ ShouldRemove(p, d)'
      <4>1. d \in Sessions /\ dir[d] # "none" /\ ~Running(owner[d]) /\ ShouldRemove(p, d)
        BY DEF Abandoned, ShouldRemove
      <4>2. owner[d] \in Procs /\ owner'[d] = owner[d]
        BY <3>2, <4>1
      <4> QED
        BY <3>1, <4>1, <4>2, NoneAssumption DEF ShouldRemove, IsProcessAlive
    <3>4. \A q \in Abandoned(p).temps : proc[q] \notin {"unborn", "running"}
      BY DEF Abandoned
    <3> QED
      BY <3>1, <3>3, <3>4 DEF OwedBy
  <2> QED
    BY <2>1, <2>2, <1>others
<1>4. ASSUME NEW s \in Sessions, Snapshot(s)
      PROVE  Owed'
  <2>0. PICK p \in Procs : p = owner[s]
    BY <1>4 DEF Snapshot, Collect, Usable
  <2>1. \A q \in Procs : q # p => busy'[q] = busy[q] /\ due'[q] = due[q]
    BY <1>4, <2>0 DEF Snapshot, Collect, Usable
  <2>2. OwedBy(p)'
    <3> SUFFICES ASSUME busy'[p] # None PROVE OwedBy(p)'
      BY DEF OwedBy
    <3>1. /\ Running(p) /\ due'[p] = Abandoned(p) /\ Step(p)' = "judge"
          /\ busy'[p].todo = {d \in Sessions : dir[d] # "none"}
          /\ UNCHANGED <<proc, place, dir, old, tempVars>>
      BY <1>4, <2>0 DEF Snapshot, Collect, Usable
    <3>2. \A d \in Sessions : dir[d] # "none" => owner[d] \in Procs /\ owner'[d] = owner[d]
      BY <1>4, <2>0 DEF Snapshot, Collect, Usable
    <3>3. ASSUME NEW d \in Abandoned(p).dirs
          PROVE  /\ owner'[d] # None /\ proc'[owner'[d]] # "running"
                 /\ d \in busy'[p].todo /\ ShouldRemove(p, d)'
      <4>1. d \in Sessions /\ dir[d] # "none" /\ ~Running(owner[d]) /\ ShouldRemove(p, d)
        BY DEF Abandoned, ShouldRemove
      <4>2. owner[d] \in Procs /\ owner'[d] = owner[d]
        BY <3>2, <4>1
      <4> QED
        BY <3>1, <4>1, <4>2, NoneAssumption DEF ShouldRemove, IsProcessAlive
    <3>4. \A q \in Abandoned(p).temps : proc[q] \notin {"unborn", "running"}
      BY DEF Abandoned
    <3> QED
      BY <3>1, <3>3, <3>4 DEF OwedBy
  <2> QED
    BY <2>1, <2>2, <1>others
<1>5. ASSUME NEW p \in Procs, NEW d \in Sessions, Judge(p, d)
      PROVE  Owed'
  <2>1. \A q \in Procs : q # p => busy'[q] = busy[q] /\ due'[q] = due[q]
    BY <1>5 DEF Judge
  <2>2. OwedBy(p)'
    <3> SUFFICES ASSUME busy'[p] # None PROVE OwedBy(p)'
      BY DEF OwedBy
    <3>1. busy[p] \in Jobs /\ Running(p) /\ Step(p) = "judge" /\ busy[p].doomed = None
      BY <1>5 DEF Judge, Jobs, Tasks
    <3>2. busy'[p] = [busy[p] EXCEPT !.todo = @ \ {d},
                                     !.doomed = IF ShouldRemove(p, d) THEN d ELSE None]
          /\ UNCHANGED <<due, proc, place, owner, dir, old, stuck, tempVars>>
      BY <1>5 DEF Judge
    <3>3. /\ busy'[p].step = "judge" /\ busy'[p].todo = busy[p].todo \ {d}
          /\ busy'[p].doomed = IF ShouldRemove(p, d) THEN d ELSE None
      BY <3>1, <3>2, NoneAssumption DEF Jobs
    <3>4. Step(p)' = "judge"
      BY <3>1, <3>2, <3>3
    <3>5. \A e \in due[p].dirs :
             /\ owner[e] # None /\ ~Running(owner[e])
             /\ \/ dir[e] = "none" \/ e \in stuck
                \/ e \in busy[p].todo /\ ShouldRemove(p, e)
      <4>1. \A e \in due[p].dirs : e # None
        BY NoneAssumption
      <4> QED
        BY <3>1, <4>1 DEF Owed, OwedBy
    <3>6. \A q \in due[p].temps : proc[q] \notin {"unborn", "running"}
      BY <3>1 DEF Owed, OwedBy
    <3>7. \A e \in Sessions : ShouldRemove(p, e)' <=> ShouldRemove(p, e)
      BY <3>2 DEF ShouldRemove, IsProcessAlive
    <3>8. \A e \in due'[p].dirs :
             /\ owner'[e] # None /\ proc'[owner'[e]] # "running"
             /\ \/ dir'[e] = "none" \/ e \in stuck'
                \/ (e \in busy'[p].todo /\ ShouldRemove(p, e)') \/ e = busy'[p].doomed
      BY <3>2, <3>3, <3>5, <3>7
    <3> QED
      BY <3>2, <3>4, <3>6, <3>8 DEF OwedBy
  <2> QED
    BY <2>1, <2>2, <1>others
<1>6. ASSUME NEW p \in Procs, Remove(p)
      PROVE  Owed'
  <2>1. \A q \in Procs : q # p => busy'[q] = busy[q] /\ due'[q] = due[q]
    BY <1>6 DEF Remove
  <2>2. OwedBy(p)'
    <3> SUFFICES ASSUME busy'[p] # None PROVE OwedBy(p)'
      BY DEF OwedBy
    <3> DEFINE d == busy[p].doomed
    <3>1. busy[p] \in Jobs /\ Running(p) /\ Step(p) = "judge" /\ d \in Sessions
      BY <1>6 DEF Remove, Jobs, Tasks
    <3>2. busy'[p] = [busy[p] EXCEPT !.doomed = None] /\ UNCHANGED <<due, proc, place, owner>>
      BY <1>6 DEF Remove
    <3>3. /\ busy'[p].step = "judge" /\ busy'[p].todo = busy[p].todo
      BY <3>1, <3>2, NoneAssumption DEF Jobs
    <3>4. Step(p)' = "judge"
      BY <3>1, <3>2, <3>3
    <3>5. /\ dir'[d] = "none" \/ d \in stuck'
          /\ stuck \subseteq stuck'
          /\ \A e \in Sessions : e # d => dir'[e] = dir[e] /\ (e \in old' <=> e \in old)
      BY <1>6, <3>1 DEF Remove
    <3>6. \A e \in due[p].dirs :
             /\ owner[e] # None /\ ~Running(owner[e])
             /\ \/ dir[e] = "none" \/ e \in stuck \/ e = d
                \/ e \in busy[p].todo /\ ShouldRemove(p, e)
      BY <3>1 DEF Owed, OwedBy
    <3>7. \A q \in due[p].temps : proc[q] \notin {"unborn", "running"}
      BY <3>1 DEF Owed, OwedBy
    <3> HIDE DEF d
    <3>8. \A e \in Sessions : e # d /\ ShouldRemove(p, e) => ShouldRemove(p, e)'
      BY <3>2, <3>5 DEF ShouldRemove, IsProcessAlive
    <3>9. ASSUME NEW e \in due'[p].dirs
          PROVE  /\ owner'[e] # None /\ proc'[owner'[e]] # "running"
                 /\ \/ dir'[e] = "none" \/ e \in stuck'
                    \/ e \in busy'[p].todo /\ ShouldRemove(p, e)'
      <4>1. e \in due[p].dirs /\ e \in Sessions
        BY <3>2
      <4>2. CASE e = d
        BY <3>2, <3>5, <3>6, <4>1, <4>2
      <4>3. CASE e # d
        BY <3>2, <3>3, <3>5, <3>6, <3>8, <4>1, <4>3
      <4> QED
        BY <4>2, <4>3
    <3> QED
      BY <3>2, <3>4, <3>7, <3>9 DEF OwedBy
  <2> QED
    BY <2>1, <2>2, <1>others
<1>7. ASSUME NEW p \in Procs, RemoveTemps(p)
      PROVE  Owed'
  <2>1. \A q \in Procs : q # p => busy'[q] = busy[q] /\ due'[q] = due[q]
    BY <1>7 DEF RemoveTemps
  <2>2. OwedBy(p)'
    <3>1. /\ busy[p] \in Jobs /\ Running(p) /\ Step(p) = "judge"
          /\ busy[p].todo = {} /\ busy[p].doomed = None
      BY <1>7 DEF RemoveTemps, Jobs, Tasks
    <3>2. temps' \subseteq ignored' \cup stuckTemps' /\ UNCHANGED <<due, proc, owner, dir, stuck>>
      BY <1>7 DEF RemoveTemps
    <3>3. \A e \in due[p].dirs : /\ owner[e] # None /\ ~Running(owner[e])
                                 /\ dir[e] = "none" \/ e \in stuck
      <4>1. OwedBy(p)
        BY DEF Owed
      <4>2. \A e \in due[p].dirs :
               /\ owner[e] # None /\ ~Running(owner[e])
               /\ \/ dir[e] = "none" \/ e \in stuck
                  \/ e \in busy[p].todo \/ e = busy[p].doomed
        BY <3>1, <4>1 DEF OwedBy, Jobs
      <4>3. \A e \in due[p].dirs : e # None
        BY NoneAssumption
      <4> QED
        BY <3>1, <4>2, <4>3
    <3>4. \A q \in due[p].temps : proc[q] \notin {"unborn", "running"}
      BY <3>1 DEF Owed, OwedBy
    <3> QED
      BY <3>2, <3>3, <3>4 DEF OwedBy
  <2> QED
    BY <2>1, <2>2, <1>others
<1>8. ASSUME NEW p \in Procs, Stores(p)
      PROVE  Owed'
  <2>1. \A q \in Procs : q # p => busy'[q] = busy[q] /\ due'[q] = due[q]
    BY <1>8 DEF Stores
  <2>2. OwedBy(p)'
    <3>1. Step(p)' \notin {"judge", "swept"}
      BY <1>8 DEF Stores
    <3> QED
      BY <3>1 DEF OwedBy
  <2> QED
    BY <2>1, <2>2, <1>others
<1>9. ASSUME NEW p \in Procs, MakeDirectory(p)
      PROVE  Owed'
  <2>1. \A q \in Procs : q # p => busy'[q] = busy[q] /\ due'[q] = due[q]
    BY <1>9 DEF MakeDirectory
  <2>2. OwedBy(p)'
    <3>1. Step(p)' \notin {"judge", "swept"}
      BY <1>9 DEF MakeDirectory
    <3> QED
      BY <3>1 DEF OwedBy
  <2> QED
    BY <2>1, <2>2, <1>others
<1>10. ASSUME NEW p \in Procs, WriteLock(p)
       PROVE  Owed'
  <2>1. \A q \in Procs : q # p => busy'[q] = busy[q] /\ due'[q] = due[q]
    BY <1>10 DEF WriteLock
  <2>2. OwedBy(p)'
    <3>1. Step(p)' \notin {"judge", "swept"}
      BY <1>10 DEF WriteLock
    <3> QED
      BY <3>1 DEF OwedBy
  <2> QED
    BY <2>1, <2>2, <1>others
<1>11. ASSUME NEW p \in Procs, LockFails(p)
       PROVE  Owed'
  <2>1. \A q \in Procs : q # p => busy'[q] = busy[q] /\ due'[q] = due[q]
    BY <1>11 DEF LockFails
  <2>2. OwedBy(p)'
    <3>1. Step(p)' \notin {"judge", "swept"}
      BY <1>11 DEF LockFails
    <3> QED
      BY <3>1 DEF OwedBy
  <2> QED
    BY <2>1, <2>2, <1>others
<1>12. ASSUME NEW s \in Sessions, BeginRestore(s)
       PROVE  Owed'
  <2>0. PICK p \in Procs : p = owner[s]
    BY <1>12 DEF BeginRestore, Usable
  <2>1. \A q \in Procs : q # p => busy'[q] = busy[q] /\ due'[q] = due[q]
    BY <1>12, <2>0 DEF BeginRestore, Usable
  <2>2. OwedBy(p)'
    <3>1. Step(p)' \notin {"judge", "swept"}
      BY <1>12, <2>0 DEF BeginRestore, Usable
    <3> QED
      BY <3>1 DEF OwedBy
  <2> QED
    BY <2>1, <2>2, <1>others
<1>13. ASSUME NEW p \in Procs, EndRestore(p)
       PROVE  Owed'
  <2>1. \A q \in Procs : q # p => busy'[q] = busy[q] /\ due'[q] = due[q]
    BY <1>13 DEF EndRestore
  <2>2. OwedBy(p)'
    <3>1. Step(p)' \notin {"judge", "swept"}
      BY <1>13 DEF EndRestore
    <3> QED
      BY <3>1 DEF OwedBy
  <2> QED
    BY <2>1, <2>2, <1>others
<1>14. ASSUME NEW s \in Sessions, InstallFsInterceptor(s)
       PROVE  Owed'
  <2>1. UNCHANGED <<busy, due>>
    BY <1>14 DEF InstallFsInterceptor
  <2> QED
    BY <2>1, <1>all
<1>15. ASSUME NEW s \in Sessions, UninstallFsInterceptor(s)
       PROVE  Owed'
  <2>1. UNCHANGED <<busy, due>>
    BY <1>15 DEF UninstallFsInterceptor
  <2> QED
    BY <2>1, <1>all
<1>16. ASSUME NEW s \in Sessions, StorageEnds(s)
       PROVE  Owed'
  <2>1. UNCHANGED <<busy, due>>
    BY <1>16 DEF StorageEnds
  <2> QED
    BY <2>1, <1>all
<1>17. ASSUME NEW s \in Sessions, Disposed(s)
       PROVE  Owed'
  <2>1. UNCHANGED <<busy, due>>
    BY <1>17 DEF Disposed
  <2> QED
    BY <2>1, <1>all
<1>18. ASSUME NEW p \in Procs, ProcessEnds(p)
       PROVE  Owed'
  <2>1. \A q \in Procs : q # p => busy'[q] = busy[q] /\ due'[q] = due[q]
    BY <1>18 DEF ProcessEnds, Ends
  <2>2. OwedBy(p)'
    <3>1. Step(p)' \notin {"judge", "swept"}
      BY <1>18 DEF ProcessEnds, Ends
    <3> QED
      BY <3>1 DEF OwedBy
  <2> QED
    BY <2>1, <2>2, <1>others
<1>19. ASSUME NEW p \in Procs, ProcessSurvives(p)
       PROVE  Owed'
  <2>1. UNCHANGED <<busy, due>>
    BY <1>19 DEF ProcessSurvives, Survives
  <2> QED
    BY <2>1, <1>all
<1>20. CASE UNCHANGED vars
  <2>1. UNCHANGED <<busy, due>>
    BY <1>20 DEF vars
  <2> QED
    BY <2>1, <1>all
<1> HIDE DEF TypeOK, StateOK, procVars, dirVars, tempVars, storageVars, useVars, flagVars,
   Running, Idle, Step, Flags, Once, Born, Working
<1> QED
  BY <1>1, <1>2, <1>3, <1>4, <1>5, <1>6, <1>7, <1>8, <1>9, <1>10, <1>11, <1>12, <1>13,
     <1>14, <1>15, <1>16, <1>17, <1>18, <1>19, <1>20, Steps

\* A collection does what it owes, whatever other processes do meanwhile, and
\* owes nothing for process numbers that are given out again.
LEMMA OwedStep ==
    ASSUME TypeOK, Flags, Once, Born, Working, Owed, [Next]_vars
    PROVE  Owed'
<1>1. CASE Abates
  BY <1>1, OwedAbating
<1>2. CASE Starts
  BY <1>2, OwedStart DEF Starts
<1> QED
  BY <1>1, <1>2, AbatesStep
-----------------------------------------------------------------------------
(* The theorems. *)

LEMMA InitInv == Init => Inv
<1> SUFFICES ASSUME Init PROVE Inv
  OBVIOUS
<1> USE DEF Init
<1>1. Range(<<>>) = {} /\ <<>> \in Seq(Sessions) /\ Distinct(<<>>)
  BY DEF Range, Distinct
<1>2. TypeOK
  BY <1>1, MaxSnapshotsAssumption DEF TypeOK, StateOK, LeftoversOK, NothingDue
<1>3. Born /\ Working /\ Flags /\ Once
  BY <1>1 DEF Born, Working, Flags, Once
<1>4. Doomed /\ Owed
  BY DEF Doomed, Owed, OwedBy, Step
<1>5. LiveSessionsKept /\ Cleaned /\ Registered
  BY DEF LiveSessionsKept, Cleaned, Registered
<1> QED
  BY <1>2, <1>3, <1>4, <1>5 DEF Inv

LEMMA NextInv == Inv /\ [Next]_vars => Inv'
BY TypeStep, BornStep, WorkingStep, FlagsStep, OnceStep, DoomedStep, OwedStep, LiveStep,
   CleanedStep, RegisteredStep
   DEF Inv

\* Inv holds always.
LEMMA Invariance == Spec => []Inv
<1>1. Init => Inv
  BY InitInv
<1>2. Inv /\ [Next]_vars => Inv'
  BY NextInv
<1> QED
  BY <1>1, <1>2, PTL DEF Spec

\* Every variable has its type (session-gc.ts, lifecycle.ts): what a process
\* listens for are workspaces of its own, built and not disposed of.
THEOREM TypeCorrect == Spec => []TypeOK
<1>1. Inv => TypeOK
  BY DEF Inv
<1> QED
  BY <1>1, Invariance, PTL

\* Garbage collection never takes the directory of a workspace in use
\* (session-gc.ts:118-153), however many processes collect at once.
THEOREM LiveDirectoriesStay == Spec => []LiveSessionsKept
<1>1. Inv => LiveSessionsKept
  BY DEF Inv
<1> QED
  BY <1>1, Invariance, PTL

\* A collection that is through has removed what was abandoned before it began
\* (session-gc.ts:118-181), but for what could not be removed and temporary
\* files in ignored directories.
THEOREM CollectionsComplete == Spec => []AbandonedCollected
<1>1. Inv => AbandonedCollected
  <2> SUFFICES ASSUME Owed, NEW p \in Procs, Step(p) = "swept"
               PROVE  /\ \A d \in due[p].dirs : dir[d] = "none" \/ d \in stuck
                      /\ due[p].temps \cap temps \subseteq ignored \cup stuckTemps
    BY DEF Inv, AbandonedCollected
  <2> QED
    BY DEF Owed, OwedBy
<1> QED
  BY <1>1, Invariance, PTL

\* Disposal, and the end of a process that its listeners hear of, leave no
\* interceptor, no storage in use, and neither files in tmpfs nor a session
\* directory but those that could not be removed (lifecycle.ts:94-129,
\* workspace.ts:1702-1735), unless the workspace was used again.
THEOREM EndsAreClean == Spec => []EndsClean
<1>1. Inv => EndsClean
  <2> SUFFICES ASSUME Inv, NEW s \in built,
                      s \in disposed \/ proc[owner[s]] \in {"exited", "signalled"}
               PROVE  /\ s \in hooked \cup stored => s \in revived
                      /\ "tmpfs" \in files[s] => s \in revived \cup leaked
                      /\ dir[s] = "none" \/ s \in stuck
    BY DEF EndsClean
  <2>1. s \in emergencyCleanupCompleted
    BY DEF Inv, Flags, Registered
  <2> QED
    BY <2>1 DEF Inv, Cleaned
<1> QED
  BY <1>1, Invariance, PTL
=============================================================================
