------------------------- MODULE InterceptorProofs -------------------------
(***************************************************************************)
(* Proofs about Interceptor, for any numbers of workspaces, paths,         *)
(* descriptors and streams, and any bounds.                                *)
(*                                                                         *)
(* The inductive invariant Inv says who holds a descriptor number while    *)
(* callbacks are on their way (Holders, StreamsMatch): a number has one    *)
(* holder at most, though it is given out again as soon as it is closed.   *)
(* With that the path stored for a number can be followed through every    *)
(* open and close (MappedTrue), and so can what a wrapper knows of a       *)
(* descriptor it is not deaf to (Informed), which is what ChangesHeard     *)
(* needs together with HooksMatch.                                         *)
(***************************************************************************)
EXTENDS Interceptor, SequenceTheorems, FiniteSetTheorems, TLAPS

Flights ==
    [op : {"open", "close"}, fd : Fds \cup {None}, path : Paths, user : Streams \cup {None},
     done : BOOLEAN, via : SUBSET Workspaces, quiet : SUBSET Workspaces,
     deaf : SUBSET Workspaces]

\* The parts of TypeOK.
HookTypes ==
    /\ chain \in Seq(Workspaces) /\ kept \in [Workspaces -> Seq(Workspaces)]
    /\ installed \in [Workspaces -> BOOLEAN] /\ installs \in 0..MaxInstalls /\ lifo \in BOOLEAN

PathTypes ==
    descriptorPaths \in [Workspaces -> [Fds -> {None} \cup [path : Paths, suppressed : BOOLEAN]]]

CountTypes ==
    /\ streamPathSuppressions \in [Workspaces -> [Paths -> Nat]]
    /\ streamSuppressionOwners \subseteq Streams

FileTypes == fds \in [Fds -> FdStates] /\ at \in [Fds -> Paths \cup {None}]

FlightTypes ==
    \A x \in flights : /\ x.op \in {"open", "close"} /\ x.fd \in Fds \cup {None}
                       /\ x.path \in Paths /\ x.via \subseteq Workspaces

StreamStates ==
    [state : {"unused", "created", "opening", "open", "ended"},
     path : Paths \cup {None}, owner : Workspaces \cup {None}, fd : Fds \cup {None}]

StreamTypes == streams \in [Streams -> StreamStates]

HeardTypes ==
    /\ heard \in [Workspaces -> SUBSET Paths] /\ told \in [Streams -> SUBSET Workspaces]
    /\ missed \subseteq [who : Workspaces, how : Gaps \cup {"report"}]

DeafTypes == deaf \in [Fds -> SUBSET Workspaces] /\ stale \in [Workspaces -> SUBSET Fds]

\* Every wrapper is in the chain once.
Distinct(c) == \A j, k \in 1 .. Len(c) : c[j] = c[k] => j = k

OnceEach == lifo => Distinct(chain) /\ IsFiniteSet(Hooks)

\* A call in flight that has its number to itself: an open whose callback is to
\* run, or a close that has not run.
Holds(x) == x.fd # None /\ ~(x.op = "close" /\ x.done)

\* A number that is held is open, for the file it was opened on, and has one
\* holder.
Proper(x) ==
    /\ x.op = "open" /\ ~x.done => x.fd = None
    /\ x.op = "open" /\ x.done =>
          x.fd \in Fds /\ fds[x.fd] = [path |-> x.path, user |-> x.user]
    /\ x.op = "close" => x.fd \in Fds
    /\ x.op = "close" /\ ~x.done => fds[x.fd] # None

Holders ==
    /\ flights \subseteq Flights
    /\ \A x \in flights : Proper(x)
    /\ \A x, y \in flights : Holds(x) /\ Holds(y) /\ x.fd = y.fd => x = y

\* A stream that is open has a descriptor of its own, which nobody is closing.
Attached(s) ==
    /\ streams[s].state = "unused" => streams[s].owner = None
    /\ streams[s].state # "unused" => streams[s].path \in Paths
    /\ streams[s].state = "open" =>
          /\ streams[s].fd \in Fds
          /\ Usable(streams[s].fd)
          /\ fds[streams[s].fd] = [path |-> streams[s].path, user |-> s]

\* An open on its way for a stream is on the stream's path.
Awaited(x) ==
    x.op = "open" /\ x.user # None =>
        /\ streams[x.user].state \notin {"unused", "created"}
        /\ streams[x.user].path = x.path

StreamsMatch ==
    /\ \A s \in Streams : Attached(s)
    /\ \A x \in flights : Awaited(x)

\* The streams of w on p that have not ended.
Writing(w, p) ==
    {s \in Streams : /\ streams[s].owner = w /\ streams[s].path = p
                     /\ streams[s].state # "ended"}

FewStreams == IsFiniteSet({s \in Streams : streams[s].state # "unused"})

\* The path stored for a number is that of the file open under it, whoever
\* holds it, unless a close went past the wrapper.
MappedTrue ==
    \A w \in Workspaces, f \in Fds :
        descriptorPaths[w][f] # None /\ f \notin stale[w] =>
            fds[f] # None /\ descriptorPaths[w][f].path = fds[f].path

\* Who is not deaf to a descriptor has its path and reports it.
Knows(w, f) == descriptorPaths[w][f] = [path |-> fds[f].path, suppressed |-> FALSE]

\* Who is not deaf to an open that is on its way will store its path.
Learns(x) ==
    x.op = "open" => \A w \in Workspaces : w \notin x.deaf => w \in x.via /\ w \notin x.quiet

Informed ==
    /\ \A f \in Fds, w \in Workspaces : Usable(f) /\ w \notin deaf[f] => Knows(w, f)
    /\ \A x \in flights : Learns(x)

\* Who was told of a stream has heard its path.
Told == \A s \in Streams : \A w \in told[s] : streams[s].path \in heard[w]

Inv ==
    /\ TypeOK
    /\ OnceEach
    /\ HooksMatch
    /\ Holders
    /\ StreamsMatch
    /\ FewStreams
    /\ SuppressionEnds
    /\ MappedTrue
    /\ Informed
    /\ Told
    /\ ChangesHeard
-----------------------------------------------------------------------------
(* Facts about operators. *)

\* Without a stream of its own on a path a wrapper does not suppress it.
LEMMA QuietIsDeaf ==
    ASSUME TypeOK, SuppressionEnds, NEW p \in Paths, NEW w \in Workspaces, w \notin DeafTo(p)
    PROVE  w \in Hooks /\ w \notin IsSuppressedStreamPath(p)
<1>1. w \in Hooks /\ Writing(w, p) = {}
  BY DEF DeafTo, Writing
<1>2. streamPathSuppressions[w][p] <= Cardinality(Writing(w, p))
  BY DEF SuppressionEnds, Writing
<1>3. streamPathSuppressions[w][p] \in Nat
  BY DEF TypeOK
<1>4. streamPathSuppressions[w][p] <= 0
  BY <1>1, <1>2, FS_EmptySet
<1> QED
  BY <1>1, <1>3, <1>4 DEF IsSuppressedStreamPath
\* What calls in flight are like when they depart and when they have run.
LEMMA OpenShape ==
    ASSUME TypeOK, NEW p \in Paths, NEW u \in Streams \cup {None}
    PROVE  LET o == OpenFlight(p, u)
           IN  /\ o \in Flights /\ o.op = "open" /\ o.fd = None /\ o.path = p /\ o.user = u
               /\ ~o.done /\ o.via = Hooks /\ o.quiet = IsSuppressedStreamPath(p)
               /\ o.deaf = DeafTo(p)
<1>1. /\ Hooks \subseteq Workspaces /\ IsSuppressedStreamPath(p) \subseteq Workspaces
      /\ DeafTo(p) \subseteq Workspaces
  BY DEF TypeOK, Hooks, Range, IsSuppressedStreamPath, DeafTo
<1> QED
  BY <1>1 DEF OpenFlight, Flights

LEMMA CloseShape ==
    ASSUME TypeOK, NEW f \in Fds, fds[f] # None
    PROVE  LET o == CloseFlight(f)
           IN  o \in Flights /\ o.op = "close" /\ o.fd = f /\ ~o.done
<1>1. Hooks \subseteq Workspaces /\ fds[f].path \in Paths /\ fds[f].user \in Streams \cup {None}
  BY DEF TypeOK, FdStates, Hooks, Range
<1> QED
  BY <1>1 DEF CloseFlight, Flights

LEMMA RunShape ==
    ASSUME NEW x \in Flights, NEW f \in Fds
    PROVE  LET o == [x EXCEPT !.done = TRUE, !.fd = f]
           IN  /\ o \in Flights /\ o.op = x.op /\ o.fd = f /\ o.path = x.path
               /\ o.user = x.user /\ o.done /\ o.via = x.via /\ o.quiet = x.quiet
               /\ o.deaf = x.deaf
BY DEF Flights

LEMMA DoneShape ==
    ASSUME NEW x \in Flights
    PROVE  LET o == [x EXCEPT !.done = TRUE]
           IN  o \in Flights /\ o.op = x.op /\ o.fd = x.fd /\ o.done
BY DEF Flights

\* A number that is held is open.
LEMMA HeldIsOpen ==
    ASSUME Holders, NEW x \in flights, Holds(x)
    PROVE  x.fd \in Fds /\ fds[x.fd] # None
<1>1. x \in Flights /\ Proper(x)
  BY DEF Holders
<1>2. x.op \in {"open", "close"} /\ x.path \in Paths /\ x.user \in Streams \cup {None}
  BY <1>1 DEF Flights
<1>3. CASE x.op = "open"
  <2>1. x.done /\ x.fd \in Fds /\ fds[x.fd] = [path |-> x.path, user |-> x.user]
    BY <1>1, <1>3 DEF Proper, Holds
  <2>2. [path |-> x.path, user |-> x.user] # None
    BY <1>2, NoneAssumption
  <2> QED
    BY <2>1, <2>2
<1>4. CASE x.op = "close"
  BY <1>1, <1>4 DEF Proper, Holds
<1> QED
  BY <1>2, <1>3, <1>4
-----------------------------------------------------------------------------
(* Each part of the invariant is kept by every step. *)

\* A number keeps its holder until the holder lets go of it.
LEMMA HoldersStep ==
    ASSUME TypeOK, Holders, StreamsMatch, [Next]_vars
    PROVE  Holders'
<1> USE DEF hookVars, mapVars, fsVars, historyVars, TypeOK, Holders, Holds, Proper,
   Usable
<1>1. ASSUME NEW w \in Workspaces, Install(w)
      PROVE  Holders'
  BY <1>1, NoneAssumption DEF Install, BeginWatch
<1>2. ASSUME NEW w \in Workspaces, Uninstall(w)
      PROVE  Holders'
  BY <1>2, NoneAssumption DEF Uninstall
<1>3. ASSUME NEW w \in Workspaces, Snapshot(w)
      PROVE  Holders'
  BY <1>3, NoneAssumption DEF Snapshot, BeginWatch
<1>4. ASSUME NEW p \in Paths, PathCall(p)
      PROVE  Holders'
  BY <1>4, NoneAssumption DEF PathCall, Hear, NoteChange
<1>5. ASSUME NEW p \in Paths, OpenCall(p)
      PROVE  Holders'
  <2> DEFINE o == OpenFlight(p, None)
  <2>1. o \in Flights /\ o.op = "open" /\ o.fd = None /\ ~o.done
    BY OpenShape
  <2>2. flights' = flights \cup {o} /\ fds' = fds
    BY <1>5 DEF OpenCall, Depart
  <2> HIDE DEF o
  <2> QED
    BY <2>1, <2>2
<1>6. ASSUME NEW p \in Paths, NEW f \in Fds, OpenSync(p, f)
      PROVE  Holders'
  <2>1. \A g \in Fds : g # f => fds'[g] = fds[g]
    BY <1>6 DEF OpenSync, Opened, OpenChanges
  <2>2. fds[f] = None /\ flights' = flights
    BY <1>6 DEF OpenSync, Opened, OpenChanges, FreeFd
  <2>3. ASSUME NEW y \in flights PROVE Proper(y)'
    <3>1. y \in Flights /\ Proper(y) /\ y.op \in {"open", "close"}
      BY DEF Flights
    <3>2. Holds(y) => fds'[y.fd] = fds[y.fd]
      BY <2>1, <2>2, HeldIsOpen
    <3>3. (y.op = "open" /\ y.done => Holds(y)) /\ (y.op = "close" /\ ~y.done => Holds(y))
      BY <3>1, NoneAssumption
    <3> QED
      BY <3>1, <3>2, <3>3
  <2> QED
    BY <2>2, <2>3
<1>7. ASSUME NEW p \in Paths, NEW f \in Fds, OpenUnseen(p, f)
      PROVE  Holders'
  <2>1. \A g \in Fds : g # f => fds'[g] = fds[g]
    BY <1>7 DEF OpenUnseen, Opened
  <2>2. fds[f] = None /\ flights' = flights
    BY <1>7 DEF OpenUnseen, Opened, FreeFd
  <2>3. ASSUME NEW y \in flights PROVE Proper(y)'
    <3>1. y \in Flights /\ Proper(y) /\ y.op \in {"open", "close"}
      BY DEF Flights
    <3>2. Holds(y) => fds'[y.fd] = fds[y.fd]
      BY <2>1, <2>2, HeldIsOpen
    <3>3. (y.op = "open" /\ y.done => Holds(y)) /\ (y.op = "close" /\ ~y.done => Holds(y))
      BY <3>1, NoneAssumption
    <3> QED
      BY <3>1, <3>2, <3>3
  <2> QED
    BY <2>2, <2>3
<1>8. ASSUME NEW f \in Fds, DescriptorCall(f)
      PROVE  Holders'
  BY <1>8, NoneAssumption DEF DescriptorCall, HearOfDescriptor, NoteWrite, NoteChange
<1>9. ASSUME NEW f \in Fds, CloseSync(f)
      PROVE  Holders'
  BY <1>9, NoneAssumption DEF CloseSync, Closed, DeletePath, NoteClose
<1>10. ASSUME NEW f \in Fds, CloseUnseen(f)
       PROVE  Holders'
  BY <1>10, NoneAssumption DEF CloseUnseen, Closed, NoteClose
<1>11. ASSUME NEW f \in Fds, CloseCall(f)
       PROVE  Holders'
  <2> DEFINE o == CloseFlight(f)
  <2>1. o \in Flights /\ o.op = "close" /\ o.fd = f /\ ~o.done /\ Usable(f)
    BY <1>11, CloseShape DEF CloseCall
  <2>2. flights' = flights \cup {o} /\ fds' = fds
    BY <1>11 DEF CloseCall, Depart
  <2> HIDE DEF o
  <2> QED
    BY <2>1, <2>2
<1>12. ASSUME NEW x \in flights, OpenFails(x)
       PROVE  Holders'
  BY <1>12, NoneAssumption DEF OpenFails, Release
<1>13. ASSUME NEW x \in flights, NEW f \in Fds, OpenRuns(x, f)
       PROVE  Holders'
  <2> DEFINE o == [x EXCEPT !.done = TRUE, !.fd = f]
             r == [path |-> x.path, user |-> x.user]
  <2>1. /\ o \in Flights /\ o.op = "open" /\ o.fd = f /\ o.done
        /\ o.path = x.path /\ o.user = x.user
    <3>1. x \in Flights /\ x.op = "open"
      BY <1>13 DEF OpenRuns, Opened, OpenChanges
    <3> HIDE DEF TypeOK, Holders, Holds, Proper, Usable
    <3> QED
      BY <3>1, RunShape
  <2>2. flights' = (flights \ {x}) \cup {o} /\ fds' = [fds EXCEPT ![f] = r] /\ fds[f] = None
    BY <1>13 DEF OpenRuns, Opened, OpenChanges, FreeFd
  <2>3. fds'[f] = r /\ \A g \in Fds : g # f => fds'[g] = fds[g]
    BY <2>2
  <2>4. \A y \in flights : Holds(y) => y.fd # f
    BY <2>2, HeldIsOpen
  <2> HIDE DEF o
  <2>5. ASSUME NEW y \in flights, y # x PROVE Proper(y)'
    <3>1. y \in Flights /\ Proper(y) /\ y.op \in {"open", "close"}
      BY DEF Flights
    <3>2. Holds(y) => fds'[y.fd] = fds[y.fd]
      BY <2>3, <2>4, <2>5, HeldIsOpen
    <3>3. (y.op = "open" /\ y.done => Holds(y)) /\ (y.op = "close" /\ ~y.done => Holds(y))
      BY <3>1, NoneAssumption
    <3> QED
      BY <3>1, <3>2, <3>3
  <2>6. Proper(o)'
    BY <2>1, <2>3
  <2> QED
    BY <2>1, <2>2, <2>4, <2>5, <2>6
<1>14. ASSUME NEW x \in flights, OpenCallback(x)
       PROVE  Holders'
  BY <1>14, NoneAssumption DEF OpenCallback, SetPath
<1>15. ASSUME NEW x \in flights, CloseRuns(x)
       PROVE  Holders'
  <2> DEFINE o == [x EXCEPT !.done = TRUE]
  <2>1. o \in Flights /\ o.op = "close" /\ o.fd = x.fd /\ o.done /\ x.fd \in Fds /\ Holds(x)
    <3>1. x \in Flights /\ x.op = "close" /\ ~x.done /\ x.fd \in Fds
      BY <1>15 DEF CloseRuns, Closed
    <3>2. x.fd # None
      BY <3>1, NoneAssumption
    <3> QED
      BY <3>1, <3>2, DoneShape
  <2>2. flights' = (flights \ {x}) \cup {o} /\ fds' = [fds EXCEPT ![x.fd] = None]
    BY <1>15 DEF CloseRuns, Closed
  <2>3. \A g \in Fds : g # x.fd => fds'[g] = fds[g]
    BY <2>2
  <2>4. \A y \in flights : y # x /\ Holds(y) => y.fd # x.fd
    BY <2>1
  <2> HIDE DEF o
  <2>5. ASSUME NEW y \in flights, y # x PROVE Proper(y)'
    <3>1. y \in Flights /\ Proper(y) /\ y.op \in {"open", "close"}
      BY DEF Flights
    <3>2. Holds(y) => fds'[y.fd] = fds[y.fd]
      BY <2>3, <2>4, <2>5, HeldIsOpen
    <3>3. (y.op = "open" /\ y.done => Holds(y)) /\ (y.op = "close" /\ ~y.done => Holds(y))
      BY <3>1, NoneAssumption
    <3> QED
      BY <3>1, <3>2, <3>3
  <2>6. Proper(o)'
    BY <2>1
  <2> QED
    BY <2>1, <2>2, <2>4, <2>5, <2>6
<1>16. ASSUME NEW x \in flights, CloseCallback(x)
       PROVE  Holders'
  BY <1>16, NoneAssumption DEF CloseCallback, DeletePath
<1>17. ASSUME NEW s \in Streams, NEW p \in Paths, CreateStream(s, p)
       PROVE  Holders'
  BY <1>17, NoneAssumption DEF CreateStream, Hear, Suppressing, Owner
<1>18. ASSUME NEW s \in Streams, StreamOpens(s)
       PROVE  Holders'
  <2> DEFINE o == OpenFlight(streams[s].path, s)
  <2>1. o \in Flights /\ o.op = "open" /\ o.fd = None /\ ~o.done
    <3>1. streams[s].path \in Paths
      BY <1>18 DEF StreamOpens, StreamsMatch, Attached
    <3> QED
      BY <3>1, OpenShape
  <2>2. flights' = flights \cup {o} /\ fds' = fds
    BY <1>18 DEF StreamOpens, Depart
  <2> HIDE DEF o
  <2> QED
    BY <2>1, <2>2
<1>19. ASSUME NEW s \in Streams, StreamWrites(s)
       PROVE  Holders'
  BY <1>19, NoneAssumption DEF StreamWrites, HearOfDescriptor, NoteWrite, NoteChange
<1>20. ASSUME NEW s \in Streams, StreamEnds(s)
       PROVE  Holders'
  <2> DEFINE o == CloseFlight(streams[s].fd)
  <2>1. /\ o \in Flights /\ o.op = "close" /\ o.fd = streams[s].fd /\ ~o.done
        /\ Usable(streams[s].fd) /\ streams[s].fd \in Fds
    BY <1>20, CloseShape DEF StreamEnds, StreamsMatch, Attached
  <2>2. flights' = flights \cup {o} /\ fds' = fds
    BY <1>20 DEF StreamEnds, Depart
  <2> HIDE DEF o
  <2> QED
    BY <2>1, <2>2
<1>21. CASE UNCHANGED vars
  BY <1>21 DEF vars
<1>22. ASSUME NEW p \in Paths, Remove(p)
       PROVE  Holders'
  BY <1>22, NoneAssumption DEF Remove, Hear, NoteChange
<1>23. ASSUME NEW p \in Paths, NEW q \in Paths, Rename(p, q)
       PROVE  Holders'
  BY <1>23, NoneAssumption DEF Rename, Hear, NoteChange
<1>24. ASSUME NEW f \in Fds, WriteByNumber(f)
       PROVE  Holders'
  BY <1>24, NoneAssumption DEF WriteByNumber, NoteWrite, NoteChange
<1> HIDE DEF hookVars, mapVars, fsVars, historyVars, TypeOK, Holders, Holds, Proper,
   Usable
<1> QED
  BY <1>1, <1>2, <1>3, <1>4, <1>5, <1>6, <1>7, <1>8, <1>9, <1>10, <1>11, <1>12, <1>13,
     <1>14, <1>15, <1>16, <1>17, <1>18, <1>19, <1>20, <1>21,
     <1>22, <1>23, <1>24 DEF Next

\* A stream keeps its path and its owner through its states.
LEMMA StreamShape ==
    ASSUME TypeOK, NEW s \in Streams, NEW v
    PROVE  LET o == [streams[s] EXCEPT !.state = v]
           IN  /\ o.state = v /\ o.path = streams[s].path /\ o.owner = streams[s].owner
               /\ o.fd = streams[s].fd
<1>1. streams[s] \in [state : {"unused", "created", "opening", "open", "ended"},
                      path : Paths \cup {None}, owner : Workspaces \cup {None},
                      fd : Fds \cup {None}]
  BY DEF TypeOK
<1> QED
  BY <1>1

LEMMA OpenedShape ==
    ASSUME TypeOK, NEW s \in Streams, NEW f
    PROVE  LET o == [streams[s] EXCEPT !.state = "open", !.fd = f]
           IN  /\ o.state = "open" /\ o.path = streams[s].path
               /\ o.owner = streams[s].owner /\ o.fd = f
<1>1. streams[s] \in [state : {"unused", "created", "opening", "open", "ended"},
                      path : Paths \cup {None}, owner : Workspaces \cup {None},
                      fd : Fds \cup {None}]
  BY DEF TypeOK
<1> QED
  BY <1>1

\* The descriptor of a stream is open in its name and nobody holds it.
LEMMA OpenStream ==
    ASSUME TypeOK, StreamsMatch, NEW s \in Streams, streams[s].state = "open"
    PROVE  /\ streams[s].fd \in Fds /\ Usable(streams[s].fd)
           /\ streams[s].path \in Paths
           /\ fds[streams[s].fd] # None
           /\ fds[streams[s].fd].user = s /\ fds[streams[s].fd].path = streams[s].path
           /\ s # None
<1>1. Attached(s)
  BY DEF StreamsMatch
<1> QED
  BY <1>1, NoneAssumption DEF Attached, Usable

\* A stream is attached as long as its descriptor is left alone.
LEMMA AttachedStays ==
    ASSUME NEW s \in Streams, Attached(s),
           streams'[s] = streams[s],
           streams[s].state = "open" =>
              fds'[streams[s].fd] = fds[streams[s].fd] /\ Usable(streams[s].fd)'
    PROVE  Attached(s)'
BY DEF Attached

\* A stream keeps its descriptor until it ends.
LEMMA StreamsStep ==
    ASSUME TypeOK, Holders, StreamsMatch, [Next]_vars
    PROVE  StreamsMatch'
<1> USE DEF hookVars, mapVars, fsVars, historyVars
<1>1. ASSUME NEW w \in Workspaces, Install(w)
      PROVE  StreamsMatch'
  BY <1>1 DEF Install, StreamsMatch, Attached, Awaited, Usable
<1>2. ASSUME NEW w \in Workspaces, Uninstall(w)
      PROVE  StreamsMatch'
  BY <1>2 DEF Uninstall, StreamsMatch, Attached, Awaited, Usable
<1>3. ASSUME NEW w \in Workspaces, Snapshot(w)
      PROVE  StreamsMatch'
  BY <1>3 DEF Snapshot, StreamsMatch, Attached, Awaited, Usable
<1>4. ASSUME NEW p \in Paths, PathCall(p)
      PROVE  StreamsMatch'
  BY <1>4 DEF PathCall, StreamsMatch, Attached, Awaited, Usable
<1>5. ASSUME NEW p \in Paths, OpenCall(p)
      PROVE  StreamsMatch'
  <2> DEFINE o == OpenFlight(p, None)
  <2>0. o.op = "open" /\ o.fd = None /\ o.user = None
    BY OpenShape
  <2>1. flights' = flights \cup {o} /\ fds' = fds /\ streams' = streams
    BY <1>5 DEF OpenCall, Depart
  <2> HIDE DEF o
  <2>2. ASSUME NEW s \in Streams PROVE Attached(s)'
    <3>1. streams[s].state = "open" =>
             streams[s].fd \in Fds /\ o.fd # streams[s].fd /\ Usable(streams[s].fd)
      BY <2>0, OpenStream, NoneAssumption
    <3>2. streams[s].state = "open" =>
             fds'[streams[s].fd] = fds[streams[s].fd] /\ Usable(streams[s].fd)'
      BY <2>1, <3>1 DEF Usable
    <3>3. Attached(s)
      BY DEF StreamsMatch
    <3> QED
      BY <2>1, <3>2, <3>3, AttachedStays
  <2>3. \A y \in flights : Awaited(y)
    BY DEF StreamsMatch
  <2> QED
    BY <2>0, <2>1, <2>2, <2>3 DEF StreamsMatch, Awaited
<1>6. ASSUME NEW p \in Paths, NEW f \in Fds, OpenSync(p, f)
      PROVE  StreamsMatch'
  <2>1. /\ flights' = flights /\ streams' = streams /\ fds[f] = None
        /\ \A g \in Fds : g # f => fds'[g] = fds[g]
    BY <1>6 DEF OpenSync, Opened, OpenChanges, FreeFd
  <2>2. ASSUME NEW s \in Streams PROVE Attached(s)'
    <3>1. streams[s].state = "open" =>
             /\ streams[s].fd \in Fds /\ streams[s].fd # f /\ Usable(streams[s].fd)
      BY <2>1, OpenStream, NoneAssumption
    <3>2. streams[s].state = "open" =>
             fds'[streams[s].fd] = fds[streams[s].fd] /\ Usable(streams[s].fd)'
      BY <2>1, <3>1, NoneAssumption DEF Usable
    <3>3. Attached(s)
      BY DEF StreamsMatch
    <3> QED
      BY <2>1, <3>2, <3>3, AttachedStays
  <2>3. \A y \in flights : Awaited(y)
    BY DEF StreamsMatch
  <2> QED
    BY <2>1, <2>2, <2>3 DEF StreamsMatch, Awaited
<1>7. ASSUME NEW p \in Paths, NEW f \in Fds, OpenUnseen(p, f)
      PROVE  StreamsMatch'
  <2>1. /\ flights' = flights /\ streams' = streams /\ fds[f] = None
        /\ \A g \in Fds : g # f => fds'[g] = fds[g]
    BY <1>7 DEF OpenUnseen, Opened, FreeFd
  <2>2. ASSUME NEW s \in Streams PROVE Attached(s)'
    <3>1. streams[s].state = "open" =>
             /\ streams[s].fd \in Fds /\ streams[s].fd # f /\ Usable(streams[s].fd)
      BY <2>1, OpenStream, NoneAssumption
    <3>2. streams[s].state = "open" =>
             fds'[streams[s].fd] = fds[streams[s].fd] /\ Usable(streams[s].fd)'
      BY <2>1, <3>1, NoneAssumption DEF Usable
    <3>3. Attached(s)
      BY DEF StreamsMatch
    <3> QED
      BY <2>1, <3>2, <3>3, AttachedStays
  <2>3. \A y \in flights : Awaited(y)
    BY DEF StreamsMatch
  <2> QED
    BY <2>1, <2>2, <2>3 DEF StreamsMatch, Awaited
<1>8. ASSUME NEW f \in Fds, DescriptorCall(f)
      PROVE  StreamsMatch'
  BY <1>8 DEF DescriptorCall, StreamsMatch, Attached, Awaited, Usable
<1>9. ASSUME NEW f \in Fds, CloseSync(f)
      PROVE  StreamsMatch'
  <2>1. /\ flights' = flights /\ streams' = streams /\ fds[f].user = None
        /\ \A g \in Fds : g # f => fds'[g] = fds[g]
    BY <1>9 DEF CloseSync, Closed
  <2>2. ASSUME NEW s \in Streams PROVE Attached(s)'
    <3>1. streams[s].state = "open" =>
             /\ streams[s].fd \in Fds /\ streams[s].fd # f /\ Usable(streams[s].fd)
      BY <2>1, OpenStream, NoneAssumption
    <3>2. streams[s].state = "open" =>
             fds'[streams[s].fd] = fds[streams[s].fd] /\ Usable(streams[s].fd)'
      BY <2>1, <3>1, NoneAssumption DEF Usable
    <3>3. Attached(s)
      BY DEF StreamsMatch
    <3> QED
      BY <2>1, <3>2, <3>3, AttachedStays
  <2>3. \A y \in flights : Awaited(y)
    BY DEF StreamsMatch
  <2> QED
    BY <2>1, <2>2, <2>3 DEF StreamsMatch, Awaited
<1>10. ASSUME NEW f \in Fds, CloseUnseen(f)
       PROVE  StreamsMatch'
  <2>1. /\ flights' = flights /\ streams' = streams /\ fds[f].user = None
        /\ \A g \in Fds : g # f => fds'[g] = fds[g]
    BY <1>10 DEF CloseUnseen, Closed
  <2>2. ASSUME NEW s \in Streams PROVE Attached(s)'
    <3>1. streams[s].state = "open" =>
             /\ streams[s].fd \in Fds /\ streams[s].fd # f /\ Usable(streams[s].fd)
      BY <2>1, OpenStream, NoneAssumption
    <3>2. streams[s].state = "open" =>
             fds'[streams[s].fd] = fds[streams[s].fd] /\ Usable(streams[s].fd)'
      BY <2>1, <3>1, NoneAssumption DEF Usable
    <3>3. Attached(s)
      BY DEF StreamsMatch
    <3> QED
      BY <2>1, <3>2, <3>3, AttachedStays
  <2>3. \A y \in flights : Awaited(y)
    BY DEF StreamsMatch
  <2> QED
    BY <2>1, <2>2, <2>3 DEF StreamsMatch, Awaited
<1>11. ASSUME NEW f \in Fds, CloseCall(f)
       PROVE  StreamsMatch'
  <2> DEFINE o == CloseFlight(f)
  <2>0. o.op = "close" /\ o.fd = f /\ fds[f].user = None
    BY <1>11, CloseShape DEF CloseCall, Usable
  <2>1. flights' = flights \cup {o} /\ fds' = fds /\ streams' = streams
    BY <1>11 DEF CloseCall, Depart
  <2> HIDE DEF o
  <2>2. ASSUME NEW s \in Streams PROVE Attached(s)'
    <3>1. streams[s].state = "open" =>
             streams[s].fd \in Fds /\ o.fd # streams[s].fd /\ Usable(streams[s].fd)
      BY <2>0, OpenStream, NoneAssumption
    <3>2. streams[s].state = "open" =>
             fds'[streams[s].fd] = fds[streams[s].fd] /\ Usable(streams[s].fd)'
      BY <2>1, <3>1 DEF Usable
    <3>3. Attached(s)
      BY DEF StreamsMatch
    <3> QED
      BY <2>1, <3>2, <3>3, AttachedStays
  <2>3. \A y \in flights : Awaited(y)
    BY DEF StreamsMatch
  <2> QED
    BY <2>0, <2>1, <2>2, <2>3 DEF StreamsMatch, Awaited
<1>12. ASSUME NEW x \in flights, OpenFails(x)
       PROVE  StreamsMatch'
  <2>0. /\ x.op = "open" /\ x.user \in Streams \cup {None} /\ x \in Flights
        /\ x.user # None =>
             streams[x.user].state \notin {"unused", "created"} /\ streams[x.user].path = x.path
    BY <1>12 DEF OpenFails, Flights, Holders, StreamsMatch, Awaited
  <2>1. flights' = flights \ {x} /\ fds' = fds
    BY <1>12 DEF OpenFails
  <2>2. \A t \in Streams :
          \/ streams'[t] = streams[t]
          \/ t = x.user /\ streams'[t] = [streams[t] EXCEPT !.state = "ended"]
    BY <1>12, <2>0 DEF OpenFails, TypeOK
  <2>3. \A f \in Fds : Usable(f) => Usable(f)'
    BY <2>1 DEF Usable
  <2>4. ASSUME NEW t \in Streams
        PROVE  /\ streams'[t].path = streams[t].path /\ streams'[t].owner = streams[t].owner
               /\ \/ streams'[t] = streams[t]
                  \/ t = x.user /\ streams'[t].state = "ended"
    <3> DEFINE o == [streams[t] EXCEPT !.state = "ended"]
    <3>1. o.state = "ended" /\ o.path = streams[t].path /\ o.owner = streams[t].owner
      BY StreamShape
    <3>2. streams'[t] \in {streams[t], o} /\ (t # x.user => streams'[t] = streams[t])
      BY <2>2
    <3> HIDE DEF o
    <3> QED
      BY <3>1, <3>2
  <2>5. ASSUME NEW t \in Streams PROVE Attached(t)'
    <3>1. Attached(t)
      BY DEF StreamsMatch
    <3>2. CASE streams'[t] = streams[t]
      <4>1. streams[t].state = "open" => streams[t].fd \in Fds /\ Usable(streams[t].fd)
        BY OpenStream
      <4> QED
        BY <2>1, <2>3, <3>1, <3>2, <4>1, AttachedStays
    <3>3. CASE t = x.user /\ streams'[t].state = "ended"
      <4>1. streams[t].state # "unused" /\ streams'[t].path = streams[t].path
        BY <2>0, <2>4, <3>3, NoneAssumption
      <4> QED
        BY <3>1, <3>3, <4>1 DEF Attached
    <3> QED
      BY <2>4, <3>2, <3>3
  <2>6. ASSUME NEW y \in flights' PROVE Awaited(y)'
    <3>1. y \in flights /\ y.user \in Streams \cup {None} /\ Awaited(y)
      BY <2>1 DEF Holders, Flights, StreamsMatch
    <3> QED
      BY <2>4, <3>1 DEF Awaited
  <2> QED
    BY <2>5, <2>6 DEF StreamsMatch
<1>13. ASSUME NEW x \in flights, NEW f \in Fds, OpenRuns(x, f)
       PROVE  StreamsMatch'
  <2> DEFINE o == [x EXCEPT !.done = TRUE, !.fd = f]
  <2>0. /\ o.op = "open" /\ o.fd = f /\ o.path = x.path /\ o.user = x.user
        /\ x.op = "open" /\ x.fd = None
    <3>1. x \in Flights /\ x.op = "open" /\ ~x.done /\ Proper(x)
      BY <1>13 DEF OpenRuns, Opened, OpenChanges, Holders
    <3> QED
      BY <3>1, RunShape DEF Proper
  <2>1. /\ flights' = (flights \ {x}) \cup {o} /\ streams' = streams /\ fds[f] = None
        /\ \A g \in Fds : g # f => fds'[g] = fds[g]
    BY <1>13 DEF OpenRuns, Opened, OpenChanges, FreeFd
  <2> HIDE DEF o
  <2>2. ASSUME NEW s \in Streams PROVE Attached(s)'
    <3>1. streams[s].state = "open" =>
             streams[s].fd \in Fds /\ f # streams[s].fd /\ Usable(streams[s].fd)
      BY <2>1, OpenStream
    <3>2. streams[s].state = "open" =>
             fds'[streams[s].fd] = fds[streams[s].fd] /\ Usable(streams[s].fd)'
      BY <2>0, <2>1, <3>1 DEF Usable
    <3>3. Attached(s)
      BY DEF StreamsMatch
    <3> QED
      BY <2>1, <3>2, <3>3, AttachedStays
  <2>3. \A y \in flights : Awaited(y)
    BY DEF StreamsMatch
  <2> QED
    BY <2>0, <2>1, <2>2, <2>3 DEF StreamsMatch, Awaited
<1>14. ASSUME NEW x \in flights, OpenCallback(x)
       PROVE  StreamsMatch'
  <2>0. /\ x.op = "open" /\ x.done /\ x \in Flights /\ Proper(x) /\ Holds(x) /\ x.fd \in Fds
        /\ x.user \in Streams \cup {None} /\ x.path \in Paths
        /\ fds[x.fd] = [path |-> x.path, user |-> x.user]
        /\ x.user # None =>
             streams[x.user].state \notin {"unused", "created"} /\ streams[x.user].path = x.path
    BY <1>14, NoneAssumption
       DEF OpenCallback, Flights, Holders, StreamsMatch, Awaited, Proper, Holds
  <2>1. flights' = flights \ {x} /\ fds' = fds
    BY <1>14 DEF OpenCallback
  <2>2. \A t \in Streams :
          /\ t # x.user => streams'[t] = streams[t]
          /\ t = x.user => streams'[t] = [streams[t] EXCEPT !.state = "open", !.fd = x.fd]
    BY <1>14, <2>0, NoneAssumption DEF OpenCallback, TypeOK
  <2>3. \A f \in Fds : Usable(f) => Usable(f)'
    BY <2>1 DEF Usable
  <2>4. ASSUME NEW t \in Streams
        PROVE  /\ streams'[t].path = streams[t].path /\ streams'[t].owner = streams[t].owner
               /\ t = x.user => streams'[t].state = "open" /\ streams'[t].fd = x.fd
    <3> DEFINE o == [streams[t] EXCEPT !.state = "open", !.fd = x.fd]
    <3>1. /\ o.state = "open" /\ o.path = streams[t].path /\ o.owner = streams[t].owner
          /\ o.fd = x.fd
      BY OpenedShape
    <3>2. (t = x.user => streams'[t] = o) /\ (t # x.user => streams'[t] = streams[t])
      BY <2>2
    <3> HIDE DEF o
    <3> QED
      BY <3>1, <3>2
  <2>5. Usable(x.fd)'
    <3>1. fds[x.fd] # None
      BY <2>0, NoneAssumption
    <3>2. \A y \in flights : y # x /\ y.fd = x.fd => y.op = "close" /\ y.done
      BY <2>0, NoneAssumption DEF Holders, Holds, Flights
    <3> QED
      BY <2>1, <3>1, <3>2 DEF Usable
  <2>6. ASSUME NEW t \in Streams PROVE Attached(t)'
    <3>1. Attached(t)
      BY DEF StreamsMatch
    <3>2. CASE t # x.user
      <4>1. streams[t].state = "open" => streams[t].fd \in Fds /\ Usable(streams[t].fd)
        BY OpenStream
      <4> QED
        BY <2>1, <2>2, <2>3, <3>1, <3>2, <4>1, AttachedStays
    <3>3. CASE t = x.user
      <4>1. /\ streams'[t].path = x.path /\ streams'[t].state = "open"
            /\ streams'[t].fd = x.fd
        BY <2>0, <2>4, <3>3, NoneAssumption
      <4> QED
        BY <2>0, <2>1, <2>5, <3>3, <4>1 DEF Attached
    <3> QED
      BY <3>2, <3>3
  <2>7. ASSUME NEW y \in flights' PROVE Awaited(y)'
    <3>1. y \in flights /\ y.user \in Streams \cup {None} /\ Awaited(y)
      BY <2>1 DEF Holders, Flights, StreamsMatch
    <3> QED
      BY <2>2, <2>4, <3>1 DEF Awaited
  <2> QED
    BY <2>6, <2>7 DEF StreamsMatch
<1>15. ASSUME NEW x \in flights, CloseRuns(x)
       PROVE  StreamsMatch'
  <2> DEFINE o == [x EXCEPT !.done = TRUE]
  <2>0. o.op = "close" /\ o.fd = x.fd /\ o.done /\ x.op = "close" /\ ~x.done
    <3>1. x \in Flights /\ x.op = "close" /\ ~x.done
      BY <1>15 DEF CloseRuns, Closed, Holders
    <3> QED
      BY <3>1, DoneShape
  <2>1. /\ flights' = (flights \ {x}) \cup {o} /\ streams' = streams
        /\ \A g \in Fds : g # x.fd => fds'[g] = fds[g]
    BY <1>15 DEF CloseRuns, Closed
  <2> HIDE DEF o
  <2>2. ASSUME NEW s \in Streams PROVE Attached(s)'
    <3>1. streams[s].state = "open" =>
             streams[s].fd \in Fds /\ x.fd # streams[s].fd /\ Usable(streams[s].fd)
      BY <2>0, OpenStream DEF Usable
    <3>2. streams[s].state = "open" =>
             fds'[streams[s].fd] = fds[streams[s].fd] /\ Usable(streams[s].fd)'
      BY <2>0, <2>1, <3>1 DEF Usable
    <3>3. Attached(s)
      BY DEF StreamsMatch
    <3> QED
      BY <2>1, <3>2, <3>3, AttachedStays
  <2>3. \A y \in flights : Awaited(y)
    BY DEF StreamsMatch
  <2> QED
    BY <2>0, <2>1, <2>2, <2>3 DEF StreamsMatch, Awaited
<1>16. ASSUME NEW x \in flights, CloseCallback(x)
       PROVE  StreamsMatch'
  <2>1. flights' = flights \ {x} /\ streams' = streams /\ fds' = fds
    BY <1>16 DEF CloseCallback
  <2>2. ASSUME NEW s \in Streams PROVE Attached(s)'
    <3>1. streams[s].state = "open" =>
             /\ streams[s].fd \in Fds /\ Usable(streams[s].fd)
      BY <2>1, OpenStream, NoneAssumption
    <3>2. streams[s].state = "open" =>
             fds'[streams[s].fd] = fds[streams[s].fd] /\ Usable(streams[s].fd)'
      BY <2>1, <3>1, NoneAssumption DEF Usable
    <3>3. Attached(s)
      BY DEF StreamsMatch
    <3> QED
      BY <2>1, <3>2, <3>3, AttachedStays
  <2>3. \A y \in flights : Awaited(y)
    BY DEF StreamsMatch
  <2> QED
    BY <2>1, <2>2, <2>3 DEF StreamsMatch, Awaited
<1>17. ASSUME NEW s \in Streams, NEW p \in Paths, CreateStream(s, p)
       PROVE  StreamsMatch'
  <2>1. flights' = flights /\ fds' = fds /\ streams[s].state = "unused"
    BY <1>17 DEF CreateStream
  <2>2. \A t \in Streams : t # s => streams'[t] = streams[t]
    BY <1>17 DEF CreateStream
  <2>3. streams'[s].state = "created" /\ streams'[s].path = p
    BY <1>17 DEF CreateStream, TypeOK
  <2>4. ASSUME NEW t \in Streams, t # s PROVE Attached(t)'
    <3>1. Attached(t)
      BY DEF StreamsMatch
    <3>2. streams[t].state = "open" => streams[t].fd \in Fds /\ Usable(streams[t].fd)
      BY OpenStream
    <3> QED
      BY <2>1, <2>2, <2>4, <3>1, <3>2, AttachedStays DEF Usable
  <2>5. Attached(s)'
    BY <2>3 DEF Attached
  <2>6. ASSUME NEW y \in flights' PROVE Awaited(y)'
    <3>1. y \in flights /\ y.user \in Streams \cup {None} /\ Awaited(y)
      BY <2>1 DEF Holders, Flights, StreamsMatch
    <3> QED
      BY <2>1, <2>2, <3>1 DEF Awaited
  <2> QED
    BY <2>4, <2>5, <2>6 DEF StreamsMatch
<1>18. ASSUME NEW s \in Streams, StreamOpens(s)
       PROVE  StreamsMatch'
  <2> DEFINE o == OpenFlight(streams[s].path, s)
  <2>0. streams[s].path \in Paths /\ streams[s].state = "created"
    BY <1>18 DEF StreamOpens, StreamsMatch, Attached
  <2>1. /\ o.op = "open" /\ o.fd = None /\ o.user = s /\ o.path = streams[s].path
    BY <2>0, OpenShape
  <2>2. flights' = flights \cup {o} /\ fds' = fds
    BY <1>18 DEF StreamOpens, Depart
  <2>3. \A t \in Streams :
          /\ t # s => streams'[t] = streams[t]
          /\ t = s => streams'[t] = [streams[t] EXCEPT !.state = "opening"]
    BY <1>18 DEF StreamOpens, TypeOK
  <2> HIDE DEF o
  <2>4. ASSUME NEW t \in Streams
        PROVE  /\ streams'[t].path = streams[t].path /\ streams'[t].owner = streams[t].owner
               /\ t = s => streams'[t].state = "opening"
    <3> DEFINE r == [streams[t] EXCEPT !.state = "opening"]
    <3>1. r.state = "opening" /\ r.path = streams[t].path /\ r.owner = streams[t].owner
      BY StreamShape
    <3>2. (t = s => streams'[t] = r) /\ (t # s => streams'[t] = streams[t])
      BY <2>3
    <3> HIDE DEF r
    <3> QED
      BY <3>1, <3>2
  <2>5. ASSUME NEW t \in Streams PROVE Attached(t)'
    <3>1. Attached(t)
      BY DEF StreamsMatch
    <3>2. CASE t # s
      <4>1. streams[t].state = "open" => streams[t].fd \in Fds /\ Usable(streams[t].fd)
        BY OpenStream
      <4>2. streams[t].state = "open" => Usable(streams[t].fd)'
        BY <2>1, <2>2, <2>3, <3>2, <4>1, NoneAssumption DEF Usable
      <4> QED
        BY <2>2, <2>3, <3>1, <3>2, <4>2, AttachedStays
    <3>3. CASE t = s
      BY <2>0, <2>4, <3>3 DEF Attached
    <3> QED
      BY <3>2, <3>3
  <2>6. ASSUME NEW y \in flights' PROVE Awaited(y)'
    <3>1. CASE y = o
      BY <2>1, <2>4, <3>1 DEF Awaited
    <3>2. CASE y \in flights
      <4>1. y.user \in Streams \cup {None} /\ Awaited(y)
        BY <3>2 DEF Holders, Flights, StreamsMatch
      <4> QED
        BY <2>0, <2>3, <2>4, <4>1 DEF Awaited
    <3> QED
      BY <2>2, <3>1, <3>2
  <2> QED
    BY <2>5, <2>6 DEF StreamsMatch
<1>19. ASSUME NEW s \in Streams, StreamWrites(s)
       PROVE  StreamsMatch'
  BY <1>19 DEF StreamWrites, StreamsMatch, Attached, Awaited, Usable
<1>20. ASSUME NEW s \in Streams, StreamEnds(s)
       PROVE  StreamsMatch'
  <2> DEFINE o == CloseFlight(streams[s].fd)
  <2>0. streams[s].state = "open"
    BY <1>20 DEF StreamEnds
  <2>1. o.op = "close" /\ o.fd = streams[s].fd /\ fds[streams[s].fd].user = s
    <3>1. /\ streams[s].fd \in Fds /\ fds[streams[s].fd] # None
          /\ fds[streams[s].fd].user = s
      BY <2>0, OpenStream
    <3> QED
      BY <3>1, CloseShape
  <2>2. flights' = flights \cup {o} /\ fds' = fds
    BY <1>20 DEF StreamEnds, Depart
  <2>3. \A t \in Streams :
          /\ t # s => streams'[t] = streams[t]
          /\ t = s => streams'[t] = [streams[t] EXCEPT !.state = "ended"]
    BY <1>20 DEF StreamEnds, TypeOK
  <2> HIDE DEF o
  <2>4. ASSUME NEW t \in Streams
        PROVE  /\ streams'[t].path = streams[t].path /\ streams'[t].owner = streams[t].owner
               /\ t = s => streams'[t].state = "ended"
    <3> DEFINE r == [streams[t] EXCEPT !.state = "ended"]
    <3>1. r.state = "ended" /\ r.path = streams[t].path /\ r.owner = streams[t].owner
      BY StreamShape
    <3>2. (t = s => streams'[t] = r) /\ (t # s => streams'[t] = streams[t])
      BY <2>3
    <3> HIDE DEF r
    <3> QED
      BY <3>1, <3>2
  <2>5. ASSUME NEW t \in Streams PROVE Attached(t)'
    <3>1. Attached(t)
      BY DEF StreamsMatch
    <3>2. CASE t # s
      <4>1. streams[t].state = "open" =>
              /\ streams[t].fd \in Fds /\ Usable(streams[t].fd)
              /\ streams[t].fd # streams[s].fd
        BY <2>1, <3>2, OpenStream
      <4>2. streams[t].state = "open" => Usable(streams[t].fd)'
        BY <2>1, <2>2, <2>3, <3>2, <4>1, NoneAssumption DEF Usable
      <4> QED
        BY <2>2, <2>3, <3>1, <3>2, <4>2, AttachedStays
    <3>3. CASE t = s
      BY <2>0, <2>4, <3>1, <3>3 DEF Attached
    <3> QED
      BY <3>2, <3>3
  <2>6. ASSUME NEW y \in flights' PROVE Awaited(y)'
    <3>1. CASE y = o
      BY <2>1, <3>1 DEF Awaited
    <3>2. CASE y \in flights
      <4>1. y.user \in Streams \cup {None} /\ Awaited(y)
        BY <3>2 DEF Holders, Flights, StreamsMatch
      <4> QED
        BY <2>0, <2>3, <2>4, <4>1 DEF Awaited
    <3> QED
      BY <2>2, <3>1, <3>2
  <2> QED
    BY <2>5, <2>6 DEF StreamsMatch
<1>21. CASE UNCHANGED vars
  BY <1>21 DEF vars, StreamsMatch, Attached, Awaited, Usable
<1>22. ASSUME NEW p \in Paths, Remove(p)
       PROVE  StreamsMatch'
  BY <1>22 DEF Remove, StreamsMatch, Attached, Awaited, Usable
<1>23. ASSUME NEW p \in Paths, NEW q \in Paths, Rename(p, q)
       PROVE  StreamsMatch'
  BY <1>23 DEF Rename, StreamsMatch, Attached, Awaited, Usable
<1>24. ASSUME NEW f \in Fds, WriteByNumber(f)
       PROVE  StreamsMatch'
  BY <1>24 DEF WriteByNumber, StreamsMatch, Attached, Awaited, Usable
<1> HIDE DEF hookVars, mapVars, fsVars, historyVars
<1> QED
  BY <1>1, <1>2, <1>3, <1>4, <1>5, <1>6, <1>7, <1>8, <1>9, <1>10, <1>11, <1>12, <1>13,
     <1>14, <1>15, <1>16, <1>17, <1>18, <1>19, <1>20, <1>21,
     <1>22, <1>23, <1>24 DEF Next

\* What the wrappers in via store for a number.
\* What storing a path for a number does to what is stored.
Stored(via, f, p, quiet) ==
    \A w \in Workspaces, g \in Fds :
       /\ w \in via /\ g = f => descriptorPaths'[w][g].path = p /\ g \notin stale'[w]
       /\ w \in via /\ g = f /\ w \notin quiet =>
             descriptorPaths'[w][g] = [path |-> p, suppressed |-> FALSE]
       /\ ~(w \in via /\ g = f) => /\ descriptorPaths'[w][g] = descriptorPaths[w][g]
                                   /\ g \in stale'[w] <=> g \in stale[w]

LEMMA SetPathShape ==
    ASSUME TypeOK, NEW via, NEW f \in Fds, NEW p, NEW quiet, SetPath(via, f, p, quiet)
    PROVE  Stored(via, f, p, quiet)
<1> SUFFICES
      ASSUME NEW w \in Workspaces, NEW g \in Fds
      PROVE  /\ w \in via /\ g = f => descriptorPaths'[w][g].path = p /\ g \notin stale'[w]
             /\ w \in via /\ g = f /\ w \notin quiet =>
                   descriptorPaths'[w][g] = [path |-> p, suppressed |-> FALSE]
             /\ ~(w \in via /\ g = f) => /\ descriptorPaths'[w][g] = descriptorPaths[w][g]
                                         /\ g \in stale'[w] <=> g \in stale[w]
  BY DEF Stored
<1> DEFINE q == w \in quiet
<1>1. descriptorPaths[w] \in [Fds -> {None} \cup [path : Paths, suppressed : BOOLEAN]]
  BY DEF TypeOK
<1>2. CASE w \in via
  <2>1. descriptorPaths'[w] = [descriptorPaths[w] EXCEPT ![f] = [path |-> p, suppressed |-> q]]
    BY <1>2 DEF SetPath
  <2>2. q \in BOOLEAN /\ (w \notin quiet => q = FALSE)
    OBVIOUS
  <2>3. stale'[w] = stale[w] \ {f}
    BY <1>2 DEF SetPath
  <2> HIDE DEF q
  <2>4. \A h \in Fds :
          descriptorPaths'[w][h] =
            IF h = f THEN [path |-> p, suppressed |-> q] ELSE descriptorPaths[w][h]
    BY <1>1, <2>1
  <2>5. [path |-> p, suppressed |-> q].path = p
    OBVIOUS
  <2> QED
    BY <1>2, <2>2, <2>3, <2>4, <2>5
<1>3. CASE w \notin via
  BY <1>3 DEF SetPath
<1> QED
  BY <1>2, <1>3

LEMMA DeletePathShape ==
    ASSUME TypeOK, NEW via, NEW f \in Fds, DeletePath(via, f)
    PROVE  \A w \in Workspaces, g \in Fds :
             descriptorPaths'[w][g] =
               IF w \in via /\ g = f THEN None ELSE descriptorPaths[w][g]
BY DEF DeletePath, TypeOK

\* A call whose open has run holds the number of its file.
LEMMA OpenHolder ==
    ASSUME Holders, NEW x \in flights, x.op = "open", x.done
    PROVE  /\ x \in Flights /\ x.fd \in Fds /\ x.path \in Paths
           /\ fds[x.fd] # None /\ fds[x.fd].path = x.path
<1>1. x \in Flights /\ Proper(x)
  BY DEF Holders
<1>2. /\ x.fd \in Fds /\ fds[x.fd] = [path |-> x.path, user |-> x.user]
      /\ x.path \in Paths /\ x.user \in Streams \cup {None}
  BY <1>1 DEF Proper, Flights
<1>3. [path |-> x.path, user |-> x.user] # None
  BY <1>2, NoneAssumption
<1> QED
  BY <1>1, <1>2, <1>3

\* What is stored for a number is kept true, or is on record as stale.
LEMMA MappedStep ==
    ASSUME TypeOK, Holders, MappedTrue, [Next]_vars
    PROVE  MappedTrue'
<1> USE DEF hookVars, mapVars, fsVars, historyVars, TypeOK, Holders, MappedTrue, Holds,
   Proper, Flights
<1>1. ASSUME NEW w \in Workspaces, Install(w)
      PROVE  MappedTrue'
  BY <1>1, NoneAssumption DEF Install, BeginWatch
<1>2. ASSUME NEW w \in Workspaces, Uninstall(w)
      PROVE  MappedTrue'
  BY <1>2, NoneAssumption DEF Uninstall, NoPaths
<1>3. ASSUME NEW w \in Workspaces, Snapshot(w)
      PROVE  MappedTrue'
  BY <1>3, NoneAssumption DEF Snapshot, BeginWatch
<1>4. ASSUME NEW p \in Paths, PathCall(p)
      PROVE  MappedTrue'
  BY <1>4, NoneAssumption DEF PathCall, Hear, NoteChange
<1>5. ASSUME NEW p \in Paths, OpenCall(p)
      PROVE  MappedTrue'
  BY <1>5, NoneAssumption DEF OpenCall, Depart, OpenFlight
<1>6. ASSUME NEW p \in Paths, NEW f \in Fds, OpenSync(p, f)
      PROVE  MappedTrue'
  BY <1>6, NoneAssumption DEF OpenSync, Opened, OpenChanges, FreeFd, SetPath
<1>7. ASSUME NEW p \in Paths, NEW f \in Fds, OpenUnseen(p, f)
      PROVE  MappedTrue'
  BY <1>7, NoneAssumption DEF OpenUnseen, Opened, FreeFd
<1>8. ASSUME NEW f \in Fds, DescriptorCall(f)
      PROVE  MappedTrue'
  BY <1>8, NoneAssumption DEF DescriptorCall, HearOfDescriptor, NoteWrite, NoteChange
<1>9. ASSUME NEW f \in Fds, CloseSync(f)
      PROVE  MappedTrue'
  BY <1>9, NoneAssumption DEF CloseSync, Closed, DeletePath, NoteClose
<1>10. ASSUME NEW f \in Fds, CloseUnseen(f)
       PROVE  MappedTrue'
  BY <1>10, NoneAssumption DEF CloseUnseen, Closed, NoteClose
<1>11. ASSUME NEW f \in Fds, CloseCall(f)
       PROVE  MappedTrue'
  BY <1>11, NoneAssumption DEF CloseCall, Depart, CloseFlight
<1>12. ASSUME NEW x \in flights, OpenFails(x)
       PROVE  MappedTrue'
  BY <1>12, NoneAssumption DEF OpenFails, Release
<1>13. ASSUME NEW x \in flights, NEW f \in Fds, OpenRuns(x, f)
       PROVE  MappedTrue'
  BY <1>13, NoneAssumption DEF OpenRuns, Opened, OpenChanges, FreeFd
<1>14. ASSUME NEW x \in flights, OpenCallback(x)
       PROVE  MappedTrue'
  <2> HIDE DEF TypeOK, Holders, MappedTrue
  <2>1. /\ x.fd \in Fds /\ fds[x.fd] # None /\ fds[x.fd].path = x.path
        /\ SetPath(x.via, x.fd, x.path, x.quiet) /\ fds' = fds
    BY <1>14, OpenHolder DEF OpenCallback
  <2>2. Stored(x.via, x.fd, x.path, x.quiet)
    BY <2>1, SetPathShape
  <2>3. ASSUME NEW w \in Workspaces, NEW g \in Fds,
               descriptorPaths'[w][g] # None, g \notin stale'[w]
        PROVE  fds'[g] # None /\ descriptorPaths'[w][g].path = fds'[g].path
    BY <2>1, <2>2, <2>3 DEF MappedTrue, Stored
  <2> QED
    BY <2>3 DEF MappedTrue
<1>15. ASSUME NEW x \in flights, CloseRuns(x)
       PROVE  MappedTrue'
  BY <1>15, NoneAssumption DEF CloseRuns, Closed, NoteClose
<1>16. ASSUME NEW x \in flights, CloseCallback(x)
       PROVE  MappedTrue'
  BY <1>16, NoneAssumption DEF CloseCallback, DeletePath
<1>17. ASSUME NEW s \in Streams, NEW p \in Paths, CreateStream(s, p)
       PROVE  MappedTrue'
  BY <1>17, NoneAssumption DEF CreateStream, Hear, Suppressing, Owner
<1>18. ASSUME NEW s \in Streams, StreamOpens(s)
       PROVE  MappedTrue'
  BY <1>18, NoneAssumption DEF StreamOpens, Depart, OpenFlight
<1>19. ASSUME NEW s \in Streams, StreamWrites(s)
       PROVE  MappedTrue'
  BY <1>19, NoneAssumption DEF StreamWrites, HearOfDescriptor, NoteWrite, NoteChange
<1>20. ASSUME NEW s \in Streams, StreamEnds(s)
       PROVE  MappedTrue'
  BY <1>20, NoneAssumption DEF StreamEnds, Release, Depart, CloseFlight
<1>21. CASE UNCHANGED vars
  BY <1>21 DEF vars
<1>22. ASSUME NEW p \in Paths, Remove(p)
       PROVE  MappedTrue'
  BY <1>22, NoneAssumption DEF Remove, Hear, NoteChange
<1>23. ASSUME NEW p \in Paths, NEW q \in Paths, Rename(p, q)
       PROVE  MappedTrue'
  BY <1>23, NoneAssumption DEF Rename, Hear, NoteChange
<1>24. ASSUME NEW f \in Fds, WriteByNumber(f)
       PROVE  MappedTrue'
  BY <1>24, NoneAssumption DEF WriteByNumber, NoteWrite, NoteChange
<1> HIDE DEF hookVars, mapVars, fsVars, historyVars, TypeOK, Holders, MappedTrue, Holds,
   Proper, Flights
<1> QED
  BY <1>1, <1>2, <1>3, <1>4, <1>5, <1>6, <1>7, <1>8, <1>9, <1>10, <1>11, <1>12, <1>13,
     <1>14, <1>15, <1>16, <1>17, <1>18, <1>19, <1>20, <1>21,
     <1>22, <1>23, <1>24 DEF Next

\* Who is informed of a descriptor stays informed or becomes deaf to it.
LEMMA InformedStep ==
    ASSUME TypeOK, Holders, StreamsMatch, SuppressionEnds, Informed, [Next]_vars
    PROVE  Informed'
<1> USE DEF hookVars, mapVars, fsVars, historyVars
<1>1. ASSUME NEW w \in Workspaces, Install(w)
      PROVE  Informed'
  BY <1>1 DEF Install, BeginWatch, Informed, Knows, Learns, Usable
<1>2. ASSUME NEW w \in Workspaces, Uninstall(w)
      PROVE  Informed'
  <2>1. /\ \A g \in Fds : Usable(g) => deaf'[g] = deaf[g] \cup {w}
        /\ \A v \in Workspaces : v # w => descriptorPaths'[v] = descriptorPaths[v]
        /\ fds' = fds /\ flights' = flights
    BY <1>2 DEF Uninstall, TypeOK, Usable
  <2> QED
    BY <2>1 DEF Informed, Knows, Learns, Usable
<1>3. ASSUME NEW w \in Workspaces, Snapshot(w)
      PROVE  Informed'
  BY <1>3 DEF Snapshot, BeginWatch, Informed, Knows, Learns, Usable
<1>4. ASSUME NEW p \in Paths, PathCall(p)
      PROVE  Informed'
  BY <1>4 DEF PathCall, Hear, Informed, Knows, Learns, Usable
<1>5. ASSUME NEW p \in Paths, OpenCall(p)
      PROVE  Informed'
  <2> DEFINE o == OpenFlight(p, None)
  <2>1. p \in Paths
    OBVIOUS
  <2>2. /\ o.op = "open" /\ o.fd = None /\ o.via = Hooks
        /\ o.quiet = IsSuppressedStreamPath(p) /\ o.deaf = DeafTo(p)
    BY <2>1, OpenShape
  <2>3. /\ flights' = flights \cup {o} /\ fds' = fds /\ deaf' = deaf
        /\ descriptorPaths' = descriptorPaths
    BY <1>5 DEF OpenCall, Depart
  <2> HIDE DEF o
  <2>4. Learns(o)
    BY <2>1, <2>2, QuietIsDeaf DEF Learns
  <2>5. \A g \in Fds : Usable(g)' => Usable(g)
    BY <2>3 DEF Usable
  <2> QED
    BY <2>3, <2>4, <2>5 DEF Informed, Knows, Learns
<1>6. ASSUME NEW p \in Paths, NEW f \in Fds, OpenSync(p, f)
      PROVE  Informed'
  <2>1. /\ fds'[f] = [path |-> p, user |-> None] /\ fds[f] = None
        /\ \A g \in Fds : g # f => fds'[g] = fds[g] /\ deaf'[g] = deaf[g]
        /\ deaf'[f] = DeafTo(p) /\ flights' = flights
        /\ SetPath(Hooks, f, p, IsSuppressedStreamPath(p))
    BY <1>6 DEF OpenSync, Opened, OpenChanges, FreeFd, TypeOK
  <2>2. \A w \in Workspaces :
          /\ \A g \in Fds : g # f => descriptorPaths'[w][g] = descriptorPaths[w][g]
          /\ w \in Hooks /\ w \notin IsSuppressedStreamPath(p) =>
                descriptorPaths'[w][f] = [path |-> p, suppressed |-> FALSE]
    <3>1. Stored(Hooks, f, p, IsSuppressedStreamPath(p))
      BY <2>1, SetPathShape
    <3> QED
      BY <3>1 DEF Stored
  <2>3. \A g \in Fds : g # f /\ Usable(g)' => Usable(g)
    BY <2>1 DEF Usable
  <2>4. ASSUME NEW w \in Workspaces, w \notin DeafTo(p) PROVE Knows(w, f)'
    <3>1. w \in Hooks /\ w \notin IsSuppressedStreamPath(p)
      BY <2>4, QuietIsDeaf
    <3>2. fds'[f].path = p
      BY <2>1
    <3>3. descriptorPaths'[w][f] = [path |-> p, suppressed |-> FALSE]
      BY <2>2, <3>1
    <3> QED
      BY <3>2, <3>3 DEF Knows
  <2>5. \A g \in Fds, w \in Workspaces : g # f => (Knows(w, g)' <=> Knows(w, g))
    BY <2>1, <2>2 DEF Knows
  <2> QED
    BY <2>1, <2>3, <2>4, <2>5 DEF Informed, Learns
<1>7. ASSUME NEW p \in Paths, NEW f \in Fds, OpenUnseen(p, f)
      PROVE  Informed'
  <2>1. /\ flights' = flights /\ deaf'[f] = Workspaces /\ descriptorPaths' = descriptorPaths
        /\ \A g \in Fds : g # f => fds'[g] = fds[g] /\ deaf'[g] = deaf[g]
    BY <1>7 DEF OpenUnseen, Opened, TypeOK
  <2> QED
    BY <2>1 DEF Informed, Knows, Learns, Usable
<1>8. ASSUME NEW f \in Fds, DescriptorCall(f)
      PROVE  Informed'
  BY <1>8 DEF DescriptorCall, Informed, Knows, Learns, Usable
<1>9. ASSUME NEW f \in Fds, CloseSync(f)
      PROVE  Informed'
  <2>1. /\ flights' = flights /\ deaf' = deaf /\ fds'[f] = None
        /\ \A g \in Fds : g # f => fds'[g] = fds[g]
        /\ \A w \in Workspaces, g \in Fds :
              g # f => descriptorPaths'[w][g] = descriptorPaths[w][g]
    BY <1>9 DEF CloseSync, Closed, DeletePath, TypeOK
  <2> QED
    BY <2>1 DEF Informed, Knows, Learns, Usable
<1>10. ASSUME NEW f \in Fds, CloseUnseen(f)
       PROVE  Informed'
  <2>1. /\ flights' = flights /\ deaf' = deaf /\ fds'[f] = None
        /\ \A g \in Fds : g # f => fds'[g] = fds[g]
        /\ \A w \in Workspaces, g \in Fds :
              g # f => descriptorPaths'[w][g] = descriptorPaths[w][g]
    BY <1>10 DEF CloseUnseen, Closed, DeletePath, TypeOK
  <2> QED
    BY <2>1 DEF Informed, Knows, Learns, Usable
<1>11. ASSUME NEW f \in Fds, CloseCall(f)
       PROVE  Informed'
  <2> DEFINE o == CloseFlight(f)
  <2>1. o.op = "close" /\ o.fd = f
    BY <1>11, CloseShape DEF CloseCall, Usable
  <2>2. /\ flights' = flights \cup {o} /\ fds' = fds /\ deaf' = deaf
        /\ descriptorPaths' = descriptorPaths
    BY <1>11 DEF CloseCall, Depart
  <2> HIDE DEF o
  <2>3. \A g \in Fds : Usable(g)' => Usable(g)
    BY <2>2 DEF Usable
  <2> QED
    BY <2>1, <2>2, <2>3 DEF Informed, Knows, Learns
<1>12. ASSUME NEW x \in flights, OpenFails(x)
       PROVE  Informed'
  <2>1. /\ x.fd = None /\ flights' = flights \ {x} /\ fds' = fds /\ deaf' = deaf
        /\ descriptorPaths' = descriptorPaths
    BY <1>12 DEF OpenFails, Holders, Proper
  <2>2. \A g \in Fds : Usable(g)' => Usable(g)
    BY <2>1, NoneAssumption DEF Usable
  <2> QED
    BY <2>1, <2>2 DEF Informed, Knows, Learns
<1>13. ASSUME NEW x \in flights, NEW f \in Fds, OpenRuns(x, f)
       PROVE  Informed'
  <2> DEFINE o == [x EXCEPT !.done = TRUE, !.fd = f]
  <2>1. /\ o.op = "open" /\ o.fd = f /\ o.via = x.via /\ o.quiet = x.quiet /\ o.deaf = x.deaf
        /\ x.op = "open" /\ x.fd = None
    <3>1. x \in Flights /\ x.op = "open" /\ ~x.done /\ Proper(x)
      BY <1>13 DEF OpenRuns, Opened, OpenChanges, Holders
    <3> QED
      BY <3>1, RunShape DEF Proper
  <2>2. /\ flights' = (flights \ {x}) \cup {o} /\ deaf' = deaf
        /\ \A g \in Fds : g # f => fds'[g] = fds[g]
        /\ descriptorPaths' = descriptorPaths
    BY <1>13 DEF OpenRuns, Opened, OpenChanges
  <2> HIDE DEF o
  <2>3. ~Usable(f)' /\ \A g \in Fds : g # f /\ Usable(g)' => Usable(g)
    BY <2>1, <2>2, NoneAssumption DEF Usable
  <2>4. Learns(o)
    BY <2>1 DEF Informed, Learns
  <2> QED
    BY <2>2, <2>3, <2>4 DEF Informed, Knows, Learns
<1>14. ASSUME NEW x \in flights, OpenCallback(x)
       PROVE  Informed'
  <2>1. /\ x.fd \in Fds /\ fds[x.fd] # None /\ fds[x.fd].path = x.path
        /\ SetPath(x.via, x.fd, x.path, x.quiet) /\ fds' = fds /\ flights' = flights \ {x}
        /\ x.op = "open" /\ x.done
    BY <1>14, OpenHolder DEF OpenCallback
  <2>2. \A w \in Workspaces :
          /\ \A g \in Fds : g # x.fd => descriptorPaths'[w][g] = descriptorPaths[w][g]
          /\ w \in x.via /\ w \notin x.quiet =>
                descriptorPaths'[w][x.fd] = [path |-> x.path, suppressed |-> FALSE]
    <3>1. Stored(x.via, x.fd, x.path, x.quiet)
      BY <2>1, SetPathShape
    <3> QED
      BY <2>1, <3>1 DEF Stored
  <2>3. deaf'[x.fd] = x.deaf /\ \A g \in Fds : g # x.fd => deaf'[g] = deaf[g]
    BY <1>14, <2>1 DEF OpenCallback, TypeOK
  <2>4. \A g \in Fds : g # x.fd /\ Usable(g)' => Usable(g)
    BY <2>1 DEF Usable
  <2>5. ASSUME NEW w \in Workspaces, w \notin x.deaf PROVE Knows(w, x.fd)'
    <3>1. w \in x.via /\ w \notin x.quiet
      BY <2>1, <2>5 DEF Informed, Learns
    <3> QED
      BY <2>1, <2>2, <3>1 DEF Knows
  <2>6. \A g \in Fds, w \in Workspaces : g # x.fd => (Knows(w, g)' <=> Knows(w, g))
    BY <2>1, <2>2 DEF Knows
  <2>7. \A y \in flights' : Learns(y)
    BY <2>1 DEF Informed
  <2>8. \A g \in Fds, w \in Workspaces : Usable(g)' /\ w \notin deaf'[g] => Knows(w, g)'
    BY <2>3, <2>4, <2>5, <2>6 DEF Informed
  <2> QED
    BY <2>7, <2>8 DEF Informed, Learns
<1>15. ASSUME NEW x \in flights, CloseRuns(x)
       PROVE  Informed'
  <2> DEFINE o == [x EXCEPT !.done = TRUE]
  <2>1. o.op = "close" /\ o.fd = x.fd /\ x.fd \in Fds
    <3>1. x \in Flights /\ x.op = "close" /\ x.fd \in Fds
      BY <1>15 DEF CloseRuns, Closed, Holders, Proper
    <3> QED
      BY <3>1, DoneShape
  <2>2. /\ flights' = (flights \ {x}) \cup {o} /\ deaf' = deaf
        /\ \A g \in Fds : g # x.fd => fds'[g] = fds[g]
        /\ fds'[x.fd] = None /\ descriptorPaths' = descriptorPaths
    BY <1>15, <2>1 DEF CloseRuns, Closed, TypeOK
  <2> HIDE DEF o
  <2>3. \A g \in Fds : Usable(g)' => Usable(g) /\ g # x.fd
    BY <2>1, <2>2 DEF Usable
  <2> QED
    BY <2>1, <2>2, <2>3 DEF Informed, Knows, Learns
<1>16. ASSUME NEW x \in flights, CloseCallback(x)
       PROVE  Informed'
  <2>1. /\ x.fd \in Fds /\ fds' = fds /\ flights' = flights \ {x}
        /\ DeletePath(x.via, x.fd) /\ x.op = "close" /\ x.done
    BY <1>16 DEF CloseCallback, Holders, Proper
  <2>2. \A w \in Workspaces, g \in Fds :
          descriptorPaths'[w][g] =
            IF w \in x.via /\ g = x.fd THEN None ELSE descriptorPaths[w][g]
    BY <2>1, DeletePathShape
  <2>3. \A g \in Fds : Usable(g)' => Usable(g)
    BY <2>1 DEF Usable
  <2>4. \A g \in Fds : Usable(g) =>
          deaf'[g] = IF g = x.fd THEN deaf[g] \cup x.via ELSE deaf[g]
    BY <1>16, <2>1 DEF CloseCallback, TypeOK
  <2>5. ASSUME NEW g \in Fds, NEW w \in Workspaces, Usable(g)', w \notin deaf'[g]
        PROVE  Knows(w, g)'
    <3>1. Knows(w, g) /\ ~(w \in x.via /\ g = x.fd)
      BY <2>3, <2>4, <2>5 DEF Informed
    <3> QED
      BY <2>1, <2>2, <3>1 DEF Knows
  <2>6. \A y \in flights' : Learns(y)
    BY <2>1 DEF Informed
  <2> QED
    BY <2>5, <2>6 DEF Informed, Learns
<1>17. ASSUME NEW s \in Streams, NEW p \in Paths, CreateStream(s, p)
       PROVE  Informed'
  BY <1>17 DEF CreateStream, Informed, Knows, Learns, Usable
<1>18. ASSUME NEW s \in Streams, StreamOpens(s)
       PROVE  Informed'
  <2> DEFINE o == OpenFlight(streams[s].path, s)
  <2>1. streams[s].path \in Paths
    BY <1>18 DEF StreamOpens, StreamsMatch, Attached
  <2>2. /\ o.op = "open" /\ o.fd = None /\ o.via = Hooks
        /\ o.quiet = IsSuppressedStreamPath(streams[s].path) /\ o.deaf = DeafTo(streams[s].path)
    BY <2>1, OpenShape
  <2>3. /\ flights' = flights \cup {o} /\ fds' = fds /\ deaf' = deaf
        /\ descriptorPaths' = descriptorPaths
    BY <1>18 DEF StreamOpens, Depart
  <2> HIDE DEF o
  <2>4. Learns(o)
    BY <2>1, <2>2, QuietIsDeaf DEF Learns
  <2>5. \A g \in Fds : Usable(g)' => Usable(g)
    BY <2>3 DEF Usable
  <2> QED
    BY <2>3, <2>4, <2>5 DEF Informed, Knows, Learns
<1>19. ASSUME NEW s \in Streams, StreamWrites(s)
       PROVE  Informed'
  BY <1>19 DEF StreamWrites, Informed, Knows, Learns, Usable
<1>20. ASSUME NEW s \in Streams, StreamEnds(s)
       PROVE  Informed'
  <2> DEFINE o == CloseFlight(streams[s].fd)
  <2>1. o.op = "close"
    <3>1. streams[s].fd \in Fds /\ fds[streams[s].fd] # None
      BY <1>20, OpenStream DEF StreamEnds
    <3> QED
      BY <3>1, CloseShape
  <2>2. /\ flights' = flights \cup {o} /\ fds' = fds /\ deaf' = deaf
        /\ descriptorPaths' = descriptorPaths
    BY <1>20 DEF StreamEnds, Depart
  <2> HIDE DEF o
  <2>3. \A g \in Fds : Usable(g)' => Usable(g)
    BY <2>2 DEF Usable
  <2> QED
    BY <2>1, <2>2, <2>3 DEF Informed, Knows, Learns
<1>21. CASE UNCHANGED vars
  BY <1>21 DEF vars, Informed, Knows, Learns, Usable
<1>22. ASSUME NEW p \in Paths, Remove(p)
       PROVE  Informed'
  BY <1>22 DEF Remove, Hear, Informed, Knows, Learns, Usable
<1>23. ASSUME NEW p \in Paths, NEW q \in Paths, Rename(p, q)
       PROVE  Informed'
  BY <1>23 DEF Rename, Hear, Informed, Knows, Learns, Usable
<1>24. ASSUME NEW f \in Fds, WriteByNumber(f)
       PROVE  Informed'
  BY <1>24 DEF WriteByNumber, Informed, Knows, Learns, Usable
<1> HIDE DEF hookVars, mapVars, fsVars, historyVars
<1> QED
  BY <1>1, <1>2, <1>3, <1>4, <1>5, <1>6, <1>7, <1>8, <1>9, <1>10, <1>11, <1>12, <1>13,
     <1>14, <1>15, <1>16, <1>17, <1>18, <1>19, <1>20, <1>21,
     <1>22, <1>23, <1>24 DEF Next

\* What was heard of a stream is heard until the next watch begins.
LEMMA ToldStep ==
    ASSUME TypeOK, Holders, StreamsMatch, Told, [Next]_vars
    PROVE  Told'
<1> USE DEF hookVars, mapVars, fsVars, historyVars, TypeOK, Told
<1>1. ASSUME NEW w \in Workspaces, Install(w)
      PROVE  Told'
  BY <1>1, NoneAssumption DEF Install, BeginWatch
<1>2. ASSUME NEW w \in Workspaces, Uninstall(w)
      PROVE  Told'
  BY <1>2, NoneAssumption DEF Uninstall
<1>3. ASSUME NEW w \in Workspaces, Snapshot(w)
      PROVE  Told'
  BY <1>3, NoneAssumption DEF Snapshot, BeginWatch
<1>4. ASSUME NEW p \in Paths, PathCall(p)
      PROVE  Told'
  BY <1>4, NoneAssumption DEF PathCall, Hear, NoteChange
<1>5. ASSUME NEW p \in Paths, OpenCall(p)
      PROVE  Told'
  BY <1>5, NoneAssumption DEF OpenCall, Depart, OpenFlight
<1>6. ASSUME NEW p \in Paths, NEW f \in Fds, OpenSync(p, f)
      PROVE  Told'
  BY <1>6, NoneAssumption DEF OpenSync, Opened, OpenChanges, FreeFd, SetPath
<1>7. ASSUME NEW p \in Paths, NEW f \in Fds, OpenUnseen(p, f)
      PROVE  Told'
  BY <1>7, NoneAssumption DEF OpenUnseen, Opened, FreeFd
<1>8. ASSUME NEW f \in Fds, DescriptorCall(f)
      PROVE  Told'
  BY <1>8, NoneAssumption DEF DescriptorCall, HearOfDescriptor, NoteWrite, NoteChange
<1>9. ASSUME NEW f \in Fds, CloseSync(f)
      PROVE  Told'
  BY <1>9, NoneAssumption DEF CloseSync, Closed, DeletePath, NoteClose
<1>10. ASSUME NEW f \in Fds, CloseUnseen(f)
       PROVE  Told'
  BY <1>10, NoneAssumption DEF CloseUnseen, Closed, NoteClose
<1>11. ASSUME NEW f \in Fds, CloseCall(f)
       PROVE  Told'
  BY <1>11, NoneAssumption DEF CloseCall, Depart, CloseFlight
<1>12. ASSUME NEW x \in flights, OpenFails(x)
       PROVE  Told'
  <2>1. x.user \in Streams \cup {None} /\ x \in flights
    BY <1>12 DEF OpenFails, Holders, Flights
  <2>2. \A t \in Streams :
          \/ streams'[t] = streams[t]
          \/ t = x.user /\ streams'[t] = [streams[t] EXCEPT !.state = "ended"]
    BY <1>12, <2>1 DEF OpenFails, TypeOK
  <2>3. ASSUME NEW t \in Streams PROVE streams'[t].path = streams[t].path
    <3> HIDE DEF TypeOK, Told
    <3>1. [streams[t] EXCEPT !.state = "ended"].path = streams[t].path
      BY StreamShape
    <3> QED
      BY <2>2, <3>1
  <2> QED
    BY <1>12, <2>3 DEF OpenFails
<1>13. ASSUME NEW x \in flights, NEW f \in Fds, OpenRuns(x, f)
       PROVE  Told'
  BY <1>13, NoneAssumption DEF OpenRuns, Opened, OpenChanges, FreeFd
<1>14. ASSUME NEW x \in flights, OpenCallback(x)
       PROVE  Told'
  BY <1>14, NoneAssumption DEF OpenCallback, SetPath
<1>15. ASSUME NEW x \in flights, CloseRuns(x)
       PROVE  Told'
  BY <1>15, NoneAssumption DEF CloseRuns, Closed, NoteClose
<1>16. ASSUME NEW x \in flights, CloseCallback(x)
       PROVE  Told'
  BY <1>16, NoneAssumption DEF CloseCallback, DeletePath
<1>17. ASSUME NEW s \in Streams, NEW p \in Paths, CreateStream(s, p)
       PROVE  Told'
  <2>1. /\ told' = [told EXCEPT ![s] = Hooks] /\ Hear(Hooks, {p})
        /\ \A t \in Streams : t # s => streams'[t].path = streams[t].path
        /\ streams'[s].path = p
    BY <1>17 DEF CreateStream
  <2>2. \A v \in Workspaces : /\ heard[v] \subseteq heard'[v]
                              /\ v \in Hooks => p \in heard'[v]
    BY <2>1 DEF Hear
  <2>3. \A t \in Streams : told'[t] = IF t = s THEN Hooks ELSE told[t]
    BY <2>1
  <2>4. Hooks \subseteq Workspaces
    BY DEF Hooks, Range
  <2> QED
    BY <2>1, <2>2, <2>3, <2>4
<1>18. ASSUME NEW s \in Streams, StreamOpens(s)
       PROVE  Told'
  BY <1>18, NoneAssumption DEF StreamOpens, Depart, OpenFlight
<1>19. ASSUME NEW s \in Streams, StreamWrites(s)
       PROVE  Told'
  BY <1>19, NoneAssumption DEF StreamWrites, HearOfDescriptor, NoteWrite, NoteChange
<1>20. ASSUME NEW s \in Streams, StreamEnds(s)
       PROVE  Told'
  BY <1>20, NoneAssumption DEF StreamEnds, Release, Depart, CloseFlight
<1>21. CASE UNCHANGED vars
  BY <1>21 DEF vars
<1>22. ASSUME NEW p \in Paths, Remove(p)
       PROVE  Told'
  BY <1>22, NoneAssumption DEF Remove, Hear, NoteChange
<1>23. ASSUME NEW p \in Paths, NEW q \in Paths, Rename(p, q)
       PROVE  Told'
  BY <1>23, NoneAssumption DEF Rename, Hear, NoteChange
<1>24. ASSUME NEW f \in Fds, WriteByNumber(f)
       PROVE  Told'
  BY <1>24, NoneAssumption DEF WriteByNumber, NoteWrite, NoteChange
<1> HIDE DEF hookVars, mapVars, fsVars, historyVars, TypeOK, Told
<1> QED
  BY <1>1, <1>2, <1>3, <1>4, <1>5, <1>6, <1>7, <1>8, <1>9, <1>10, <1>11, <1>12, <1>13,
     <1>14, <1>15, <1>16, <1>17, <1>18, <1>19, <1>20, <1>21,
     <1>22, <1>23, <1>24 DEF Next

-----------------------------------------------------------------------------
(* The chain of wrappers. *)

LEMMA ChainIsSequence ==
    ASSUME NEW S, NEW c \in Seq(S)
    PROVE  /\ Len(c) \in Nat /\ DOMAIN c = 1 .. Len(c)
           /\ \A i \in 1 .. Len(c) : c[i] \in S
           /\ \A w : w \in Range(c) <=> \E i \in 1 .. Len(c) : w = c[i]
<1>1. Len(c) \in Nat /\ DOMAIN c = 1 .. Len(c) /\ \A i \in 1 .. Len(c) : c[i] \in S
  OBVIOUS
<1>2. Range(c) = {c[i] : i \in 1 .. Len(c)}
  BY <1>1 DEF Range
<1> QED
  BY <1>1, <1>2

\* The chain with one more wrapper in front.
LEMMA InFront ==
    ASSUME NEW S, NEW c \in Seq(S), NEW w \in S
    PROVE  /\ <<w>> \o c \in Seq(S) /\ Len(<<w>> \o c) = Len(c) + 1
           /\ (<<w>> \o c)[1] = w
           /\ \A i \in 2 .. Len(c) + 1 : (<<w>> \o c)[i] = c[i - 1]
           /\ SubSeq(<<w>> \o c, 2, Len(c) + 1) = c
           /\ \A i \in 2 .. Len(c) + 1 :
                 SubSeq(<<w>> \o c, i + 1, Len(c) + 1) = SubSeq(c, i, Len(c))
<1>1. /\ <<w>> \o c \in Seq(S) /\ Len(<<w>> \o c) = Len(c) + 1 /\ Len(c) \in Nat
      /\ (<<w>> \o c)[1] = w
      /\ \A i \in 2 .. Len(c) + 1 : (<<w>> \o c)[i] = c[i - 1]
  OBVIOUS
<1> DEFINE d == <<w>> \o c
<1> HIDE DEF d
<1>2. d \in Seq(S) /\ Len(d) = Len(c) + 1 /\ \A i \in 2 .. Len(c) + 1 : d[i] = c[i - 1]
  BY <1>1 DEF d
<1>3. ASSUME NEW i \in 1 .. Len(c) + 1
      PROVE  SubSeq(d, i + 1, Len(c) + 1) = SubSeq(c, i, Len(c))
  <2>1. /\ SubSeq(d, i + 1, Len(c) + 1) \in Seq(S) /\ SubSeq(c, i, Len(c)) \in Seq(S)
        /\ Len(SubSeq(d, i + 1, Len(c) + 1)) = Len(SubSeq(c, i, Len(c)))
    BY <1>1, <1>2
  <2>2. \A j \in 1 .. Len(SubSeq(c, i, Len(c))) :
          SubSeq(d, i + 1, Len(c) + 1)[j] = SubSeq(c, i, Len(c))[j]
    BY <1>1, <1>2
  <2> QED
    BY <2>1, <2>2, SeqEqual
<1>4. SubSeq(c, 1, Len(c)) = c
  BY <1>1
<1> QED
  BY <1>1, <1>3, <1>4 DEF d


\* The chain without the wrapper in front.
LEMMA BehindFront ==
    ASSUME NEW S, NEW c \in Seq(S), Len(c) > 0
    PROVE  LET d == SubSeq(c, 2, Len(c))
           IN  /\ d \in Seq(S) /\ Len(d) = Len(c) - 1
               /\ \A i \in 1 .. Len(d) :
                     /\ d[i] = c[i + 1]
                     /\ SubSeq(d, i + 1, Len(d)) = SubSeq(c, i + 2, Len(c))
<1> DEFINE d == SubSeq(c, 2, Len(c))
<1>1. /\ d \in Seq(S) /\ Len(d) = Len(c) - 1 /\ Len(c) \in Nat
      /\ \A i \in 1 .. Len(d) : d[i] = c[i + 1]
  <2>1. Len(c) \in Nat /\ \A i \in 2 .. Len(c) : i \in 1 .. Len(c)
    OBVIOUS
  <2>2. /\ d \in Seq(S)
        /\ Len(d) = IF 2 <= Len(c) THEN Len(c) - 2 + 1 ELSE 0
        /\ \A i \in 1 .. Len(c) - 2 + 1 : d[i] = c[2 + i - 1]
    BY <2>1, SubSeqProperties
  <2>3. Len(d) = Len(c) - 1
    BY <2>1, <2>2
  <2> HIDE DEF d
  <2>4. \A i \in 1 .. Len(d) : i \in 1 .. Len(c) - 2 + 1 /\ 2 + i - 1 = i + 1
    BY <2>1, <2>3
  <2> QED
    BY <2>1, <2>2, <2>3, <2>4
<1> HIDE DEF d
<1>2. ASSUME NEW i \in 1 .. Len(d)
      PROVE  SubSeq(d, i + 1, Len(d)) = SubSeq(c, i + 2, Len(c))
  <2>1. /\ SubSeq(d, i + 1, Len(d)) \in Seq(S) /\ SubSeq(c, i + 2, Len(c)) \in Seq(S)
        /\ Len(SubSeq(d, i + 1, Len(d))) = Len(SubSeq(c, i + 2, Len(c)))
    BY <1>1
  <2>2. \A j \in 1 .. Len(SubSeq(c, i + 2, Len(c))) :
          SubSeq(d, i + 1, Len(d))[j] = SubSeq(c, i + 2, Len(c))[j]
    BY <1>1
  <2> QED
    BY <2>1, <2>2, SeqEqual
<1> QED
  BY <1>1, <1>2 DEF d

\* What HooksMatch says of a chain: every wrapper has kept what is behind it.
KeepsRest(c, k) == \A i \in 1 .. Len(c) : k[c[i]] = SubSeq(c, i + 1, Len(c))

\* install() puts a new wrapper in front, and it keeps the chain it found.
LEMMA InstallHooks ==
    ASSUME TypeOK, TypeOK', OnceEach, HooksMatch, NEW w \in Workspaces, Install(w)
    PROVE  OnceEach' /\ HooksMatch'
<1> SUFFICES ASSUME lifo'
             PROVE  /\ Distinct(chain') /\ IsFiniteSet(Hooks')
                    /\ Hooks' = {v \in Workspaces : installed'[v]}
                    /\ Len(chain') = Cardinality(Hooks')
                    /\ KeepsRest(chain', kept')
  <2>1. chain' \in Seq(Workspaces)
    BY DEF TypeOK
  <2>2. DOMAIN chain' = 1 .. Len(chain')
    BY <2>1, ChainIsSequence
  <2> QED
    BY <2>2 DEF OnceEach, HooksMatch, KeepsRest
<1> DEFINE n == Len(chain)
<1>1. /\ lifo /\ ~installed[w] /\ chain' = <<w>> \o chain
      /\ kept' = [kept EXCEPT ![w] = chain] /\ installed' = [installed EXCEPT ![w] = TRUE]
  BY DEF Install
<1>2. /\ Distinct(chain) /\ IsFiniteSet(Hooks) /\ Hooks = {v \in Workspaces : installed[v]}
      /\ n = Cardinality(Hooks) /\ KeepsRest(chain, kept)
  <2>1. DOMAIN chain = 1 .. n
    BY ChainIsSequence DEF TypeOK
  <2> QED
    BY <1>1, <2>1 DEF OnceEach, HooksMatch, KeepsRest
<1>3. /\ chain \in Seq(Workspaces) /\ n \in Nat
      /\ \A i \in 1 .. n : chain[i] \in Workspaces
      /\ \A v : v \in Hooks <=> \E i \in 1 .. n : v = chain[i]
  <2>1. chain \in Seq(Workspaces)
    BY DEF TypeOK
  <2> QED
    BY <2>1, ChainIsSequence DEF Hooks
<1>4. w \notin Hooks
  BY <1>1, <1>2
<1>5. /\ Len(chain') = n + 1 /\ chain'[1] = w
      /\ \A i \in 2 .. n + 1 : chain'[i] = chain[i - 1]
      /\ SubSeq(chain', 2, n + 1) = chain
      /\ \A i \in 2 .. n + 1 : SubSeq(chain', i + 1, n + 1) = SubSeq(chain, i, n)
  BY <1>1, <1>3, InFront
<1>6. \A v : v \in Hooks' <=> \E i \in 1 .. n + 1 : v = chain'[i]
  <2>1. chain' \in Seq(Workspaces)
    BY DEF TypeOK
  <2> QED
    BY <1>5, <2>1, ChainIsSequence DEF Hooks
<1>7. Hooks' = Hooks \cup {w}
  <2>1. w \in Hooks'
    BY <1>3, <1>5, <1>6
  <2>2. ASSUME NEW v \in Hooks PROVE v \in Hooks'
    <3>1. PICK i \in 1 .. n : v = chain[i]
      BY <1>3
    <3>2. i + 1 \in 2 .. n + 1 /\ chain'[i + 1] = v
      BY <1>3, <1>5, <3>1
    <3> QED
      BY <1>3, <1>6, <3>2
  <2>3. ASSUME NEW v \in Hooks', v # w PROVE v \in Hooks
    <3>1. PICK i \in 1 .. n + 1 : v = chain'[i]
      BY <1>6
    <3>2. i \in 2 .. n + 1 /\ i - 1 \in 1 .. n /\ v = chain[i - 1]
      BY <1>3, <1>5, <2>3, <3>1
    <3> QED
      BY <1>3, <3>2
  <2> QED
    BY <2>1, <2>2, <2>3
<1>8. Distinct(chain')
  <2>1. \A i \in 2 .. n + 1 : i - 1 \in 1 .. n /\ chain'[i] = chain[i - 1] /\ chain'[i] # w
    BY <1>3, <1>4, <1>5
  <2> HIDE DEF n
  <2> SUFFICES ASSUME NEW j \in 1 .. n + 1, NEW k \in 1 .. n + 1, chain'[j] = chain'[k]
               PROVE  j = k
    BY <1>5 DEF Distinct
  <2>2. CASE j = 1 \/ k = 1
    BY <1>3, <1>5, <2>1, <2>2
  <2>3. CASE j # 1 /\ k # 1
    <3>1. j \in 2 .. n + 1 /\ k \in 2 .. n + 1
      BY <1>3, <2>3
    <3>2. chain[j - 1] = chain[k - 1] /\ j - 1 \in 1 .. n /\ k - 1 \in 1 .. n
      BY <2>1, <3>1
    <3>3. j - 1 = k - 1
      BY <1>2, <3>2 DEF Distinct, n
    <3> QED
      BY <3>1, <3>3
  <2> QED
    BY <2>2, <2>3
<1>9. IsFiniteSet(Hooks') /\ Cardinality(Hooks') = n + 1
  <2>1. IsFiniteSet(Hooks) /\ Cardinality(Hooks) = n /\ w \notin Hooks
    BY <1>2, <1>4
  <2> QED
    BY <1>7, <2>1, FS_AddElement
<1>10. KeepsRest(chain', kept')
  <2>1. \A v \in Workspaces : kept'[v] = IF v = w THEN chain ELSE kept[v]
    BY <1>1 DEF TypeOK
  <2> SUFFICES ASSUME NEW i \in 1 .. n + 1
               PROVE  kept'[chain'[i]] = SubSeq(chain', i + 1, n + 1)
    BY <1>5 DEF KeepsRest
  <2>2. CASE i = 1
    BY <1>5, <2>1, <2>2
  <2>3. CASE i # 1
    <3>1. i \in 2 .. n + 1 /\ i - 1 \in 1 .. n /\ chain'[i] = chain[i - 1]
      BY <1>3, <1>5, <2>3
    <3>2. chain[i - 1] \in Workspaces /\ chain[i - 1] # w
      BY <1>3, <1>4, <3>1
    <3>3. kept[chain[i - 1]] = SubSeq(chain, i - 1 + 1, n) /\ i - 1 + 1 = i
      BY <1>2, <3>1 DEF KeepsRest
    <3> QED
      BY <1>5, <2>1, <3>1, <3>2, <3>3
  <2> QED
    BY <2>2, <2>3
<1>11. Hooks' = {v \in Workspaces : installed'[v]}
  <2>1. \A v \in Workspaces : installed'[v] <=> v = w \/ installed[v]
    BY <1>1 DEF TypeOK
  <2> QED
    BY <1>2, <1>7, <2>1
<1> QED
  BY <1>5, <1>8, <1>9, <1>10, <1>11

\* uninstall() of the wrapper in front leaves what was there before it.
LEMMA UninstallHooks ==
    ASSUME TypeOK, TypeOK', OnceEach, HooksMatch, NEW w \in Workspaces, Uninstall(w)
    PROVE  OnceEach' /\ HooksMatch'
<1> SUFFICES ASSUME lifo'
             PROVE  /\ Distinct(chain') /\ IsFiniteSet(Hooks')
                    /\ Hooks' = {v \in Workspaces : installed'[v]}
                    /\ Len(chain') = Cardinality(Hooks')
                    /\ KeepsRest(chain', kept')
  <2>1. chain' \in Seq(Workspaces)
    BY DEF TypeOK
  <2>2. DOMAIN chain' = 1 .. Len(chain')
    BY <2>1, ChainIsSequence
  <2> QED
    BY <2>2 DEF OnceEach, HooksMatch, KeepsRest
<1> DEFINE n == Len(chain)
<1>1. /\ lifo /\ chain # <<>> /\ Head(chain) = w /\ chain' = kept[w]
      /\ kept' = [kept EXCEPT ![w] = <<>>] /\ installed' = [installed EXCEPT ![w] = FALSE]
  BY DEF Uninstall
<1>2. /\ Distinct(chain) /\ IsFiniteSet(Hooks) /\ Hooks = {v \in Workspaces : installed[v]}
      /\ n = Cardinality(Hooks) /\ KeepsRest(chain, kept)
  <2>1. DOMAIN chain = 1 .. n
    BY ChainIsSequence DEF TypeOK
  <2> QED
    BY <1>1, <2>1 DEF OnceEach, HooksMatch, KeepsRest
<1>3. /\ chain \in Seq(Workspaces) /\ n \in Nat
      /\ \A i \in 1 .. n : chain[i] \in Workspaces
      /\ \A v : v \in Hooks <=> \E i \in 1 .. n : v = chain[i]
  <2>1. chain \in Seq(Workspaces)
    BY DEF TypeOK
  <2> QED
    BY <2>1, ChainIsSequence DEF Hooks
<1>4. n > 0 /\ chain[1] = w
  BY <1>1, <1>3
<1>5. chain' = SubSeq(chain, 2, n)
  <2>1. 1 \in 1 .. n /\ 1 + 1 = 2
    BY <1>3, <1>4
  <2>2. kept[chain[1]] = SubSeq(chain, 1 + 1, n)
    BY <1>2, <2>1 DEF KeepsRest
  <2> QED
    BY <1>1, <1>4, <2>1, <2>2
<1>6. /\ Len(chain') = n - 1
      /\ \A i \in 1 .. n - 1 :
            /\ chain'[i] = chain[i + 1] /\ i + 1 \in 2 .. n
            /\ SubSeq(chain', i + 1, n - 1) = SubSeq(chain, i + 2, n)
  BY <1>3, <1>4, <1>5, BehindFront
<1>7. \A v : v \in Hooks' <=> \E i \in 1 .. n - 1 : v = chain'[i]
  <2>1. chain' \in Seq(Workspaces)
    BY DEF TypeOK
  <2> QED
    BY <1>6, <2>1, ChainIsSequence DEF Hooks
<1>8. \A i \in 1 .. n : i # 1 => chain[i] # w
  BY <1>2, <1>3, <1>4 DEF Distinct
<1>9. Hooks' = Hooks \ {w}
  <2>1. ASSUME NEW v \in Hooks, v # w PROVE v \in Hooks'
    <3>1. PICK i \in 1 .. n : v = chain[i]
      BY <1>3
    <3>2. i # 1
      BY <1>4, <2>1, <3>1
    <3>3. i - 1 \in 1 .. n - 1 /\ chain'[i - 1] = chain[i - 1 + 1] /\ i - 1 + 1 = i
      BY <1>3, <1>6, <3>2
    <3> QED
      BY <1>7, <3>1, <3>3
  <2>2. ASSUME NEW v \in Hooks' PROVE v \in Hooks \ {w}
    <3>1. PICK i \in 1 .. n - 1 : v = chain'[i]
      BY <1>7
    <3>2. i + 1 \in 1 .. n /\ i + 1 # 1 /\ v = chain[i + 1]
      BY <1>3, <1>6, <3>1
    <3> QED
      BY <1>3, <1>8, <3>2
  <2> QED
    BY <2>1, <2>2
<1>10. Distinct(chain')
  <2> SUFFICES ASSUME NEW j \in 1 .. n - 1, NEW k \in 1 .. n - 1, chain'[j] = chain'[k]
               PROVE  j = k
    BY <1>6 DEF Distinct
  <2>1. /\ j + 1 \in 1 .. n /\ k + 1 \in 1 .. n /\ chain[j + 1] = chain[k + 1]
    BY <1>3, <1>6
  <2>2. j + 1 = k + 1
    BY <1>2, <2>1 DEF Distinct
  <2> QED
    BY <1>3, <2>2
<1>11. w \in Hooks
  BY <1>3, <1>4
<1>12. IsFiniteSet(Hooks') /\ Cardinality(Hooks') = n - 1
  <2>1. IsFiniteSet(Hooks) /\ Cardinality(Hooks) = n
    BY <1>2, <1>3
  <2>2. IsFiniteSet(Hooks \ {w}) /\ Cardinality(Hooks \ {w}) = n - 1
    BY <1>11, <2>1, FS_RemoveElement
  <2>3. Hooks' = Hooks \ {w}
    BY <1>9
  <2> QED
    BY <2>2, <2>3
<1>13. KeepsRest(chain', kept')
  <2>1. \A v \in Workspaces : v # w => kept'[v] = kept[v]
    BY <1>1 DEF TypeOK
  <2> SUFFICES ASSUME NEW i \in 1 .. n - 1
               PROVE  kept'[chain'[i]] = SubSeq(chain', i + 1, n - 1)
    BY <1>6 DEF KeepsRest
  <2>2. i + 1 \in 1 .. n /\ i + 1 # 1 /\ chain'[i] = chain[i + 1] /\ i + 1 + 1 = i + 2
    BY <1>3, <1>6
  <2>3. chain[i + 1] \in Workspaces /\ chain[i + 1] # w
    BY <1>3, <1>8, <2>2
  <2>4. kept[chain[i + 1]] = SubSeq(chain, i + 1 + 1, n)
    BY <1>2, <2>2 DEF KeepsRest
  <2> QED
    BY <1>6, <2>1, <2>2, <2>3, <2>4
<1>14. Hooks' = {v \in Workspaces : installed'[v]}
  <2>1. \A v \in Workspaces : installed'[v] <=> v # w /\ installed[v]
    BY <1>1 DEF TypeOK
  <2> QED
    BY <1>2, <1>9, <2>1
<1> QED
  BY <1>6, <1>10, <1>12, <1>13, <1>14

\* Nothing but install() and uninstall() changes the patched functions.
LEMMA HooksStep ==
    ASSUME TypeOK, TypeOK', OnceEach, HooksMatch, [Next]_vars
    PROVE  OnceEach' /\ HooksMatch'
<1> USE DEF hookVars
<1>1. ASSUME NEW w \in Workspaces, Install(w)
      PROVE  OnceEach' /\ HooksMatch'
  BY <1>1, InstallHooks
<1>2. ASSUME NEW w \in Workspaces, Uninstall(w)
      PROVE  OnceEach' /\ HooksMatch'
  BY <1>2, UninstallHooks
<1>3. ASSUME NEW w \in Workspaces, Snapshot(w)
      PROVE  OnceEach' /\ HooksMatch'
  BY <1>3 DEF Snapshot, OnceEach, Hooks, HooksMatch
<1>4. ASSUME NEW p \in Paths, PathCall(p)
      PROVE  OnceEach' /\ HooksMatch'
  BY <1>4 DEF PathCall, OnceEach, Hooks, HooksMatch
<1>5. ASSUME NEW p \in Paths, OpenCall(p)
      PROVE  OnceEach' /\ HooksMatch'
  BY <1>5 DEF OpenCall, OnceEach, Hooks, HooksMatch
<1>6. ASSUME NEW p \in Paths, NEW f \in Fds, OpenSync(p, f)
      PROVE  OnceEach' /\ HooksMatch'
  BY <1>6 DEF OpenSync, Opened, OpenChanges, OnceEach, Hooks, HooksMatch
<1>7. ASSUME NEW p \in Paths, NEW f \in Fds, OpenUnseen(p, f)
      PROVE  OnceEach' /\ HooksMatch'
  BY <1>7 DEF OpenUnseen, Opened, OnceEach, Hooks, HooksMatch
<1>8. ASSUME NEW f \in Fds, DescriptorCall(f)
      PROVE  OnceEach' /\ HooksMatch'
  BY <1>8 DEF DescriptorCall, OnceEach, Hooks, HooksMatch
<1>9. ASSUME NEW f \in Fds, CloseSync(f)
      PROVE  OnceEach' /\ HooksMatch'
  BY <1>9 DEF CloseSync, Closed, OnceEach, Hooks, HooksMatch
<1>10. ASSUME NEW f \in Fds, CloseUnseen(f)
       PROVE  OnceEach' /\ HooksMatch'
  BY <1>10 DEF CloseUnseen, Closed, OnceEach, Hooks, HooksMatch
<1>11. ASSUME NEW f \in Fds, CloseCall(f)
       PROVE  OnceEach' /\ HooksMatch'
  BY <1>11 DEF CloseCall, OnceEach, Hooks, HooksMatch
<1>12. ASSUME NEW x \in flights, OpenFails(x)
       PROVE  OnceEach' /\ HooksMatch'
  BY <1>12 DEF OpenFails, OnceEach, Hooks, HooksMatch
<1>13. ASSUME NEW x \in flights, NEW f \in Fds, OpenRuns(x, f)
       PROVE  OnceEach' /\ HooksMatch'
  BY <1>13 DEF OpenRuns, Opened, OpenChanges, OnceEach, Hooks, HooksMatch
<1>14. ASSUME NEW x \in flights, OpenCallback(x)
       PROVE  OnceEach' /\ HooksMatch'
  BY <1>14 DEF OpenCallback, OnceEach, Hooks, HooksMatch
<1>15. ASSUME NEW x \in flights, CloseRuns(x)
       PROVE  OnceEach' /\ HooksMatch'
  BY <1>15 DEF CloseRuns, Closed, OnceEach, Hooks, HooksMatch
<1>16. ASSUME NEW x \in flights, CloseCallback(x)
       PROVE  OnceEach' /\ HooksMatch'
  BY <1>16 DEF CloseCallback, OnceEach, Hooks, HooksMatch
<1>17. ASSUME NEW s \in Streams, NEW p \in Paths, CreateStream(s, p)
       PROVE  OnceEach' /\ HooksMatch'
  BY <1>17 DEF CreateStream, OnceEach, Hooks, HooksMatch
<1>18. ASSUME NEW s \in Streams, StreamOpens(s)
       PROVE  OnceEach' /\ HooksMatch'
  BY <1>18 DEF StreamOpens, OnceEach, Hooks, HooksMatch
<1>19. ASSUME NEW s \in Streams, StreamWrites(s)
       PROVE  OnceEach' /\ HooksMatch'
  BY <1>19 DEF StreamWrites, OnceEach, Hooks, HooksMatch
<1>20. ASSUME NEW s \in Streams, StreamEnds(s)
       PROVE  OnceEach' /\ HooksMatch'
  BY <1>20 DEF StreamEnds, OnceEach, Hooks, HooksMatch
<1>21. CASE UNCHANGED vars
  BY <1>21 DEF vars, OnceEach, Hooks, HooksMatch
<1>22. ASSUME NEW p \in Paths, Remove(p)
       PROVE  OnceEach' /\ HooksMatch'
  BY <1>22 DEF Remove, OnceEach, Hooks, HooksMatch
<1>23. ASSUME NEW p \in Paths, NEW q \in Paths, Rename(p, q)
       PROVE  OnceEach' /\ HooksMatch'
  BY <1>23 DEF Rename, OnceEach, Hooks, HooksMatch
<1>24. ASSUME NEW f \in Fds, WriteByNumber(f)
       PROVE  OnceEach' /\ HooksMatch'
  BY <1>24 DEF WriteByNumber, OnceEach, Hooks, HooksMatch
<1> HIDE DEF hookVars
<1> QED
  BY <1>1, <1>2, <1>3, <1>4, <1>5, <1>6, <1>7, <1>8, <1>9, <1>10, <1>11, <1>12, <1>13,
     <1>14, <1>15, <1>16, <1>17, <1>18, <1>19, <1>20, <1>21,
     <1>22, <1>23, <1>24 DEF Next

-----------------------------------------------------------------------------
(* Suppression. *)

\* Only finitely many streams were made, so those of a wrapper can be counted.
LEMMA WritingFinite ==
    ASSUME TypeOK, StreamsMatch, FewStreams, NEW w \in Workspaces, NEW p \in Paths
    PROVE  IsFiniteSet(Writing(w, p))
<1>1. Writing(w, p) \subseteq {s \in Streams : streams[s].state # "unused"}
  BY NoneAssumption DEF Writing, StreamsMatch, Attached
<1> QED
  BY <1>1, FS_Subset DEF FewStreams

\* A count that is taken down with its stream stays below the streams.
LEMMA CountDown ==
    ASSUME NEW W, IsFiniteSet(W), NEW s, NEW c \in Nat, c <= Cardinality(W)
    PROVE  /\ (IF c <= 1 THEN 0 ELSE c - 1) <= Cardinality(W \ {s})
           /\ s \notin W => c <= Cardinality(W \ {s})
<1>1. Cardinality(W) \in Nat /\ IsFiniteSet(W \ {s}) /\ Cardinality(W \ {s}) \in Nat
  BY FS_CardinalityType, FS_RemoveElement, FS_Subset
<1>2. CASE s \in W
  <2>1. Cardinality(W \ {s}) = Cardinality(W) - 1
    BY <1>2, FS_RemoveElement
  <2> QED
    BY <1>1, <1>2, <2>1
<1>3. CASE s \notin W
  <2>1. W \ {s} = W
    BY <1>3
  <2> QED
    BY <1>1, <2>1
<1> QED
  BY <1>2, <1>3

\* A stream that ends gives up its suppression.
LEMMA ReleaseCounts ==
    ASSUME TypeOK, StreamsMatch, FewStreams, SuppressionEnds, NEW s \in Streams,
           streams[s].state # "unused",
           streams' = [streams EXCEPT ![s].state = "ended"], Release(s)
    PROVE  FewStreams' /\ SuppressionEnds'
<1> DEFINE o == [streams[s] EXCEPT !.state = "ended"]
           dec(c) == IF c <= 1 THEN 0 ELSE c - 1
<1>1. o.state = "ended" /\ o.path = streams[s].path /\ o.owner = streams[s].owner
  BY StreamShape
<1>2. \A t \in Streams : streams'[t] = IF t = s THEN o ELSE streams[t]
  BY DEF TypeOK
<1> HIDE DEF o
<1>3. {t \in Streams : streams'[t].state # "unused"} =
        {t \in Streams : streams[t].state # "unused"}
  BY <1>1, <1>2
<1>4. FewStreams'
  BY <1>3 DEF FewStreams
<1>5. ASSUME NEW w \in Workspaces, NEW p \in Paths
      PROVE  streamPathSuppressions'[w][p] <= Cardinality(Writing(w, p)')
  <2>1. Writing(w, p)' = Writing(w, p) \ {s}
    BY <1>1, <1>2 DEF Writing
  <2>2. /\ streamPathSuppressions[w][p] \in Nat /\ IsFiniteSet(Writing(w, p))
        /\ streamPathSuppressions[w][p] <= Cardinality(Writing(w, p))
    BY WritingFinite DEF TypeOK, SuppressionEnds, Writing
  <2>3. /\ dec(streamPathSuppressions[w][p]) <= Cardinality(Writing(w, p) \ {s})
        /\ s \notin Writing(w, p) =>
              streamPathSuppressions[w][p] <= Cardinality(Writing(w, p) \ {s})
    BY <2>2, CountDown
  <2>4. CASE s \in Writing(w, p)
    <3>1. streams[s].owner = w /\ streams[s].path = p
      BY <2>4 DEF Writing
    <3>2. streamPathSuppressions'[w][p] = dec(streamPathSuppressions[w][p])
      BY <3>1, NoneAssumption DEF Release, TypeOK
    <3> QED
      BY <2>1, <2>3, <3>2
  <2>5. CASE s \notin Writing(w, p)
    <3>1. streamPathSuppressions'[w][p] \in
            {streamPathSuppressions[w][p], dec(streamPathSuppressions[w][p])}
      <4> DEFINE u == streams[s].owner
                 q == streams[s].path
      <4>1. CASE u = None
        BY <4>1 DEF Release
      <4>2. CASE u # None
        <5>1. streamPathSuppressions' = [streamPathSuppressions EXCEPT ![u][q] = dec(@)]
          BY <4>2 DEF Release
        <5> HIDE DEF u, q
        <5>2. CASE w = u /\ p = q
          BY <5>1, <5>2 DEF TypeOK
        <5>3. CASE ~(w = u /\ p = q)
          BY <5>1, <5>3 DEF TypeOK
        <5> QED
          BY <5>2, <5>3
      <4> QED
        BY <4>1, <4>2
    <3> QED
      BY <2>1, <2>3, <2>5, <3>1
  <2> QED
    BY <2>4, <2>5
<1> QED
  BY <1>4, <1>5 DEF SuppressionEnds, Writing

\* A new stream is counted by its owner, and by nobody else.
LEMMA CreateCounts ==
    ASSUME TypeOK, StreamsMatch, FewStreams, SuppressionEnds, NEW s \in Streams,
           NEW q \in Paths, CreateStream(s, q)
    PROVE  FewStreams' /\ SuppressionEnds'
<1> DEFINE o == [state |-> "created", path |-> q, owner |-> Owner, fd |-> None]
<1>1. o.state = "created" /\ o.path = q /\ o.owner = Owner
  OBVIOUS
<1>2. /\ streams[s].state = "unused"
      /\ \A t \in Streams : streams'[t] = IF t = s THEN o ELSE streams[t]
  BY DEF CreateStream, TypeOK
<1> HIDE DEF o
<1>3. {t \in Streams : streams'[t].state # "unused"} =
        {t \in Streams : streams[t].state # "unused"} \cup {s}
  BY <1>1, <1>2
<1>4. FewStreams'
  BY <1>3, FS_AddElement DEF FewStreams
<1>5. streams[s].owner = None
  BY <1>2 DEF StreamsMatch, Attached
<1>6. ASSUME NEW w \in Workspaces, NEW p \in Paths
      PROVE  streamPathSuppressions'[w][p] <= Cardinality(Writing(w, p)')
  <2>1. w # None /\ s \notin Writing(w, p)
    BY <1>5, NoneAssumption DEF Writing
  <2>2. /\ streamPathSuppressions[w][p] \in Nat /\ IsFiniteSet(Writing(w, p))
        /\ streamPathSuppressions[w][p] <= Cardinality(Writing(w, p))
    BY WritingFinite DEF TypeOK, SuppressionEnds, Writing
  <2>3. Cardinality(Writing(w, p)) \in Nat
    BY <2>2, FS_CardinalityType
  <2>4. CASE w = Owner /\ p = q
    <3>1. Writing(w, p)' = Writing(w, p) \cup {s}
      BY <1>1, <1>2, <2>4 DEF Writing
    <3>2. Cardinality(Writing(w, p)') = Cardinality(Writing(w, p)) + 1
      BY <2>1, <2>2, <3>1, FS_AddElement
    <3>3. streamPathSuppressions'[w][p] = streamPathSuppressions[w][p] + 1
      BY <2>1, <2>4 DEF CreateStream, Suppressing, TypeOK
    <3> QED
      BY <2>2, <2>3, <3>2, <3>3
  <2>5. CASE ~(w = Owner /\ p = q)
    <3>1. Writing(w, p)' = Writing(w, p)
      BY <1>1, <1>2, <1>5, <2>1, <2>5 DEF Writing
    <3>2. streamPathSuppressions'[w][p] = streamPathSuppressions[w][p]
      BY <2>5 DEF CreateStream, Suppressing, TypeOK
    <3> QED
      BY <2>2, <3>1, <3>2
  <2> QED
    BY <2>4, <2>5
<1> QED
  BY <1>4, <1>6 DEF SuppressionEnds, Writing

\* A path is suppressed for streams that are under way.
LEMMA SuppressionStep ==
    ASSUME TypeOK, Holders, StreamsMatch, FewStreams, SuppressionEnds, [Next]_vars
    PROVE  FewStreams' /\ SuppressionEnds'
<1> USE DEF mapVars, fsVars
<1>1. ASSUME NEW w \in Workspaces, Install(w)
      PROVE  FewStreams' /\ SuppressionEnds'
  BY <1>1 DEF Install, FewStreams, SuppressionEnds
<1>2. ASSUME NEW w \in Workspaces, Uninstall(w)
      PROVE  FewStreams' /\ SuppressionEnds'
  <2>1. \A v \in Workspaces, q \in Paths :
          streamPathSuppressions'[v][q] = IF v = w THEN 0 ELSE streamPathSuppressions[v][q]
    BY <1>2 DEF Uninstall, NotSuppressed, TypeOK
  <2>2. streams' = streams
    BY <1>2 DEF Uninstall
  <2>3. \A v \in Workspaces, q \in Paths :
          /\ Writing(v, q)' = Writing(v, q)
          /\ Cardinality(Writing(v, q)) \in Nat
    BY <2>2, WritingFinite, FS_CardinalityType DEF Writing
  <2>4. ASSUME NEW v \in Workspaces, NEW q \in Paths
        PROVE  streamPathSuppressions'[v][q] <= Cardinality(Writing(v, q)')
    <3>1. streamPathSuppressions[v][q] <= Cardinality(Writing(v, q))
      BY DEF SuppressionEnds, Writing
    <3>2. streamPathSuppressions'[v][q] \in {0, streamPathSuppressions[v][q]}
      BY <2>1
    <3> QED
      BY <2>3, <3>1, <3>2
  <2> QED
    BY <2>2, <2>4 DEF FewStreams, SuppressionEnds, Writing
<1>3. ASSUME NEW w \in Workspaces, Snapshot(w)
      PROVE  FewStreams' /\ SuppressionEnds'
  BY <1>3 DEF Snapshot, FewStreams, SuppressionEnds
<1>4. ASSUME NEW p \in Paths, PathCall(p)
      PROVE  FewStreams' /\ SuppressionEnds'
  BY <1>4 DEF PathCall, FewStreams, SuppressionEnds
<1>5. ASSUME NEW p \in Paths, OpenCall(p)
      PROVE  FewStreams' /\ SuppressionEnds'
  BY <1>5 DEF OpenCall, FewStreams, SuppressionEnds
<1>6. ASSUME NEW p \in Paths, NEW f \in Fds, OpenSync(p, f)
      PROVE  FewStreams' /\ SuppressionEnds'
  BY <1>6 DEF OpenSync, Opened, OpenChanges, FewStreams, SuppressionEnds
<1>7. ASSUME NEW p \in Paths, NEW f \in Fds, OpenUnseen(p, f)
      PROVE  FewStreams' /\ SuppressionEnds'
  BY <1>7 DEF OpenUnseen, Opened, FewStreams, SuppressionEnds
<1>8. ASSUME NEW f \in Fds, DescriptorCall(f)
      PROVE  FewStreams' /\ SuppressionEnds'
  BY <1>8 DEF DescriptorCall, FewStreams, SuppressionEnds
<1>9. ASSUME NEW f \in Fds, CloseSync(f)
      PROVE  FewStreams' /\ SuppressionEnds'
  BY <1>9 DEF CloseSync, Closed, FewStreams, SuppressionEnds
<1>10. ASSUME NEW f \in Fds, CloseUnseen(f)
       PROVE  FewStreams' /\ SuppressionEnds'
  BY <1>10 DEF CloseUnseen, Closed, FewStreams, SuppressionEnds
<1>11. ASSUME NEW f \in Fds, CloseCall(f)
       PROVE  FewStreams' /\ SuppressionEnds'
  BY <1>11 DEF CloseCall, FewStreams, SuppressionEnds
<1>12. ASSUME NEW x \in flights, OpenFails(x)
       PROVE  FewStreams' /\ SuppressionEnds'
  <2>1. CASE x.user = None
    BY <1>12, <2>1 DEF OpenFails, FewStreams, SuppressionEnds
  <2>2. CASE x.user # None
    <3>1. /\ x.user \in Streams /\ streams[x.user].state # "unused"
          /\ streams' = [streams EXCEPT ![x.user].state = "ended"] /\ Release(x.user)
      BY <1>12, <2>2 DEF OpenFails, Holders, Flights, StreamsMatch, Awaited
    <3> QED
      BY <3>1, ReleaseCounts
  <2> QED
    BY <2>1, <2>2
<1>13. ASSUME NEW x \in flights, NEW f \in Fds, OpenRuns(x, f)
       PROVE  FewStreams' /\ SuppressionEnds'
  BY <1>13 DEF OpenRuns, Opened, OpenChanges, FewStreams, SuppressionEnds
<1>14. ASSUME NEW x \in flights, OpenCallback(x)
       PROVE  FewStreams' /\ SuppressionEnds'
  <2>1. CASE x.user = None
    BY <1>14, <2>1 DEF OpenCallback, FewStreams, SuppressionEnds
  <2>2. CASE x.user # None
    <3>1. x.user \in Streams /\ streams[x.user].state \notin {"unused", "created"}
      BY <1>14, <2>2 DEF OpenCallback, Holders, Flights, StreamsMatch, Awaited
    <3> DEFINE o == [streams[x.user] EXCEPT !.state = "open", !.fd = x.fd]
    <3>2. /\ o.owner = streams[x.user].owner /\ o.path = streams[x.user].path
          /\ o.state = "open"
      BY <3>1, OpenedShape
    <3>3. \A t \in Streams : streams'[t] = IF t = x.user THEN o ELSE streams[t]
      BY <1>14, <2>2, <3>1 DEF OpenCallback, TypeOK
    <3> HIDE DEF o
    <3>4. \A w \in Workspaces, p \in Paths : Writing(w, p) \subseteq Writing(w, p)'
      BY <3>1, <3>2, <3>3 DEF Writing
    <3>5. {t \in Streams : streams'[t].state # "unused"} =
            {t \in Streams : streams[t].state # "unused"}
      BY <3>1, <3>2, <3>3
    <3>6. streamPathSuppressions' = streamPathSuppressions
      BY <1>14 DEF OpenCallback
    <3>7. ASSUME NEW w \in Workspaces, NEW p \in Paths
          PROVE  streamPathSuppressions'[w][p] <= Cardinality(Writing(w, p)')
      <4>1. Writing(w, p)' \subseteq Writing(w, p) \cup {x.user}
        BY <3>3 DEF Writing
      <4>2. IsFiniteSet(Writing(w, p))
        BY WritingFinite
      <4>3. IsFiniteSet(Writing(w, p)')
        BY <4>1, <4>2, FS_AddElement, FS_Subset
      <4>4. /\ Cardinality(Writing(w, p)) <= Cardinality(Writing(w, p)')
            /\ Cardinality(Writing(w, p)) \in Nat /\ Cardinality(Writing(w, p)') \in Nat
        BY <3>4, <4>2, <4>3, FS_Subset, FS_CardinalityType
      <4>5. /\ streamPathSuppressions[w][p] <= Cardinality(Writing(w, p))
            /\ streamPathSuppressions[w][p] \in Nat
        BY DEF SuppressionEnds, Writing, TypeOK
      <4> QED
        BY <3>6, <4>4, <4>5
    <3> QED
      BY <3>5, <3>7 DEF FewStreams, SuppressionEnds, Writing
  <2> QED
    BY <2>1, <2>2
<1>15. ASSUME NEW x \in flights, CloseRuns(x)
       PROVE  FewStreams' /\ SuppressionEnds'
  BY <1>15 DEF CloseRuns, Closed, FewStreams, SuppressionEnds
<1>16. ASSUME NEW x \in flights, CloseCallback(x)
       PROVE  FewStreams' /\ SuppressionEnds'
  BY <1>16 DEF CloseCallback, FewStreams, SuppressionEnds
<1>17. ASSUME NEW s \in Streams, NEW p \in Paths, CreateStream(s, p)
       PROVE  FewStreams' /\ SuppressionEnds'
  BY <1>17, CreateCounts
<1>18. ASSUME NEW s \in Streams, StreamOpens(s)
       PROVE  FewStreams' /\ SuppressionEnds'
  <2>1. streams[s].state = "created"
    BY <1>18 DEF StreamOpens
  <2> DEFINE o == [streams[s] EXCEPT !.state = "opening"]
  <2>2. /\ o.owner = streams[s].owner /\ o.path = streams[s].path /\ o.state = "opening"
    BY StreamShape
  <2>3. \A t \in Streams : streams'[t] = IF t = s THEN o ELSE streams[t]
    BY <1>18 DEF StreamOpens, TypeOK
  <2> HIDE DEF o
  <2>4. \A w \in Workspaces, p \in Paths : Writing(w, p)' = Writing(w, p)
    BY <2>1, <2>2, <2>3 DEF Writing
  <2>5. {t \in Streams : streams'[t].state # "unused"} =
          {t \in Streams : streams[t].state # "unused"}
    BY <2>1, <2>2, <2>3
  <2>6. streamPathSuppressions' = streamPathSuppressions
    BY <1>18 DEF StreamOpens
  <2>7. \A w \in Workspaces, p \in Paths :
          streamPathSuppressions'[w][p] <= Cardinality(Writing(w, p)')
    BY <2>4, <2>6 DEF SuppressionEnds, Writing
  <2> QED
    BY <2>5, <2>7 DEF FewStreams, SuppressionEnds, Writing
<1>19. ASSUME NEW s \in Streams, StreamWrites(s)
       PROVE  FewStreams' /\ SuppressionEnds'
  BY <1>19 DEF StreamWrites, FewStreams, SuppressionEnds
<1>20. ASSUME NEW s \in Streams, StreamEnds(s)
       PROVE  FewStreams' /\ SuppressionEnds'
  BY <1>20, ReleaseCounts DEF StreamEnds
<1>21. CASE UNCHANGED vars
  BY <1>21 DEF vars, FewStreams, SuppressionEnds
<1>22. ASSUME NEW p \in Paths, Remove(p)
       PROVE  FewStreams' /\ SuppressionEnds'
  BY <1>22 DEF Remove, FewStreams, SuppressionEnds
<1>23. ASSUME NEW p \in Paths, NEW q \in Paths, Rename(p, q)
       PROVE  FewStreams' /\ SuppressionEnds'
  BY <1>23 DEF Rename, FewStreams, SuppressionEnds
<1>24. ASSUME NEW f \in Fds, WriteByNumber(f)
       PROVE  FewStreams' /\ SuppressionEnds'
  BY <1>24 DEF WriteByNumber, FewStreams, SuppressionEnds
<1> HIDE DEF mapVars, fsVars
<1> QED
  BY <1>1, <1>2, <1>3, <1>4, <1>5, <1>6, <1>7, <1>8, <1>9, <1>10, <1>11, <1>12, <1>13,
     <1>14, <1>15, <1>16, <1>17, <1>18, <1>19, <1>20, <1>21,
     <1>22, <1>23, <1>24 DEF Next

-----------------------------------------------------------------------------
(* What is not heard. *)

\* Who is installed has its wrapper in place, as long as wrappers come off in
\* the order they went on.
LEMMA InstalledIsHooked ==
    ASSUME HooksMatch, lifo, NEW w \in Workspaces, installed[w]
    PROVE  w \in Hooks
BY DEF HooksMatch

\* Nobody who could have been told of a change through a descriptor is missed.
LEMMA DescriptorHeard ==
    ASSUME TypeOK, HooksMatch, Informed, NEW f \in Fds, Usable(f), HearOfDescriptor(f),
           NEW w \in Workspaces, installed[w], lifo, w \notin deaf[f]
    PROVE  fds[f].path \in heard'[w]
<1>1. w \in Hooks
  BY InstalledIsHooked
<1>2. Knows(w, f)
  BY DEF Informed
<1>3. [path |-> fds[f].path, suppressed |-> FALSE] # None
  <2>1. fds[f].path \in Paths
    BY DEF Usable, TypeOK, FdStates
  <2>2. [path |-> fds[f].path, suppressed |-> FALSE] \in [path : Paths, suppressed : BOOLEAN]
    BY <2>1
  <2> QED
    BY <2>2, NoneAssumption
<1>4. Resolves(w, f) /\ descriptorPaths[w][f].path = fds[f].path
  BY <1>1, <1>2, <1>3 DEF Resolves, Knows
<1> QED
  BY <1>4 DEF HearOfDescriptor

\* No change that can be told is missed.
LEMMA HeardOrGap ==
    ASSUME ChangesHeard, NEW P, NEW how, NoteChange(P, how),
           \A v \in Workspaces : installed[v] /\ lifo => how[v] \in Gaps \/ P \subseteq heard'[v]
    PROVE  ChangesHeard'
BY DEF NoteChange, ChangesHeard

LEMMA HeardStep ==
    ASSUME TypeOK, Holders, StreamsMatch, HooksMatch, Informed, Told, ChangesHeard, [Next]_vars
    PROVE  ChangesHeard'
<1> USE DEF historyVars
<1>1. ASSUME NEW w \in Workspaces, Install(w)
      PROVE  ChangesHeard'
  BY <1>1 DEF Install, ChangesHeard
<1>2. ASSUME NEW w \in Workspaces, Uninstall(w)
      PROVE  ChangesHeard'
  BY <1>2 DEF Uninstall, ChangesHeard
<1>3. ASSUME NEW w \in Workspaces, Snapshot(w)
      PROVE  ChangesHeard'
  BY <1>3 DEF Snapshot, ChangesHeard
<1>4. ASSUME NEW p \in Paths, PathCall(p)
      PROVE  ChangesHeard'
  <2>1. ASSUME NEW v \in Workspaces, installed[v], lifo PROVE {p} \subseteq heard'[v]
    BY <1>4, <2>1, InstalledIsHooked DEF PathCall, Hear
  <2> QED
    BY <1>4, <2>1, HeardOrGap DEF PathCall
<1>5. ASSUME NEW p \in Paths, OpenCall(p)
      PROVE  ChangesHeard'
  BY <1>5 DEF OpenCall, ChangesHeard
<1>6. ASSUME NEW p \in Paths, NEW f \in Fds, OpenSync(p, f)
      PROVE  ChangesHeard'
  <2>1. \A v \in Workspaces : Unreported("open")[v] \in Gaps
    BY DEF Unreported, Gaps
  <2> QED
    BY <1>6, <2>1, HeardOrGap DEF OpenSync, OpenChanges, ChangesHeard
<1>7. ASSUME NEW p \in Paths, NEW f \in Fds, OpenUnseen(p, f)
      PROVE  ChangesHeard'
  BY <1>7 DEF OpenUnseen, Opened, ChangesHeard
<1>8. ASSUME NEW f \in Fds, DescriptorCall(f)
      PROVE  ChangesHeard'
  <2> DEFINE how == [v \in Workspaces |-> CASE v \in deaf[f] -> "deaf"
                                             [] v \notin deaf[f] /\ Moved(f) -> "moved"
                                             [] OTHER -> "report"]
  <2>1. ASSUME NEW v \in Workspaces, installed[v], lifo
        PROVE  how[v] \in Gaps \/ {at[f]} \subseteq heard'[v]
    <3>1. CASE v \in deaf[f] \/ Moved(f)
      BY <3>1 DEF Gaps
    <3>2. CASE v \notin deaf[f] /\ ~Moved(f)
      BY <1>8, <2>1, <3>2, DescriptorHeard DEF DescriptorCall, Moved
    <3> QED
      BY <3>1, <3>2
  <2>2. NoteWrite(f, how)
    BY <1>8 DEF DescriptorCall
  <2> HIDE DEF how
  <2> QED
    BY <2>1, <2>2, HeardOrGap DEF NoteWrite, ChangesHeard
<1>9. ASSUME NEW f \in Fds, CloseSync(f)
      PROVE  ChangesHeard'
  BY <1>9 DEF CloseSync, Closed, ChangesHeard
<1>10. ASSUME NEW f \in Fds, CloseUnseen(f)
       PROVE  ChangesHeard'
  BY <1>10 DEF CloseUnseen, Closed, ChangesHeard
<1>11. ASSUME NEW f \in Fds, CloseCall(f)
       PROVE  ChangesHeard'
  BY <1>11 DEF CloseCall, ChangesHeard
<1>12. ASSUME NEW x \in flights, OpenFails(x)
       PROVE  ChangesHeard'
  BY <1>12 DEF OpenFails, ChangesHeard
<1>13. ASSUME NEW x \in flights, NEW f \in Fds, OpenRuns(x, f)
       PROVE  ChangesHeard'
  <2> DEFINE how == IF x.user = None THEN Unreported("open") ELSE StreamReport(x.user)
  <2>1. heard' = heard /\ (UNCHANGED missed \/ NoteChange({x.path}, how))
    BY <1>13 DEF OpenRuns, OpenChanges
  <2>2. ASSUME NEW v \in Workspaces
        PROVE  how[v] \in Gaps \/ {x.path} \subseteq heard'[v]
    <3>1. CASE x.user = None
      BY <3>1 DEF Unreported, Gaps
    <3>2. CASE x.user # None
      <4>1. x.user \in Streams /\ streams[x.user].path = x.path
        BY <1>13, <3>2 DEF OpenRuns, Holders, Flights, StreamsMatch, Awaited
      <4>2. v \in told[x.user] => x.path \in heard[v]
        BY <4>1 DEF Told
      <4>3. v \notin told[x.user] => how[v] \in Gaps
        BY <3>2 DEF StreamReport, Gaps
      <4> QED
        BY <2>1, <4>2, <4>3
    <3> QED
      BY <3>1, <3>2
  <2> HIDE DEF how
  <2> QED
    BY <2>1, <2>2, HeardOrGap DEF ChangesHeard
<1>14. ASSUME NEW x \in flights, OpenCallback(x)
       PROVE  ChangesHeard'
  BY <1>14 DEF OpenCallback, ChangesHeard
<1>15. ASSUME NEW x \in flights, CloseRuns(x)
       PROVE  ChangesHeard'
  BY <1>15 DEF CloseRuns, Closed, ChangesHeard
<1>16. ASSUME NEW x \in flights, CloseCallback(x)
       PROVE  ChangesHeard'
  BY <1>16 DEF CloseCallback, ChangesHeard
<1>17. ASSUME NEW s \in Streams, NEW p \in Paths, CreateStream(s, p)
       PROVE  ChangesHeard'
  BY <1>17 DEF CreateStream, ChangesHeard
<1>18. ASSUME NEW s \in Streams, StreamOpens(s)
       PROVE  ChangesHeard'
  BY <1>18 DEF StreamOpens, ChangesHeard
<1>19. ASSUME NEW s \in Streams, StreamWrites(s)
       PROVE  ChangesHeard'
  <2> DEFINE f == streams[s].fd
             how == IF Moved(f) THEN Unreported("moved") ELSE StreamReport(s)
  <2>1. HearOfDescriptor(f) /\ NoteWrite(f, how) /\ fds[f].path = streams[s].path
    BY <1>19, OpenStream DEF StreamWrites
  <2>2. ASSUME NEW v \in Workspaces
        PROVE  how[v] \in Gaps \/ {at[f]} \subseteq heard'[v]
    <3>1. CASE Moved(f)
      BY <3>1 DEF Unreported, Gaps
    <3>2. CASE ~Moved(f)
      <4>1. v \in told[s] => streams[s].path \in heard[v]
        BY DEF Told
      <4>2. heard[v] \subseteq heard'[v]
        BY <2>1 DEF HearOfDescriptor
      <4>3. v \notin told[s] => how[v] \in Gaps
        BY <3>2 DEF StreamReport, Gaps
      <4> QED
        BY <2>1, <3>2, <4>1, <4>2, <4>3 DEF Moved
    <3> QED
      BY <3>1, <3>2
  <2> HIDE DEF f, how
  <2> QED
    BY <2>1, <2>2, HeardOrGap DEF NoteWrite, ChangesHeard
<1>20. ASSUME NEW s \in Streams, StreamEnds(s)
       PROVE  ChangesHeard'
  BY <1>20 DEF StreamEnds, ChangesHeard
<1>21. CASE UNCHANGED vars
  BY <1>21 DEF vars, ChangesHeard
<1>22. ASSUME NEW p \in Paths, Remove(p)
       PROVE  ChangesHeard'
  <2>1. ASSUME NEW v \in Workspaces, installed[v], lifo PROVE {p} \subseteq heard'[v]
    BY <1>22, <2>1, InstalledIsHooked DEF Remove, Hear
  <2> QED
    BY <1>22, <2>1, HeardOrGap DEF Remove
<1>23. ASSUME NEW p \in Paths, NEW q \in Paths, Rename(p, q)
       PROVE  ChangesHeard'
  <2>1. ASSUME NEW v \in Workspaces, installed[v], lifo PROVE {p, q} \subseteq heard'[v]
    BY <1>23, <2>1, InstalledIsHooked DEF Rename, Hear
  <2> QED
    BY <1>23, <2>1, HeardOrGap DEF Rename
<1>24. ASSUME NEW f \in Fds, WriteByNumber(f)
       PROVE  ChangesHeard'
  <2>1. \A v \in Workspaces : Unreported("number")[v] \in Gaps
    BY DEF Unreported, Gaps
  <2> QED
    BY <1>24, <2>1, HeardOrGap DEF WriteByNumber, NoteWrite, ChangesHeard
<1> HIDE DEF historyVars
<1> QED
  BY <1>1, <1>2, <1>3, <1>4, <1>5, <1>6, <1>7, <1>8, <1>9, <1>10, <1>11, <1>12, <1>13,
     <1>14, <1>15, <1>16, <1>17, <1>18, <1>19, <1>20, <1>21,
     <1>22, <1>23, <1>24 DEF Next

-----------------------------------------------------------------------------
(* Types, the initial states, and the theorems. *)

\* TypeOK is the conjunction of its parts.
LEMMA TypeParts ==
    /\ TypeOK <=> /\ HookTypes /\ PathTypes /\ CountTypes /\ FileTypes /\ FlightTypes
                  /\ StreamTypes /\ HeardTypes /\ DeafTypes
BY DEF TypeOK, HookTypes, PathTypes, CountTypes, FileTypes, FlightTypes, StreamTypes,
       StreamStates, HeardTypes, DeafTypes

\* Those who own, report or miss are workspaces.
LEMMA HooksAreWorkspaces ==
    ASSUME HookTypes
    PROVE  /\ Hooks \subseteq Workspaces /\ Owner \in Workspaces \cup {None}
           /\ \A p : DeafTo(p) \subseteq Workspaces
<1>1. chain \in Seq(Workspaces)
  BY DEF HookTypes
<1>2. Hooks \subseteq Workspaces
  BY <1>1, ChainIsSequence DEF Hooks
<1>3. chain # <<>> => chain[Len(chain)] \in Workspaces
  BY <1>1
<1> QED
  BY <1>2, <1>3 DEF Owner, DeafTo

\* The chain is one of wrappers.
LEMMA HookTypesStep ==
    ASSUME HookTypes, [Next]_vars
    PROVE  HookTypes'
<1> USE DEF hookVars
<1>1. ASSUME NEW w \in Workspaces, Install(w)
      PROVE  HookTypes'
  <2>1. /\ chain' = <<w>> \o chain /\ kept' = [kept EXCEPT ![w] = chain]
        /\ installed' = [installed EXCEPT ![w] = TRUE] /\ lifo' = lifo
        /\ installs' = installs + 1 /\ installs < MaxInstalls
    BY <1>1 DEF Install
  <2>2. chain' \in Seq(Workspaces)
    BY <2>1 DEF HookTypes
  <2>3. installs' \in 0..MaxInstalls
    BY <2>1, BoundsAssumption DEF HookTypes
  <2> QED
    BY <2>1, <2>2, <2>3 DEF HookTypes
<1>2. ASSUME NEW w \in Workspaces, Uninstall(w)
      PROVE  HookTypes'
  <2>1. /\ chain' = kept[w] /\ kept' = [kept EXCEPT ![w] = <<>>]
        /\ installed' = [installed EXCEPT ![w] = FALSE] /\ lifo' \in BOOLEAN
        /\ installs' = installs
    BY <1>2 DEF Uninstall
  <2>2. <<>> \in Seq(Workspaces)
    OBVIOUS
  <2> QED
    BY <2>1, <2>2 DEF HookTypes
<1>3. ASSUME NEW w \in Workspaces, Snapshot(w)
      PROVE  HookTypes'
  BY <1>3 DEF Snapshot, HookTypes
<1>4. ASSUME NEW p \in Paths, PathCall(p)
      PROVE  HookTypes'
  BY <1>4 DEF PathCall, HookTypes
<1>5. ASSUME NEW p \in Paths, OpenCall(p)
      PROVE  HookTypes'
  BY <1>5 DEF OpenCall, HookTypes
<1>6. ASSUME NEW p \in Paths, NEW f \in Fds, OpenSync(p, f)
      PROVE  HookTypes'
  BY <1>6 DEF OpenSync, Opened, OpenChanges, HookTypes
<1>7. ASSUME NEW p \in Paths, NEW f \in Fds, OpenUnseen(p, f)
      PROVE  HookTypes'
  BY <1>7 DEF OpenUnseen, Opened, HookTypes
<1>8. ASSUME NEW f \in Fds, DescriptorCall(f)
      PROVE  HookTypes'
  BY <1>8 DEF DescriptorCall, HookTypes
<1>9. ASSUME NEW f \in Fds, CloseSync(f)
      PROVE  HookTypes'
  BY <1>9 DEF CloseSync, Closed, HookTypes
<1>10. ASSUME NEW f \in Fds, CloseUnseen(f)
       PROVE  HookTypes'
  BY <1>10 DEF CloseUnseen, Closed, HookTypes
<1>11. ASSUME NEW f \in Fds, CloseCall(f)
       PROVE  HookTypes'
  BY <1>11 DEF CloseCall, HookTypes
<1>12. ASSUME NEW x \in flights, OpenFails(x)
       PROVE  HookTypes'
  BY <1>12 DEF OpenFails, HookTypes
<1>13. ASSUME NEW x \in flights, NEW f \in Fds, OpenRuns(x, f)
       PROVE  HookTypes'
  BY <1>13 DEF OpenRuns, Opened, OpenChanges, HookTypes
<1>14. ASSUME NEW x \in flights, OpenCallback(x)
       PROVE  HookTypes'
  BY <1>14 DEF OpenCallback, HookTypes
<1>15. ASSUME NEW x \in flights, CloseRuns(x)
       PROVE  HookTypes'
  BY <1>15 DEF CloseRuns, Closed, HookTypes
<1>16. ASSUME NEW x \in flights, CloseCallback(x)
       PROVE  HookTypes'
  BY <1>16 DEF CloseCallback, HookTypes
<1>17. ASSUME NEW s \in Streams, NEW p \in Paths, CreateStream(s, p)
       PROVE  HookTypes'
  BY <1>17 DEF CreateStream, HookTypes
<1>18. ASSUME NEW s \in Streams, StreamOpens(s)
       PROVE  HookTypes'
  BY <1>18 DEF StreamOpens, HookTypes
<1>19. ASSUME NEW s \in Streams, StreamWrites(s)
       PROVE  HookTypes'
  BY <1>19 DEF StreamWrites, HookTypes
<1>20. ASSUME NEW s \in Streams, StreamEnds(s)
       PROVE  HookTypes'
  BY <1>20 DEF StreamEnds, HookTypes
<1>21. CASE UNCHANGED vars
  BY <1>21 DEF vars, HookTypes
<1>22. ASSUME NEW p \in Paths, Remove(p)
       PROVE  HookTypes'
  BY <1>22 DEF Remove, HookTypes
<1>23. ASSUME NEW p \in Paths, NEW q \in Paths, Rename(p, q)
       PROVE  HookTypes'
  BY <1>23 DEF Rename, HookTypes
<1>24. ASSUME NEW f \in Fds, WriteByNumber(f)
       PROVE  HookTypes'
  BY <1>24 DEF WriteByNumber, HookTypes
<1> HIDE DEF hookVars
<1> QED
  BY <1>1, <1>2, <1>3, <1>4, <1>5, <1>6, <1>7, <1>8, <1>9, <1>10, <1>11, <1>12, <1>13,
     <1>14, <1>15, <1>16, <1>17, <1>18, <1>19, <1>20, <1>21,
     <1>22, <1>23, <1>24 DEF Next

\* What is stored for a number is a path, or nothing.
LEMMA PathTypesStep ==
    ASSUME PathTypes, Holders, [Next]_vars
    PROVE  PathTypes'
<1> USE DEF mapVars
<1>1. ASSUME NEW w \in Workspaces, Install(w)
      PROVE  PathTypes'
  BY <1>1 DEF Install, PathTypes
<1>2. ASSUME NEW w \in Workspaces, Uninstall(w)
      PROVE  PathTypes'
  BY <1>2 DEF Uninstall, NoPaths, PathTypes
<1>3. ASSUME NEW w \in Workspaces, Snapshot(w)
      PROVE  PathTypes'
  BY <1>3 DEF Snapshot, PathTypes
<1>4. ASSUME NEW p \in Paths, PathCall(p)
      PROVE  PathTypes'
  BY <1>4 DEF PathCall, PathTypes
<1>5. ASSUME NEW p \in Paths, OpenCall(p)
      PROVE  PathTypes'
  BY <1>5 DEF OpenCall, PathTypes
<1>6. ASSUME NEW p \in Paths, NEW f \in Fds, OpenSync(p, f)
      PROVE  PathTypes'
  BY <1>6 DEF OpenSync, Opened, OpenChanges, SetPath, PathTypes
<1>7. ASSUME NEW p \in Paths, NEW f \in Fds, OpenUnseen(p, f)
      PROVE  PathTypes'
  BY <1>7 DEF OpenUnseen, Opened, PathTypes
<1>8. ASSUME NEW f \in Fds, DescriptorCall(f)
      PROVE  PathTypes'
  BY <1>8 DEF DescriptorCall, PathTypes
<1>9. ASSUME NEW f \in Fds, CloseSync(f)
      PROVE  PathTypes'
  BY <1>9 DEF CloseSync, Closed, DeletePath, PathTypes
<1>10. ASSUME NEW f \in Fds, CloseUnseen(f)
       PROVE  PathTypes'
  BY <1>10 DEF CloseUnseen, Closed, PathTypes
<1>11. ASSUME NEW f \in Fds, CloseCall(f)
       PROVE  PathTypes'
  BY <1>11 DEF CloseCall, PathTypes
<1>12. ASSUME NEW x \in flights, OpenFails(x)
       PROVE  PathTypes'
  BY <1>12 DEF OpenFails, PathTypes
<1>13. ASSUME NEW x \in flights, NEW f \in Fds, OpenRuns(x, f)
       PROVE  PathTypes'
  BY <1>13 DEF OpenRuns, Opened, OpenChanges, PathTypes
<1>14. ASSUME NEW x \in flights, OpenCallback(x)
       PROVE  PathTypes'
  <2>1. x.path \in Paths
    BY <1>14 DEF Holders, Flights
  <2>2. \A w \in Workspaces : [path |-> x.path, suppressed |-> w \in x.quiet]
                              \in [path : Paths, suppressed : BOOLEAN]
    BY <2>1
  <2> HIDE DEF mapVars
  <2>3. \A w \in Workspaces :
          descriptorPaths'[w] \in
            {descriptorPaths[w],
             [descriptorPaths[w] EXCEPT ![x.fd] =
                [path |-> x.path, suppressed |-> w \in x.quiet]]}
    BY <1>14 DEF OpenCallback, SetPath
  <2>4. ASSUME NEW w \in Workspaces
        PROVE  descriptorPaths'[w] \in
                 [Fds -> {None} \cup [path : Paths, suppressed : BOOLEAN]]
    <3> DEFINE e == [path |-> x.path, suppressed |-> w \in x.quiet]
               R == [path : Paths, suppressed : BOOLEAN]
    <3>1. e \in R
      BY <2>2
    <3>2. descriptorPaths'[w] \in
            {descriptorPaths[w], [descriptorPaths[w] EXCEPT ![x.fd] = e]}
      BY <2>3
    <3>3. descriptorPaths[w] \in [Fds -> {None} \cup R]
      BY DEF PathTypes
    <3> HIDE DEF e, R
    <3>4. descriptorPaths'[w] \in [Fds -> {None} \cup R]
      BY <3>1, <3>2, <3>3
    <3> QED
      BY <3>4 DEF R
  <2>5. descriptorPaths' = [w \in Workspaces |-> descriptorPaths'[w]]
    BY <1>14 DEF OpenCallback, SetPath
  <2> QED
    BY <2>4, <2>5 DEF PathTypes
<1>15. ASSUME NEW x \in flights, CloseRuns(x)
       PROVE  PathTypes'
  BY <1>15 DEF CloseRuns, Closed, PathTypes
<1>16. ASSUME NEW x \in flights, CloseCallback(x)
       PROVE  PathTypes'
  BY <1>16 DEF CloseCallback, DeletePath, PathTypes
<1>17. ASSUME NEW s \in Streams, NEW p \in Paths, CreateStream(s, p)
       PROVE  PathTypes'
  BY <1>17 DEF CreateStream, PathTypes
<1>18. ASSUME NEW s \in Streams, StreamOpens(s)
       PROVE  PathTypes'
  BY <1>18 DEF StreamOpens, PathTypes
<1>19. ASSUME NEW s \in Streams, StreamWrites(s)
       PROVE  PathTypes'
  BY <1>19 DEF StreamWrites, PathTypes
<1>20. ASSUME NEW s \in Streams, StreamEnds(s)
       PROVE  PathTypes'
  BY <1>20 DEF StreamEnds, PathTypes
<1>21. CASE UNCHANGED vars
  BY <1>21 DEF vars, PathTypes
<1>22. ASSUME NEW p \in Paths, Remove(p)
       PROVE  PathTypes'
  BY <1>22 DEF Remove, PathTypes
<1>23. ASSUME NEW p \in Paths, NEW q \in Paths, Rename(p, q)
       PROVE  PathTypes'
  BY <1>23 DEF Rename, PathTypes
<1>24. ASSUME NEW f \in Fds, WriteByNumber(f)
       PROVE  PathTypes'
  BY <1>24 DEF WriteByNumber, PathTypes
<1> HIDE DEF mapVars
<1> QED
  BY <1>1, <1>2, <1>3, <1>4, <1>5, <1>6, <1>7, <1>8, <1>9, <1>10, <1>11, <1>12, <1>13,
     <1>14, <1>15, <1>16, <1>17, <1>18, <1>19, <1>20, <1>21,
     <1>22, <1>23, <1>24 DEF Next

\* A count that is taken down stays a number.
LEMMA ReleaseTypes ==
    ASSUME CountTypes, NEW s \in Streams, Release(s)
    PROVE  CountTypes'
<1> DEFINE u == streams[s].owner
           q == streams[s].path
<1>1. CASE u = None
  BY <1>1 DEF Release, CountTypes
<1>2. CASE u # None
  <2>1. /\ streamSuppressionOwners' = streamSuppressionOwners \ {s}
        /\ streamPathSuppressions' =
             [streamPathSuppressions EXCEPT ![u][q] = IF @ <= 1 THEN 0 ELSE @ - 1]
    BY <1>2 DEF Release
  <2> HIDE DEF u, q
  <2>2. ASSUME NEW w \in Workspaces
        PROVE  streamPathSuppressions'[w] \in [Paths -> Nat]
    <3> DEFINE d == streamPathSuppressions[w]
               e == [d EXCEPT ![q] = IF @ <= 1 THEN 0 ELSE @ - 1]
    <3>1. d \in [Paths -> Nat]
      BY DEF CountTypes
    <3>2. e \in [Paths -> Nat]
      <4> HIDE DEF d
      <4>1. \A p \in Paths : d[p] \in Nat /\ e[p] \in {d[p], IF d[p] <= 1 THEN 0 ELSE d[p] - 1}
        BY <3>1
      <4>2. e = [p \in Paths |-> e[p]]
        BY <3>1
      <4> HIDE DEF e
      <4>3. ASSUME NEW p \in Paths PROVE e[p] \in Nat
        BY <4>1
      <4> QED
        BY <4>2, <4>3
    <3>3. streamPathSuppressions'[w] \in {d, e}
      BY <2>1 DEF CountTypes
    <3> QED
      BY <3>1, <3>2, <3>3
  <2>3. streamPathSuppressions' \in [Workspaces -> [Paths -> Nat]]
    BY <2>1, <2>2 DEF CountTypes
  <2> QED
    BY <2>1, <2>3 DEF CountTypes
<1> QED
  BY <1>1, <1>2

\* Counts are numbers.
LEMMA CountTypesStep ==
    ASSUME CountTypes, Holders, [Next]_vars
    PROVE  CountTypes'
<1> USE DEF mapVars
<1>1. ASSUME NEW w \in Workspaces, Install(w)
      PROVE  CountTypes'
  BY <1>1 DEF Install, CountTypes
<1>2. ASSUME NEW w \in Workspaces, Uninstall(w)
      PROVE  CountTypes'
  BY <1>2 DEF Uninstall, NotSuppressed, CountTypes
<1>3. ASSUME NEW w \in Workspaces, Snapshot(w)
      PROVE  CountTypes'
  BY <1>3 DEF Snapshot, CountTypes
<1>4. ASSUME NEW p \in Paths, PathCall(p)
      PROVE  CountTypes'
  BY <1>4 DEF PathCall, CountTypes
<1>5. ASSUME NEW p \in Paths, OpenCall(p)
      PROVE  CountTypes'
  BY <1>5 DEF OpenCall, CountTypes
<1>6. ASSUME NEW p \in Paths, NEW f \in Fds, OpenSync(p, f)
      PROVE  CountTypes'
  BY <1>6 DEF OpenSync, Opened, OpenChanges, CountTypes
<1>7. ASSUME NEW p \in Paths, NEW f \in Fds, OpenUnseen(p, f)
      PROVE  CountTypes'
  BY <1>7 DEF OpenUnseen, Opened, CountTypes
<1>8. ASSUME NEW f \in Fds, DescriptorCall(f)
      PROVE  CountTypes'
  BY <1>8 DEF DescriptorCall, CountTypes
<1>9. ASSUME NEW f \in Fds, CloseSync(f)
      PROVE  CountTypes'
  BY <1>9 DEF CloseSync, Closed, CountTypes
<1>10. ASSUME NEW f \in Fds, CloseUnseen(f)
       PROVE  CountTypes'
  BY <1>10 DEF CloseUnseen, Closed, CountTypes
<1>11. ASSUME NEW f \in Fds, CloseCall(f)
       PROVE  CountTypes'
  BY <1>11 DEF CloseCall, CountTypes
<1>12. ASSUME NEW x \in flights, OpenFails(x)
       PROVE  CountTypes'
  <2>1. x.user \in Streams \cup {None}
    BY DEF Holders, Flights
  <2> QED
    BY <1>12, <2>1, ReleaseTypes DEF OpenFails, CountTypes
<1>13. ASSUME NEW x \in flights, NEW f \in Fds, OpenRuns(x, f)
       PROVE  CountTypes'
  BY <1>13 DEF OpenRuns, Opened, OpenChanges, CountTypes
<1>14. ASSUME NEW x \in flights, OpenCallback(x)
       PROVE  CountTypes'
  BY <1>14 DEF OpenCallback, CountTypes
<1>15. ASSUME NEW x \in flights, CloseRuns(x)
       PROVE  CountTypes'
  BY <1>15 DEF CloseRuns, Closed, CountTypes
<1>16. ASSUME NEW x \in flights, CloseCallback(x)
       PROVE  CountTypes'
  BY <1>16 DEF CloseCallback, CountTypes
<1>17. ASSUME NEW s \in Streams, NEW p \in Paths, CreateStream(s, p)
       PROVE  CountTypes'
  <2>1. streamSuppressionOwners' \subseteq Streams
    BY <1>17 DEF CreateStream, CountTypes
  <2>2. ASSUME NEW w \in Workspaces
        PROVE  [streamPathSuppressions[w] EXCEPT ![p] = @ + 1] \in [Paths -> Nat]
    BY DEF CountTypes
  <2>3. streamPathSuppressions' \in [Workspaces -> [Paths -> Nat]]
    BY <1>17, <2>2 DEF CreateStream, CountTypes
  <2> QED
    BY <2>1, <2>3 DEF CountTypes
<1>18. ASSUME NEW s \in Streams, StreamOpens(s)
       PROVE  CountTypes'
  BY <1>18 DEF StreamOpens, CountTypes
<1>19. ASSUME NEW s \in Streams, StreamWrites(s)
       PROVE  CountTypes'
  BY <1>19 DEF StreamWrites, CountTypes
<1>20. ASSUME NEW s \in Streams, StreamEnds(s)
       PROVE  CountTypes'
  BY <1>20, ReleaseTypes DEF StreamEnds
<1>21. CASE UNCHANGED vars
  BY <1>21 DEF vars, CountTypes
<1>22. ASSUME NEW p \in Paths, Remove(p)
       PROVE  CountTypes'
  BY <1>22 DEF Remove, CountTypes
<1>23. ASSUME NEW p \in Paths, NEW q \in Paths, Rename(p, q)
       PROVE  CountTypes'
  BY <1>23 DEF Rename, CountTypes
<1>24. ASSUME NEW f \in Fds, WriteByNumber(f)
       PROVE  CountTypes'
  BY <1>24 DEF WriteByNumber, CountTypes
<1> HIDE DEF mapVars
<1> QED
  BY <1>1, <1>2, <1>3, <1>4, <1>5, <1>6, <1>7, <1>8, <1>9, <1>10, <1>11, <1>12, <1>13,
     <1>14, <1>15, <1>16, <1>17, <1>18, <1>19, <1>20, <1>21,
     <1>22, <1>23, <1>24 DEF Next

\* An open descriptor has a path and a user.
LEMMA FileTypesStep ==
    ASSUME FileTypes, Holders, [Next]_vars
    PROVE  FileTypes'
<1> USE DEF fsVars
<1>1. ASSUME NEW w \in Workspaces, Install(w)
      PROVE  FileTypes'
  BY <1>1 DEF Install, FileTypes
<1>2. ASSUME NEW w \in Workspaces, Uninstall(w)
      PROVE  FileTypes'
  BY <1>2 DEF Uninstall, FileTypes
<1>3. ASSUME NEW w \in Workspaces, Snapshot(w)
      PROVE  FileTypes'
  BY <1>3 DEF Snapshot, FileTypes
<1>4. ASSUME NEW p \in Paths, PathCall(p)
      PROVE  FileTypes'
  BY <1>4 DEF PathCall, FileTypes
<1>5. ASSUME NEW p \in Paths, OpenCall(p)
      PROVE  FileTypes'
  BY <1>5 DEF OpenCall, FileTypes
<1>6. ASSUME NEW p \in Paths, NEW f \in Fds, OpenSync(p, f)
      PROVE  FileTypes'
  BY <1>6 DEF OpenSync, Opened, OpenChanges, FileTypes, FdStates
<1>7. ASSUME NEW p \in Paths, NEW f \in Fds, OpenUnseen(p, f)
      PROVE  FileTypes'
  BY <1>7 DEF OpenUnseen, Opened, FileTypes, FdStates
<1>8. ASSUME NEW f \in Fds, DescriptorCall(f)
      PROVE  FileTypes'
  BY <1>8 DEF DescriptorCall, FileTypes
<1>9. ASSUME NEW f \in Fds, CloseSync(f)
      PROVE  FileTypes'
  BY <1>9 DEF CloseSync, Closed, FileTypes, FdStates
<1>10. ASSUME NEW f \in Fds, CloseUnseen(f)
       PROVE  FileTypes'
  BY <1>10 DEF CloseUnseen, Closed, FileTypes, FdStates
<1>11. ASSUME NEW f \in Fds, CloseCall(f)
       PROVE  FileTypes'
  BY <1>11 DEF CloseCall, FileTypes
<1>12. ASSUME NEW x \in flights, OpenFails(x)
       PROVE  FileTypes'
  BY <1>12 DEF OpenFails, FileTypes
<1>13. ASSUME NEW x \in flights, NEW f \in Fds, OpenRuns(x, f)
       PROVE  FileTypes'
  <2>1. [path |-> x.path, user |-> x.user] \in FdStates /\ x.path \in Paths
    BY DEF Holders, Flights, FdStates
  <2> QED
    BY <1>13, <2>1 DEF OpenRuns, Opened, OpenChanges, FileTypes
<1>14. ASSUME NEW x \in flights, OpenCallback(x)
       PROVE  FileTypes'
  BY <1>14 DEF OpenCallback, FileTypes
<1>15. ASSUME NEW x \in flights, CloseRuns(x)
       PROVE  FileTypes'
  BY <1>15 DEF CloseRuns, Closed, FileTypes, FdStates
<1>16. ASSUME NEW x \in flights, CloseCallback(x)
       PROVE  FileTypes'
  BY <1>16 DEF CloseCallback, FileTypes
<1>17. ASSUME NEW s \in Streams, NEW p \in Paths, CreateStream(s, p)
       PROVE  FileTypes'
  BY <1>17 DEF CreateStream, FileTypes
<1>18. ASSUME NEW s \in Streams, StreamOpens(s)
       PROVE  FileTypes'
  BY <1>18 DEF StreamOpens, FileTypes
<1>19. ASSUME NEW s \in Streams, StreamWrites(s)
       PROVE  FileTypes'
  BY <1>19 DEF StreamWrites, FileTypes
<1>20. ASSUME NEW s \in Streams, StreamEnds(s)
       PROVE  FileTypes'
  BY <1>20 DEF StreamEnds, FileTypes
<1>21. CASE UNCHANGED vars
  BY <1>21 DEF vars, FileTypes
<1>22. ASSUME NEW p \in Paths, Remove(p)
       PROVE  FileTypes'
  BY <1>22 DEF Remove, FileTypes
<1>23. ASSUME NEW p \in Paths, NEW q \in Paths, Rename(p, q)
       PROVE  FileTypes'
  BY <1>23 DEF Rename, FileTypes
<1>24. ASSUME NEW f \in Fds, WriteByNumber(f)
       PROVE  FileTypes'
  BY <1>24 DEF WriteByNumber, FileTypes
<1> HIDE DEF fsVars
<1> QED
  BY <1>1, <1>2, <1>3, <1>4, <1>5, <1>6, <1>7, <1>8, <1>9, <1>10, <1>11, <1>12, <1>13,
     <1>14, <1>15, <1>16, <1>17, <1>18, <1>19, <1>20, <1>21,
     <1>22, <1>23, <1>24 DEF Next

\* A stream has a state, a path, an owner and a descriptor.
LEMMA StreamTypesStep ==
    ASSUME StreamTypes, HookTypes, Holders, [Next]_vars
    PROVE  StreamTypes'
<1> USE DEF fsVars
<1>1. ASSUME NEW w \in Workspaces, Install(w)
      PROVE  StreamTypes'
  BY <1>1 DEF Install, StreamTypes
<1>2. ASSUME NEW w \in Workspaces, Uninstall(w)
      PROVE  StreamTypes'
  BY <1>2 DEF Uninstall, StreamTypes
<1>3. ASSUME NEW w \in Workspaces, Snapshot(w)
      PROVE  StreamTypes'
  BY <1>3 DEF Snapshot, StreamTypes
<1>4. ASSUME NEW p \in Paths, PathCall(p)
      PROVE  StreamTypes'
  BY <1>4 DEF PathCall, StreamTypes
<1>5. ASSUME NEW p \in Paths, OpenCall(p)
      PROVE  StreamTypes'
  BY <1>5 DEF OpenCall, StreamTypes
<1>6. ASSUME NEW p \in Paths, NEW f \in Fds, OpenSync(p, f)
      PROVE  StreamTypes'
  BY <1>6 DEF OpenSync, Opened, OpenChanges, StreamTypes
<1>7. ASSUME NEW p \in Paths, NEW f \in Fds, OpenUnseen(p, f)
      PROVE  StreamTypes'
  BY <1>7 DEF OpenUnseen, Opened, StreamTypes
<1>8. ASSUME NEW f \in Fds, DescriptorCall(f)
      PROVE  StreamTypes'
  BY <1>8 DEF DescriptorCall, StreamTypes
<1>9. ASSUME NEW f \in Fds, CloseSync(f)
      PROVE  StreamTypes'
  BY <1>9 DEF CloseSync, Closed, StreamTypes
<1>10. ASSUME NEW f \in Fds, CloseUnseen(f)
       PROVE  StreamTypes'
  BY <1>10 DEF CloseUnseen, Closed, StreamTypes
<1>11. ASSUME NEW f \in Fds, CloseCall(f)
       PROVE  StreamTypes'
  BY <1>11 DEF CloseCall, StreamTypes
<1>12. ASSUME NEW x \in flights, OpenFails(x)
       PROVE  StreamTypes'
  <2>1. \A t \in Streams : [streams[t] EXCEPT !.state = "ended"] \in StreamStates
    BY DEF StreamTypes, StreamStates
  <2>2. x.user \in Streams \cup {None}
    BY DEF Holders, Flights
  <2> QED
    BY <1>12, <2>1, <2>2 DEF OpenFails, StreamTypes
<1>13. ASSUME NEW x \in flights, NEW f \in Fds, OpenRuns(x, f)
       PROVE  StreamTypes'
  BY <1>13 DEF OpenRuns, Opened, OpenChanges, StreamTypes
<1>14. ASSUME NEW x \in flights, OpenCallback(x)
       PROVE  StreamTypes'
  <2>1. x.user \in Streams \cup {None} /\ x.fd \in Fds \cup {None}
    BY DEF Holders, Flights
  <2>2. \A t \in Streams :
          [streams[t] EXCEPT !.state = "open", !.fd = x.fd] \in StreamStates
    BY <2>1 DEF StreamTypes, StreamStates
  <2> QED
    BY <1>14, <2>1, <2>2 DEF OpenCallback, StreamTypes
<1>15. ASSUME NEW x \in flights, CloseRuns(x)
       PROVE  StreamTypes'
  BY <1>15 DEF CloseRuns, Closed, StreamTypes
<1>16. ASSUME NEW x \in flights, CloseCallback(x)
       PROVE  StreamTypes'
  BY <1>16 DEF CloseCallback, StreamTypes
<1>17. ASSUME NEW s \in Streams, NEW p \in Paths, CreateStream(s, p)
       PROVE  StreamTypes'
  <2>1. [state |-> "created", path |-> p, owner |-> Owner, fd |-> None] \in StreamStates
    BY HooksAreWorkspaces DEF StreamStates
  <2> QED
    BY <1>17, <2>1 DEF CreateStream, StreamTypes
<1>18. ASSUME NEW s \in Streams, StreamOpens(s)
       PROVE  StreamTypes'
  <2>1. [streams[s] EXCEPT !.state = "opening"] \in StreamStates
    BY DEF StreamTypes, StreamStates
  <2> QED
    BY <1>18, <2>1 DEF StreamOpens, StreamTypes
<1>19. ASSUME NEW s \in Streams, StreamWrites(s)
       PROVE  StreamTypes'
  BY <1>19 DEF StreamWrites, StreamTypes
<1>20. ASSUME NEW s \in Streams, StreamEnds(s)
       PROVE  StreamTypes'
  <2>1. [streams[s] EXCEPT !.state = "ended"] \in StreamStates
    BY DEF StreamTypes, StreamStates
  <2> QED
    BY <1>20, <2>1 DEF StreamEnds, StreamTypes
<1>21. CASE UNCHANGED vars
  BY <1>21 DEF vars, StreamTypes
<1>22. ASSUME NEW p \in Paths, Remove(p)
       PROVE  StreamTypes'
  BY <1>22 DEF Remove, StreamTypes
<1>23. ASSUME NEW p \in Paths, NEW q \in Paths, Rename(p, q)
       PROVE  StreamTypes'
  BY <1>23 DEF Rename, StreamTypes
<1>24. ASSUME NEW f \in Fds, WriteByNumber(f)
       PROVE  StreamTypes'
  BY <1>24 DEF WriteByNumber, StreamTypes
<1> HIDE DEF fsVars
<1> QED
  BY <1>1, <1>2, <1>3, <1>4, <1>5, <1>6, <1>7, <1>8, <1>9, <1>10, <1>11, <1>12, <1>13,
     <1>14, <1>15, <1>16, <1>17, <1>18, <1>19, <1>20, <1>21,
     <1>22, <1>23, <1>24 DEF Next

\* A change is noted for workspaces, with a way it was made.
Ways == [Workspaces -> Gaps \cup {"report"}]

LEMMA MissedTypes ==
    ASSUME missed \subseteq [who : Workspaces, how : Gaps \cup {"report"}],
           NEW P, NEW how \in Ways, UNCHANGED missed \/ NoteChange(P, how)
    PROVE  missed' \subseteq [who : Workspaces, how : Gaps \cup {"report"}]
BY DEF NoteChange, Ways

LEMMA WaysOfChange ==
    /\ Reported \in Ways
    /\ \A gap \in Gaps : Unreported(gap) \in Ways
    /\ \A s : StreamReport(s) \in Ways
BY DEF Reported, Unreported, StreamReport, Ways, Gaps

\* Paths are heard.
LEMMA HeardTypesStep ==
    ASSUME HeardTypes, HookTypes, PathTypes, StreamsMatch, [Next]_vars
    PROVE  HeardTypes'
<1> USE DEF historyVars
<1>1. ASSUME NEW w \in Workspaces, Install(w)
      PROVE  HeardTypes'
  BY <1>1 DEF Install, BeginWatch, HeardTypes
<1>2. ASSUME NEW w \in Workspaces, Uninstall(w)
      PROVE  HeardTypes'
  BY <1>2 DEF Uninstall, HeardTypes
<1>3. ASSUME NEW w \in Workspaces, Snapshot(w)
      PROVE  HeardTypes'
  BY <1>3 DEF Snapshot, HeardTypes, BeginWatch
<1>4. ASSUME NEW p \in Paths, PathCall(p)
      PROVE  HeardTypes'
  <2>1. heard' \in [Workspaces -> SUBSET Paths]
    BY <1>4 DEF PathCall, Hear, HeardTypes
  <2> QED
    BY <1>4, <2>1, MissedTypes, WaysOfChange DEF PathCall, HeardTypes
<1>5. ASSUME NEW p \in Paths, OpenCall(p)
      PROVE  HeardTypes'
  BY <1>5 DEF OpenCall, HeardTypes
<1>6. ASSUME NEW p \in Paths, NEW f \in Fds, OpenSync(p, f)
      PROVE  HeardTypes'
  <2>1. Unreported("open") \in Ways
    BY WaysOfChange DEF Gaps
  <2> QED
    BY <1>6, <2>1, MissedTypes DEF OpenSync, OpenChanges, HeardTypes
<1>7. ASSUME NEW p \in Paths, NEW f \in Fds, OpenUnseen(p, f)
      PROVE  HeardTypes'
  BY <1>7 DEF OpenUnseen, Opened, HeardTypes
<1>8. ASSUME NEW f \in Fds, DescriptorCall(f)
      PROVE  HeardTypes'
  <2> DEFINE how == [v \in Workspaces |-> CASE v \in deaf[f] -> "deaf"
                                             [] v \notin deaf[f] /\ Moved(f) -> "moved"
                                             [] OTHER -> "report"]
  <2>1. ASSUME NEW v \in Workspaces, Resolves(v, f)
        PROVE  descriptorPaths[v][f].path \in Paths
    BY <2>1 DEF PathTypes, Resolves
  <2>2. heard' \in [Workspaces -> SUBSET Paths]
    BY <1>8, <2>1 DEF DescriptorCall, HearOfDescriptor, HeardTypes
  <2>3. how \in Ways
    BY DEF Ways, Gaps
  <2>4. NoteWrite(f, how) /\ UNCHANGED told
    BY <1>8 DEF DescriptorCall
  <2> HIDE DEF how
  <2> QED
    BY <2>2, <2>3, <2>4, MissedTypes DEF NoteWrite, HeardTypes
<1>9. ASSUME NEW f \in Fds, CloseSync(f)
      PROVE  HeardTypes'
  BY <1>9 DEF CloseSync, Closed, HeardTypes
<1>10. ASSUME NEW f \in Fds, CloseUnseen(f)
       PROVE  HeardTypes'
  BY <1>10 DEF CloseUnseen, Closed, HeardTypes
<1>11. ASSUME NEW f \in Fds, CloseCall(f)
       PROVE  HeardTypes'
  BY <1>11 DEF CloseCall, HeardTypes
<1>12. ASSUME NEW x \in flights, OpenFails(x)
       PROVE  HeardTypes'
  BY <1>12 DEF OpenFails, HeardTypes
<1>13. ASSUME NEW x \in flights, NEW f \in Fds, OpenRuns(x, f)
       PROVE  HeardTypes'
  <2>1. Unreported("open") \in Ways /\ StreamReport(x.user) \in Ways
    BY WaysOfChange DEF Gaps
  <2> QED
    BY <1>13, <2>1, MissedTypes DEF OpenRuns, OpenChanges, HeardTypes
<1>14. ASSUME NEW x \in flights, OpenCallback(x)
       PROVE  HeardTypes'
  BY <1>14 DEF OpenCallback, HeardTypes
<1>15. ASSUME NEW x \in flights, CloseRuns(x)
       PROVE  HeardTypes'
  BY <1>15 DEF CloseRuns, Closed, HeardTypes
<1>16. ASSUME NEW x \in flights, CloseCallback(x)
       PROVE  HeardTypes'
  BY <1>16 DEF CloseCallback, HeardTypes
<1>17. ASSUME NEW s \in Streams, NEW p \in Paths, CreateStream(s, p)
       PROVE  HeardTypes'
  BY <1>17, HooksAreWorkspaces DEF CreateStream, Hear, HeardTypes
<1>18. ASSUME NEW s \in Streams, StreamOpens(s)
       PROVE  HeardTypes'
  BY <1>18 DEF StreamOpens, HeardTypes
<1>19. ASSUME NEW s \in Streams, StreamWrites(s)
       PROVE  HeardTypes'
  <2> DEFINE f == streams[s].fd
             how == IF Moved(f) THEN Unreported("moved") ELSE StreamReport(s)
  <2>1. f \in Fds
    BY <1>19 DEF StreamWrites, StreamsMatch, Attached
  <2>2. ASSUME NEW v \in Workspaces, Resolves(v, f)
        PROVE  descriptorPaths[v][f].path \in Paths
    BY <2>1, <2>2 DEF PathTypes, Resolves
  <2>3. heard' \in [Workspaces -> SUBSET Paths]
    BY <1>19, <2>2 DEF StreamWrites, HearOfDescriptor, HeardTypes
  <2>4. how \in Ways
    BY WaysOfChange DEF Gaps
  <2>5. NoteWrite(f, how) /\ UNCHANGED told
    BY <1>19 DEF StreamWrites
  <2> HIDE DEF f, how
  <2> QED
    BY <2>3, <2>4, <2>5, MissedTypes DEF NoteWrite, HeardTypes
<1>20. ASSUME NEW s \in Streams, StreamEnds(s)
       PROVE  HeardTypes'
  BY <1>20 DEF StreamEnds, HeardTypes
<1>21. CASE UNCHANGED vars
  BY <1>21 DEF vars, HeardTypes
<1>22. ASSUME NEW p \in Paths, Remove(p)
       PROVE  HeardTypes'
  <2>1. heard' \in [Workspaces -> SUBSET Paths]
    BY <1>22 DEF Remove, Hear, HeardTypes
  <2> QED
    BY <1>22, <2>1, MissedTypes, WaysOfChange DEF Remove, HeardTypes
<1>23. ASSUME NEW p \in Paths, NEW q \in Paths, Rename(p, q)
       PROVE  HeardTypes'
  <2>1. heard' \in [Workspaces -> SUBSET Paths]
    BY <1>23 DEF Rename, Hear, HeardTypes
  <2> QED
    BY <1>23, <2>1, MissedTypes, WaysOfChange DEF Rename, HeardTypes
<1>24. ASSUME NEW f \in Fds, WriteByNumber(f)
       PROVE  HeardTypes'
  <2>1. Unreported("number") \in Ways
    BY WaysOfChange DEF Gaps
  <2> QED
    BY <1>24, <2>1, MissedTypes DEF WriteByNumber, NoteWrite, HeardTypes
<1> HIDE DEF historyVars
<1> QED
  BY <1>1, <1>2, <1>3, <1>4, <1>5, <1>6, <1>7, <1>8, <1>9, <1>10, <1>11, <1>12, <1>13,
     <1>14, <1>15, <1>16, <1>17, <1>18, <1>19, <1>20, <1>21,
     <1>22, <1>23, <1>24 DEF Next

\* The history of descriptors is about workspaces and descriptors.
LEMMA DeafTypesStep ==
    ASSUME DeafTypes, HookTypes, Holders, [Next]_vars
    PROVE  DeafTypes'
<1> USE DEF historyVars
<1>1. ASSUME NEW w \in Workspaces, Install(w)
      PROVE  DeafTypes'
  BY <1>1 DEF Install, DeafTypes
<1>2. ASSUME NEW w \in Workspaces, Uninstall(w)
      PROVE  DeafTypes'
  BY <1>2 DEF Uninstall, DeafTypes
<1>3. ASSUME NEW w \in Workspaces, Snapshot(w)
      PROVE  DeafTypes'
  BY <1>3 DEF Snapshot, DeafTypes
<1>4. ASSUME NEW p \in Paths, PathCall(p)
      PROVE  DeafTypes'
  BY <1>4 DEF PathCall, DeafTypes
<1>5. ASSUME NEW p \in Paths, OpenCall(p)
      PROVE  DeafTypes'
  BY <1>5 DEF OpenCall, DeafTypes
<1>6. ASSUME NEW p \in Paths, NEW f \in Fds, OpenSync(p, f)
      PROVE  DeafTypes'
  BY <1>6, HooksAreWorkspaces DEF OpenSync, Opened, OpenChanges, SetPath, DeafTypes
<1>7. ASSUME NEW p \in Paths, NEW f \in Fds, OpenUnseen(p, f)
      PROVE  DeafTypes'
  BY <1>7 DEF OpenUnseen, Opened, DeafTypes
<1>8. ASSUME NEW f \in Fds, DescriptorCall(f)
      PROVE  DeafTypes'
  BY <1>8 DEF DescriptorCall, DeafTypes
<1>9. ASSUME NEW f \in Fds, CloseSync(f)
      PROVE  DeafTypes'
  BY <1>9 DEF CloseSync, Closed, NoteClose, DeafTypes
<1>10. ASSUME NEW f \in Fds, CloseUnseen(f)
       PROVE  DeafTypes'
  BY <1>10 DEF CloseUnseen, Closed, NoteClose, DeafTypes
<1>11. ASSUME NEW f \in Fds, CloseCall(f)
       PROVE  DeafTypes'
  BY <1>11 DEF CloseCall, DeafTypes
<1>12. ASSUME NEW x \in flights, OpenFails(x)
       PROVE  DeafTypes'
  BY <1>12 DEF OpenFails, DeafTypes
<1>13. ASSUME NEW x \in flights, NEW f \in Fds, OpenRuns(x, f)
       PROVE  DeafTypes'
  BY <1>13 DEF OpenRuns, Opened, OpenChanges, DeafTypes
<1>14. ASSUME NEW x \in flights, OpenCallback(x)
       PROVE  DeafTypes'
  <2>1. x.fd \in Fds /\ x.deaf \subseteq Workspaces
    BY <1>14, NoneAssumption DEF OpenCallback, Holders, Proper, Flights
  <2> QED
    BY <1>14, <2>1 DEF OpenCallback, SetPath, DeafTypes
<1>15. ASSUME NEW x \in flights, CloseRuns(x)
       PROVE  DeafTypes'
  <2>1. x.fd \in Fds
    BY <1>15 DEF CloseRuns, Closed, Holders, Proper
  <2> QED
    BY <1>15, <2>1 DEF CloseRuns, Closed, NoteClose, DeafTypes
<1>16. ASSUME NEW x \in flights, CloseCallback(x)
       PROVE  DeafTypes'
  <2>1. x.via \subseteq Workspaces
    BY DEF Holders, Flights
  <2> QED
    BY <1>16, <2>1 DEF CloseCallback, DeafTypes
<1>17. ASSUME NEW s \in Streams, NEW p \in Paths, CreateStream(s, p)
       PROVE  DeafTypes'
  BY <1>17 DEF CreateStream, DeafTypes
<1>18. ASSUME NEW s \in Streams, StreamOpens(s)
       PROVE  DeafTypes'
  BY <1>18 DEF StreamOpens, DeafTypes
<1>19. ASSUME NEW s \in Streams, StreamWrites(s)
       PROVE  DeafTypes'
  BY <1>19 DEF StreamWrites, DeafTypes
<1>20. ASSUME NEW s \in Streams, StreamEnds(s)
       PROVE  DeafTypes'
  BY <1>20 DEF StreamEnds, DeafTypes
<1>21. CASE UNCHANGED vars
  BY <1>21 DEF vars, DeafTypes
<1>22. ASSUME NEW p \in Paths, Remove(p)
       PROVE  DeafTypes'
  BY <1>22 DEF Remove, DeafTypes
<1>23. ASSUME NEW p \in Paths, NEW q \in Paths, Rename(p, q)
       PROVE  DeafTypes'
  BY <1>23 DEF Rename, DeafTypes
<1>24. ASSUME NEW f \in Fds, WriteByNumber(f)
       PROVE  DeafTypes'
  BY <1>24 DEF WriteByNumber, DeafTypes
<1> HIDE DEF historyVars
<1> QED
  BY <1>1, <1>2, <1>3, <1>4, <1>5, <1>6, <1>7, <1>8, <1>9, <1>10, <1>11, <1>12, <1>13,
     <1>14, <1>15, <1>16, <1>17, <1>18, <1>19, <1>20, <1>21,
     <1>22, <1>23, <1>24 DEF Next

\* Every step keeps the types.
LEMMA TypeStep ==
    ASSUME TypeOK, Holders, StreamsMatch, Holders', [Next]_vars
    PROVE  TypeOK'
<1>1. /\ HookTypes /\ PathTypes /\ CountTypes /\ FileTypes /\ StreamTypes /\ HeardTypes
      /\ DeafTypes
  BY TypeParts
<1>2. HookTypes' /\ PathTypes' /\ CountTypes' /\ FileTypes' /\ StreamTypes' /\ DeafTypes'
  BY <1>1, HookTypesStep, PathTypesStep, CountTypesStep, FileTypesStep, StreamTypesStep,
     DeafTypesStep
<1>3. HeardTypes'
  BY <1>1, HeardTypesStep
<1>4. FlightTypes'
  BY DEF Holders, Flights, FlightTypes
<1> QED
  BY <1>2, <1>3, <1>4 DEF TypeOK, HookTypes, PathTypes, CountTypes, FileTypes, FlightTypes,
     StreamTypes, StreamStates, HeardTypes, DeafTypes

\* The invariant holds before the first interceptor is installed.
LEMMA InitInv ==
    ASSUME Init
    PROVE  Inv
<1> USE DEF Init
<1>1. TypeOK
  <2>1. HookTypes
    BY BoundsAssumption DEF HookTypes
  <2>2. PathTypes /\ CountTypes /\ FileTypes /\ FlightTypes
    BY DEF PathTypes, CountTypes, FileTypes, FlightTypes, NoPaths, NotSuppressed, FdStates
  <2>3. StreamTypes
    BY DEF StreamTypes, StreamStates, IdleStream
  <2>4. HeardTypes /\ DeafTypes
    BY DEF HeardTypes, DeafTypes
  <2> QED
    BY <2>1, <2>2, <2>3, <2>4, TypeParts
<1>2. Hooks = {} /\ DOMAIN chain = {} /\ Len(chain) = 0
  BY DEF Hooks, Range
<1>3. OnceEach
  BY <1>2, FS_EmptySet DEF OnceEach, Distinct
<1>4. HooksMatch
  BY <1>2, FS_EmptySet DEF HooksMatch
<1>5. Holders /\ MappedTrue
  BY DEF Holders, MappedTrue, NoPaths
<1>6. StreamsMatch
  BY DEF StreamsMatch, Attached, IdleStream
<1>7. FewStreams
  <2>1. {s \in Streams : streams[s].state # "unused"} = {}
    BY DEF IdleStream
  <2> QED
    BY <2>1, FS_EmptySet DEF FewStreams
<1>8. SuppressionEnds
  <2>1. \A w \in Workspaces, p \in Paths : Writing(w, p) = {}
    BY NoneAssumption DEF Writing, IdleStream
  <2>2. ASSUME NEW w \in Workspaces, NEW p \in Paths
        PROVE  streamPathSuppressions[w][p] <= Cardinality(Writing(w, p))
    <3>1. streamPathSuppressions[w][p] = 0
      BY DEF NotSuppressed
    <3>2. Cardinality(Writing(w, p)) = 0
      BY <2>1, FS_EmptySet
    <3> QED
      BY <3>1, <3>2
  <2> QED
    BY <2>2 DEF SuppressionEnds, Writing
<1>9. Informed /\ Told /\ ChangesHeard
  BY DEF Informed, Usable, NoPaths, Told, ChangesHeard
<1> QED
  BY <1>1, <1>3, <1>4, <1>5, <1>6, <1>7, <1>8, <1>9 DEF Inv

\* Every step keeps the invariant.
LEMMA NextInv ==
    ASSUME Inv, [Next]_vars
    PROVE  Inv'
<1>1. /\ TypeOK /\ OnceEach /\ HooksMatch /\ Holders /\ StreamsMatch /\ FewStreams
      /\ SuppressionEnds /\ MappedTrue /\ Informed /\ Told /\ ChangesHeard
  BY DEF Inv
<1>2. Holders' /\ StreamsMatch'
  BY <1>1, HoldersStep, StreamsStep
<1>3. TypeOK'
  BY <1>1, <1>2, TypeStep
<1>4. OnceEach' /\ HooksMatch'
  BY <1>1, <1>3, HooksStep
<1>5. FewStreams' /\ SuppressionEnds'
  BY <1>1, SuppressionStep
<1>6. MappedTrue' /\ Informed'
  BY <1>1, MappedStep, InformedStep
<1>7. Told' /\ ChangesHeard'
  BY <1>1, ToldStep, HeardStep
<1> QED
  BY <1>2, <1>3, <1>4, <1>5, <1>6, <1>7 DEF Inv

LEMMA Invariance == Spec => []Inv
<1>1. Init => Inv
  BY InitInv
<1>2. Inv /\ [Next]_vars => Inv'
  BY NextInv
<1> QED
  BY <1>1, <1>2, PTL DEF Spec

\* Every variable keeps its type.
THEOREM TypeCorrect == Spec => []TypeOK
<1>1. Inv => TypeOK
  BY DEF Inv
<1> QED
  BY <1>1, Invariance, PTL

\* As long as interceptors come off in the order they went on, the patched
\* functions are the wrappers of the installed ones, each once, and each keeps
\* what is below it, for any number of interceptors.
THEOREM HooksAreRight == Spec => []HooksMatch
<1>1. Inv => HooksMatch
  BY DEF Inv
<1> QED
  BY <1>1, Invariance, PTL

\* The path stored for a descriptor is the one by which the file open under its
\* number was opened, however numbers are reused and callbacks delayed, unless
\* the last close went past the wrapper.
THEOREM MappingIsTrue == Spec => []MappingTrue
<1>1. Inv => MappingTrue
  BY DEF Inv, MappedTrue, MappingTrue
<1> QED
  BY <1>1, Invariance, PTL

\* A path is suppressed for no more streams than write to it: a suppression does
\* not outlast its stream.
THEOREM SuppressionIsBounded == Spec => []SuppressionEnds
<1>1. Inv => SuppressionEnds
  BY DEF Inv
<1> QED
  BY <1>1, Invariance, PTL

\* No change that a patched call makes is missed by a workspace with an
\* interceptor, but through one of the gaps that ChangesHeard names.
THEOREM NothingIsMissed == Spec => []ChangesHeard
<1>1. Inv => ChangesHeard
  BY DEF Inv
<1> QED
  BY <1>1, Invariance, PTL
=============================================================================
