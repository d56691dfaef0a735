--------------------------- MODULE TeardownProofs ---------------------------
(***************************************************************************)
(* Proofs about the end of the process, for any clients: what was made is  *)
(* deleted, and nothing but the event queue twice.                         *)
(***************************************************************************)
EXTENDS VehicleProofs, StreamLemmas

\* list::remove takes out the element and leaves the others.
LEMMA WithoutElements ==
    ASSUME NEW S, NEW s \in Seq(S), NEW x
    PROVE  Without(s, x) \in Seq(S) /\ ToSet(Without(s, x)) = ToSet(s) \ {x}
<1> DEFINE ss == [i \in DOMAIN s |-> IF s[i] = x THEN <<>> ELSE <<s[i]>>]
<1>1. Len(s) \in Nat /\ DOMAIN s = 1..Len(s) /\ \A i \in 1..Len(s) : s[i] \in S
  BY LenProperties, ElementOfSeq
<1>2. ss \in Seq(Seq(S)) /\ DOMAIN ss = DOMAIN s
  BY <1>1
<1>3. ASSUME NEW i \in DOMAIN s
      PROVE  ToSet(ss[i]) = IF s[i] = x THEN {} ELSE {s[i]}
  <2>1. ToSet(<<>>) = {} /\ ToSet(<<s[i]>>) = {s[i]}
    BY DEF ToSet
  <2> QED
    BY <2>1
<1>4. Without(s, x) = FlattenSeq(ss)
  BY DEF Without
<1> HIDE DEF ss
<1>5. FlattenSeq(ss) \in Seq(S)
  BY <1>2, FlattenType
<1>6. ToSet(FlattenSeq(ss)) = UNION {ToSet(ss[i]) : i \in DOMAIN ss}
  BY <1>2, FlattenElements
<1>7. UNION {ToSet(ss[i]) : i \in DOMAIN ss} = {s[i] : i \in DOMAIN s} \ {x}
  BY <1>2, <1>3
<1> QED
  BY <1>4, <1>5, <1>6, <1>7 DEF ToSet

-----------------------------------------------------------------------------
Plain  == Objects \ ToSet(QueueDeletes)
Listed == {x \in Plain : x \in ToSet(MainFiles \o clients)}

\* What is registered or yet to be deleted was not deleted before; what was
\* not deleted is still registered when the loop starts on what is left.
ExitInv ==
    /\ clients \in Seq(Clients)
    /\ files \in Seq(Objects) /\ todo \in Seq(Objects)
    /\ freed \in [Objects -> Nat]
    /\ \A i, j \in DOMAIN todo : todo[i] = todo[j] => i = j
    /\ \A x \in Plain :
          /\ freed[x] <= 1
          /\ phase = "exit" /\ x \in ToSet(files) => freed[x] = 0
          /\ phase \in {"exit", "again"} /\ x \in ToSet(todo) => freed[x] = 0
    /\ phase \in {"run", "hung"} => freed = [x \in Objects |-> 0]
    /\ phase = "exit" => \A x \in Listed : freed[x] = 0 => x \in ToSet(files)
    /\ phase \in {"again", "done"} => \A x \in Listed : freed[x] = 1

\* x is deleted while s is registered: nothing is but s and x.
LEMMA OneDelete ==
    ASSUME ExitInv, phase \in {"exit", "again"}, NEW x \in Objects,
           NEW s \in Seq(Objects), Delete(x, s), clients' = clients,
           ToSet(s) \subseteq ToSet(files), ToSet(files) \subseteq ToSet(s) \cup {x},
           todo' \in Seq(Objects), ToSet(todo') \subseteq ToSet(todo) \ {x},
           \A i, j \in DOMAIN todo' : todo'[i] = todo'[j] => i = j,
           x \in Plain => freed[x] = 0
    PROVE  ExitInv'
<1> USE DEF ExitInv
<1>1. /\ freed' = [freed EXCEPT ![x] = @ + 1] /\ files' = Without(s, x)
      /\ phase' \in {phase, "crashed"}
  BY DEF Delete
<1>2. files' \in Seq(Objects) /\ ToSet(files') = ToSet(s) \ {x}
  BY <1>1, WithoutElements
<1>3. freed' \in [Objects -> Nat]
  BY <1>1
<1>4. ASSUME NEW y \in Objects
      PROVE  freed'[y] = IF y = x THEN freed[y] + 1 ELSE freed[y]
  BY <1>1
<1>5. Plain \subseteq Objects /\ Listed \subseteq Plain /\ Listed' = Listed
  BY DEF Plain, Listed
<1>6. ASSUME NEW y \in Plain
      PROVE  /\ freed'[y] <= 1
             /\ phase' = "exit" /\ y \in ToSet(files') => freed'[y] = 0
             /\ phase' \in {"exit", "again"} /\ y \in ToSet(todo') => freed'[y] = 0
  <2>1. CASE y = x
    <3>1. freed[y] = 0 /\ freed'[y] = 1
      BY <1>4, <1>5, <2>1
    <3> QED
      BY <1>2, <2>1, <3>1
  <2>2. CASE y # x
    <3>1. freed'[y] = freed[y]
      BY <1>4, <1>5, <2>2
    <3> QED
      BY <1>1, <1>2, <3>1
  <2> QED
    BY <2>1, <2>2
<1>7. ASSUME phase' = "exit", NEW y \in Listed, freed'[y] = 0
      PROVE  y \in ToSet(files')
  <2>1. freed[y] \in Nat /\ y \in Objects
    BY <1>5
  <2>2. y # x /\ freed[y] = 0
    BY <1>4, <1>7, <2>1
  <2> QED
    BY <1>1, <1>2, <1>7, <2>2
<1>8. ASSUME phase' \in {"again", "done"}, NEW y \in Listed PROVE freed'[y] = 1
  <2>1. freed[y] = 1 /\ y \in Plain /\ y \in Objects
    BY <1>1, <1>5, <1>8
  <2> QED
    BY <1>4, <2>1
<1>9. phase' \notin {"run", "hung"}
  BY <1>1
<1>10. /\ ToSet(files)' = ToSet(files') /\ ToSet(todo)' = ToSet(todo')
       /\ Plain' = Plain
  BY DEF ToSet, Plain, Objects
<1> QED
  BY <1>2, <1>3, <1>5, <1>6, <1>7, <1>8, <1>9, <1>10

LEMMA ExitStep == ASSUME ExitInv, [VehicleNext]_vehicleVars PROVE ExitInv'
<1> USE DEF inVars, outVars, sessionVars, busVars, exitVars
<1>0. ASSUME UNCHANGED <<clients, files, todo, freed>>,
             phase' = phase \/ (phase = "run" /\ phase' = "hung")
      PROVE  ExitInv'
  <2>1. /\ ToSet(files)' = ToSet(files) /\ ToSet(todo)' = ToSet(todo)
        /\ Plain' = Plain /\ Listed' = Listed
    BY <1>0 DEF ToSet, Plain, Listed, Objects
  <2> QED
    BY <1>0, <2>1 DEF ExitInv
<1>1. ASSUME NEW c \in Clients, phase = "run", Connect(c), UNCHANGED exitVars
      PROVE  ExitInv'
  <2>1. clients' \in Seq(Clients)
    BY <1>1, AppendProperties DEF Connect, ExitInv
  <2>2. /\ ToSet(files)' = ToSet(files) /\ ToSet(todo)' = ToSet(todo)
        /\ Plain' = Plain
    BY <1>1 DEF ToSet, Plain, Objects
  <2> QED
    BY <1>1, <2>1, <2>2 DEF ExitInv
<1>2. ASSUME NEW c \in Clients, phase = "run", Peer(c) \/ Handler(c),
             UNCHANGED exitVars
      PROVE  ExitInv'
  BY <1>0, <1>1, <1>2 DEF Peer, Handler, ClientSends, Deliver, ClientReads,
     ClientLeaves, Gone, InvalidOpcode, InvalidSize, ReadKeepalive, ReadReport,
     RefuseReport, Close
<1>3. ASSUME NEW c \in Clients, Sync(c) PROVE ExitInv'
  BY <1>0, <1>3 DEF Sync, ReadSync
<1>4. ASSUME NEW line \in Typed, Hang(line) PROVE ExitInv'
  BY <1>0, <1>4 DEF Hang
<1>5. ASSUME NEW line \in Typed, Stop(line) PROVE ExitInv'
  <2> DEFINE d == MainDeletes \o QueueDeletes
  <2>1. /\ phase = "run" /\ phase' = "exit" /\ files' = MainFiles \o clients
        /\ todo' = d /\ freed' = freed /\ clients' = clients
    BY <1>5 DEF Stop, Return
  <2>2. Clients \subseteq Objects /\ ToSet(MainFiles) \subseteq Objects
    BY SameObjects DEF Objects
  <2>3. MainFiles \in Seq(Objects) /\ clients \in Seq(Objects)
    <3>1. \A i \in DOMAIN MainFiles : MainFiles[i] \in Objects
      BY <2>2 DEF ToSet
    <3>2. MainFiles \in Seq(Objects)
      BY <3>1 DEF MainFiles
    <3>3. clients \in Seq(Clients)
      BY DEF ExitInv
    <3> QED
      BY <2>2, <3>2, <3>3
  <2>4. files' \in Seq(Objects)
    BY <2>1, <2>3, ConcatProperties
  <2>5. /\ MainDeletes \in Seq(Objects) /\ QueueDeletes \in Seq(Objects)
    BY DEF MainDeletes, QueueDeletes, Objects, MainFiles, ToSet
  <2>6. d \in Seq(Objects)
    BY <2>5, ConcatProperties
  <2>7. \A i, j \in DOMAIN d : d[i] = d[j] => i = j
    BY DEF MainDeletes, QueueDeletes
  <2>8. freed = [x \in Objects |-> 0]
    BY <2>1 DEF ExitInv
  <2>9. \A x \in Plain : freed[x] = 0
    BY <2>8 DEF Plain
  <2>10. /\ Listed' = Listed /\ Plain' = Plain
         /\ ToSet(files)' = ToSet(MainFiles \o clients)
    BY <2>1 DEF Listed, Plain, Objects, ToSet
  <2> HIDE DEF d
  <2>11. clients \in Seq(Clients) /\ freed \in [Objects -> Nat]
    BY DEF ExitInv
  <2> QED
    BY <2>1, <2>4, <2>6, <2>7, <2>9, <2>10, <2>11 DEF ExitInv, Listed
<1>6. ASSUME DeleteNext, clients' = clients PROVE ExitInv'
  <2>1. /\ phase \in {"exit", "again"} /\ Delete(Head(todo), files)
        /\ todo \in Seq(Objects) /\ todo # <<>> /\ files \in Seq(Objects)
        /\ todo' = Tail(todo)
        /\ \A i, j \in DOMAIN todo : todo[i] = todo[j] => i = j
    BY <1>6 DEF DeleteNext, ExitInv
  <2>2. PICK x, n : /\ x = Head(todo) /\ x \in Objects /\ n = Len(todo)
                    /\ n \in Nat \ {0} /\ DOMAIN todo = 1..n /\ x = todo[1]
                    /\ todo' \in Seq(Objects) /\ DOMAIN todo' = 1..n - 1
                    /\ \A i \in 1..n - 1 : todo'[i] = todo[i + 1]
    BY <2>1, HeadTailProperties, LenProperties, EmptySeq
  <2>3. \A i \in 1..n - 1 : i + 1 \in 1..n /\ i + 1 # 1 /\ todo'[i] # x
    BY <2>1, <2>2
  <2>4. ToSet(todo') \subseteq ToSet(todo) \ {x} /\ x \in ToSet(todo)
    BY <2>2, <2>3, SMTT(30) DEF ToSet
  <2>5. \A i, j \in DOMAIN todo' : todo'[i] = todo'[j] => i = j
    BY <2>1, <2>2, <2>3
  <2>6. x \in Plain => freed[x] = 0
    BY <2>1, <2>4 DEF ExitInv
  <2>7. todo' \in Seq(Objects) /\ Delete(x, files) /\ x \in Objects
    BY <2>1, <2>2
  <2> QED
    BY <1>6, <2>1, <2>4, <2>5, <2>6, <2>7, OneDelete
<1>7. ASSUME DeleteRest, clients' = clients PROVE ExitInv'
  <2>1. /\ phase = "exit" /\ Delete(Last(files), Front(files))
        /\ files \in Seq(Objects) /\ files # <<>>
        /\ todo = <<>> /\ todo' = todo
    BY <1>7 DEF DeleteRest, ExitInv
  <2>2. PICK s \in Seq(Objects), x \in Objects :
           files = Append(s, x) /\ Len(files) = Len(s) + 1
    BY <2>1, Parts
  <2>3. Last(files) = x /\ Front(files) = s
    <3>1. /\ Len(s) \in Nat /\ files[Len(files)] = x /\ Len(files) - 1 = Len(s)
          /\ \A i \in 1..Len(s) : files[i] = s[i]
      BY <2>2, AppendProperties, LenProperties
    <3>2. \A i \in 1..Len(s) : s[i] \in Objects
      BY ElementOfSeq
    <3>3. /\ SubSeq(files, 1, Len(s)) \in Seq(Objects)
          /\ Len(SubSeq(files, 1, Len(s))) = Len(s)
          /\ \A i \in 1..Len(s) : SubSeq(files, 1, Len(s))[i] = files[i]
      BY <2>1, <2>2, <3>1, <3>2, SubSeqProperties
    <3>4. SubSeq(files, 1, Len(s)) = s
      BY <3>1, <3>3, SeqEqual
    <3> QED
      BY <3>1, <3>4 DEF Last, Front
  <2>4. ToSet(files) = ToSet(s) \cup {x}
    <3>1. files = s \o <<x>> /\ <<x>> \in Seq(Objects)
      BY <2>2, AppendIsConcat
    <3>2. ToSet(files) = ToSet(s) \cup ToSet(<<x>>)
      BY <3>1, ConcatElements, ZenonT(30)
    <3>3. ToSet(<<x>>) = {x}
      BY DEF ToSet
    <3> QED
      BY <3>2, <3>3
  <2>5. ToSet(todo) = {} /\ ToSet(todo') = {} /\ todo' \in Seq(Objects)
    BY <2>1 DEF ToSet, ExitInv
  <2>6. x \in Plain => freed[x] = 0
    BY <2>1, <2>4 DEF ExitInv
  <2>7. Delete(x, s) /\ phase \in {"exit", "again"}
    BY <2>1, <2>3
  <2>8. \A i, j \in DOMAIN todo' : todo'[i] = todo'[j] => i = j
    BY <2>1 DEF ExitInv
  <2> QED
    BY <1>7, <2>4, <2>5, <2>6, <2>7, <2>8, OneDelete
<1>8. ASSUME DeleteQueueAgain, clients' = clients PROVE ExitInv'
  <2>1. /\ phase = "exit" /\ phase' = "again" /\ files = <<>> /\ files' = files
        /\ todo' = QueueDeletes /\ freed' = freed
    BY <1>8 DEF DeleteQueueAgain
  <2>2. ToSet(files) = {}
    BY <2>1 DEF ToSet
  <2>3. \A x \in Listed : x \in Plain /\ x \in Objects
    BY DEF Listed, Plain
  <2>4. \A x \in Listed : freed[x] = 1
    BY <2>1, <2>2, <2>3 DEF ExitInv
  <2>5. /\ QueueDeletes \in Seq(Objects)
        /\ \A i, j \in DOMAIN QueueDeletes :
              QueueDeletes[i] = QueueDeletes[j] => i = j
    BY DEF QueueDeletes, Objects, MainFiles, ToSet
  <2>6. \A x \in Plain : x \notin ToSet(todo')
    BY <2>1 DEF Plain
  <2>7. /\ Plain' = Plain /\ Listed' = Listed /\ ToSet(todo)' = ToSet(todo')
    BY <1>8 DEF Plain, Listed, Objects, ToSet
  <2> QED
    BY <1>8, <2>1, <2>4, <2>5, <2>6, <2>7 DEF ExitInv
<1>9. ASSUME Finish, clients' = clients PROVE ExitInv'
  <2>1. /\ Plain' = Plain /\ Listed' = Listed
    BY <1>9 DEF Plain, Listed, Objects, ToSet
  <2> QED
    BY <1>9, <2>1 DEF Finish, ExitInv
<1>10. CASE Obeying \/ Exiting \/ UNCHANGED vehicleVars
  BY <1>0, <1>6, <1>7, <1>8, <1>9, <1>10
     DEF Obeying, Exiting, ExitNext, vehicleVars
<1> QED
  BY <1>2, <1>3, <1>4, <1>5, <1>10 DEF VehicleNext, Running

\* When the process ends, main() and the destructor of the loop have deleted
\* everything that was made, clients that left long ago included, and nothing
\* twice but the event queue and its ends (main.cpp, gptk/event_loop.cpp).
THEOREM ExitCorrect == VehicleSpec => []ExitComplete
<1>1. VehicleInit => ExitInv
  BY DEF VehicleInit, SessionInit, ExitInit, ExitInv, Plain, ToSet
<1>2. ExitInv => ExitComplete
  BY DEF ExitInv, ExitComplete, Plain, Listed
<1> QED
  BY <1>1, <1>2, ExitStep, PTL DEF VehicleSpec
==============================================================================
