--------------------------- MODULE EventLoopProofs ---------------------------
(***************************************************************************)
(* Proofs about EventLoop, for every set of objects, every number of       *)
(* descriptors and every bound, on either kind of pipe.                    *)
(***************************************************************************)
EXTENDS EventLoop, SequenceTheorems, TLAPS

\* What is left of a sequence after its first k elements.
LEMMA SuffixProperties ==
    ASSUME NEW S, NEW s \in Seq(S), NEW k \in 1..Len(s)
    PROVE  /\ SubSeq(s, k + 1, Len(s)) \in Seq(S)
           /\ Len(SubSeq(s, k + 1, Len(s))) = Len(s) - k
           /\ \A i \in 1..(Len(s) - k) :
                 SubSeq(s, k + 1, Len(s))[i] = s[k + i]
<1> DEFINE n == Len(s)
           m == k + 1
           w == SubSeq(s, m, n)
<1>1. n \in Nat /\ m \in Int /\ k \in 1..n
  OBVIOUS
<1>2. \A i \in m..n : s[i] \in S
  BY <1>1, ElementOfSeq
<1> HIDE DEF m, n
<1>3. /\ w \in Seq(S)
      /\ Len(w) = IF m <= n THEN n - m + 1 ELSE 0
      /\ \A i \in 1..(n - m + 1) : w[i] = s[m + i - 1]
  BY <1>1, <1>2, SubSeqProperties
<1> HIDE DEF w
<1>4. /\ n - m + 1 = n - k
      /\ m <= n \/ n - k = 0
      /\ \A i \in 1..(n - k) : m + i - 1 = k + i
  BY <1>1 DEF m
<1>5. Len(w) = n - k /\ \A i \in 1..(n - k) : w[i] = s[k + i]
  BY <1>1, <1>3, <1>4
<1> QED
  BY ONLY <1>3, <1>5 DEF w, m, n

\* A sequence without its k-th element.
LEMMA RemoveAtProperties ==
    ASSUME NEW S, NEW s \in Seq(S), NEW k \in 1..Len(s)
    PROVE  /\ RemoveAt(s, k) \in Seq(S)
           /\ Len(RemoveAt(s, k)) = Len(s) - 1
           /\ \A i \in 1..(Len(s) - 1) :
                 RemoveAt(s, k)[i] = IF i < k THEN s[i] ELSE s[i + 1]
<1> DEFINE a == SubSeq(s, 1, k - 1)
           b == SubSeq(s, k + 1, Len(s))
           w == a \o b
<1>1. a \in Seq(S) /\ Len(a) = k - 1 /\ \A i \in 1..(k - 1) : a[i] = s[i]
  BY SubSeqProperties, ElementOfSeq
<1>2. b \in Seq(S) /\ Len(b) = Len(s) - k
        /\ \A i \in 1..(Len(s) - k) : b[i] = s[k + i]
  BY SuffixProperties, Zenon
<1> HIDE DEF a, b
<1>3. /\ w \in Seq(S) /\ Len(w) = Len(a) + Len(b)
      /\ \A i \in 1..(Len(a) + Len(b)) :
            w[i] = IF i <= Len(a) THEN a[i] ELSE b[i - Len(a)]
  BY <1>1, <1>2, ConcatProperties
<1> HIDE DEF w
<1>4. Len(s) \in Nat
  BY LenProperties
<1>5. Len(w) = Len(s) - 1
  BY <1>1, <1>2, <1>3, <1>4
<1>6. ASSUME NEW i \in 1..(Len(s) - 1)
      PROVE  w[i] = IF i < k THEN s[i] ELSE s[i + 1]
  <2>1. CASE i < k
    BY <1>1, <1>2, <1>3, <1>4, <2>1, SMTT(30)
  <2>2. CASE i >= k
    <3>1. w[i] = b[i - (k - 1)] /\ i - (k - 1) \in 1..(Len(s) - k)
      BY <1>1, <1>2, <1>3, <1>4, <2>2, SMTT(30)
    <3>2. b[i - (k - 1)] = s[k + (i - (k - 1))]
      BY <1>2, <3>1
    <3>3. k + (i - (k - 1)) = i + 1
      BY <1>4
    <3> QED
      BY <1>4, <2>2, <3>1, <3>2, <3>3
  <2> QED
    BY <1>4, <2>1, <2>2
<1> QED
  BY <1>3, <1>5, <1>6 DEF RemoveAt, a, b, w

(* list::remove on a list without duplicates *)

\* std::list::remove keeps the type of a list.
LEMMA WithoutSeq ==
    ASSUME NEW S, NEW s \in Seq(S), NEW x
    PROVE  Without(s, x) \in Seq(S)
<1>1. CASE \E i \in DOMAIN s : s[i] = x
  <2> DEFINE k == CHOOSE i \in DOMAIN s : s[i] = x
  <2>1. k \in 1..Len(s)
    BY <1>1, LenProperties
  <2> HIDE DEF k
  <2>2. RemoveAt(s, k) \in Seq(S)
    BY <2>1, RemoveAtProperties
  <2> QED
    BY <1>1, <2>2 DEF Without, k
<1>2. CASE ~ \E i \in DOMAIN s : s[i] = x
  BY <1>2 DEF Without
<1> QED
  BY <1>1, <1>2

\* std::list::remove adds no element.
LEMMA WithoutSubset ==
    ASSUME NEW S, NEW s \in Seq(S), NEW x,
           \A i, j \in DOMAIN s : s[i] = s[j] => i = j
    PROVE  /\ ToSet(Without(s, x)) = ToSet(s) \ {x}
           /\ \A i, j \in DOMAIN Without(s, x) :
                 Without(s, x)[i] = Without(s, x)[j] => i = j
<1>1. CASE \E i \in DOMAIN s : s[i] = x
  <2> DEFINE k == CHOOSE i \in DOMAIN s : s[i] = x
             w == Without(s, x)
  <2>1. k \in 1..Len(s) /\ s[k] = x /\ DOMAIN s = 1..Len(s) /\ Len(s) \in Nat
    BY <1>1, LenProperties
  <2>2. w = RemoveAt(s, k)
    BY <1>1 DEF Without
  <2> HIDE DEF k, w
  <2>3. /\ w \in Seq(S) /\ Len(w) = Len(s) - 1
        /\ \A i \in 1..(Len(s) - 1) : w[i] = IF i < k THEN s[i] ELSE s[i + 1]
    <3>1. /\ RemoveAt(s, k) \in Seq(S) /\ Len(RemoveAt(s, k)) = Len(s) - 1
          /\ \A i \in 1..(Len(s) - 1) :
                RemoveAt(s, k)[i] = IF i < k THEN s[i] ELSE s[i + 1]
      <4>1. k \in 1..Len(s)
        BY <2>1
      <4> QED
        BY <4>1, RemoveAtProperties, Zenon
    <3> QED
      BY <2>2, <3>1
  <2>4. DOMAIN w = 1..(Len(s) - 1)
    BY <2>3, LenProperties
  <2>5. ToSet(w) \subseteq ToSet(s) \ {x}
    BY <2>1, <2>3, <2>4, SMTT(30) DEF ToSet
  <2>6. ToSet(s) \ {x} \subseteq ToSet(w)
    <3> SUFFICES ASSUME NEW i \in 1..Len(s), i # k
                 PROVE  s[i] \in ToSet(w)
      BY <2>1 DEF ToSet
    <3>1. CASE i < k
      BY <2>1, <2>3, <2>4, <3>1 DEF ToSet
    <3>2. CASE i > k
      <4>1. i - 1 \in DOMAIN w /\ w[i - 1] = s[i]
        BY <2>1, <2>3, <2>4, <3>2
      <4> QED
        BY <4>1 DEF ToSet
    <3> QED
      BY <2>1, <3>1, <3>2
  <2>7. \A i, j \in DOMAIN w : w[i] = w[j] => i = j
    BY <2>1, <2>3, <2>4, SMTT(30)
  <2> QED
    BY <2>5, <2>6, <2>7 DEF w
<1>2. CASE ~ \E i \in DOMAIN s : s[i] = x
  BY <1>2 DEF Without, ToSet
<1> QED
  BY <1>1, <1>2

\* Removing a client from event_loop::files leaves the files before it alone.
LEMMA WithoutPrefix ==
    ASSUME NEW S, NEW p \in Seq(S), NEW s \in Seq(S), NEW x,
           \A i \in DOMAIN p : p[i] # x,
           \A i, j \in DOMAIN s : s[i] = s[j] => i = j
    PROVE  Without(p \o s, x) = p \o Without(s, x)
<1> DEFINE t == p \o s
           n == Len(p)
<1>1. /\ t \in Seq(S) /\ Len(t) = n + Len(s)
      /\ \A i \in 1..(n + Len(s)) : t[i] = IF i <= n THEN p[i] ELSE s[i - n]
  BY ConcatProperties
<1>2. n \in Nat /\ Len(s) \in Nat /\ DOMAIN t = 1..(n + Len(s))
      /\ DOMAIN p = 1..n /\ DOMAIN s = 1..Len(s)
  BY <1>1, LenProperties
<1> HIDE DEF t, n
<1>3. \A i \in DOMAIN t : t[i] = x <=> i - n \in DOMAIN s /\ s[i - n] = x
  BY <1>1, <1>2
<1>4. CASE \E i \in DOMAIN s : s[i] = x
  <2> DEFINE k == CHOOSE i \in DOMAIN s : s[i] = x
             l == CHOOSE i \in DOMAIN t : t[i] = x
  <2>1. k \in DOMAIN s /\ s[k] = x
    BY <1>4
  <2> HIDE DEF k
  <2>2. k + n \in DOMAIN t /\ t[k + n] = x
    BY <1>1, <1>2, <2>1
  <2>3. l \in DOMAIN t /\ t[l] = x
    BY <2>2
  <2> HIDE DEF l
  <2>4. l = k + n
    BY <1>2, <1>3, <2>1, <2>3
  <2> DEFINE u == RemoveAt(s, k)
             v == RemoveAt(t, l)
  <2>5. /\ u \in Seq(S) /\ Len(u) = Len(s) - 1
        /\ \A i \in 1..(Len(s) - 1) : u[i] = IF i < k THEN s[i] ELSE s[i + 1]
    <3>1. k \in 1..Len(s)
      BY <1>2, <2>1
    <3> QED
      BY <3>1, RemoveAtProperties, Zenon
  <2>6. /\ v \in Seq(S) /\ Len(v) = Len(t) - 1
        /\ \A i \in 1..(Len(t) - 1) : v[i] = IF i < l THEN t[i] ELSE t[i + 1]
    <3>1. l \in 1..Len(t)
      BY <1>1, <1>2, <2>3
    <3> QED
      BY <1>1, <3>1, RemoveAtProperties, Zenon
  <2> HIDE DEF u, v
  <2>7. l \in Int /\ k \in Int
    BY <1>2, <2>1, <2>3
  <2>8. /\ p \o u \in Seq(S) /\ Len(p \o u) = n + Len(u)
        /\ \A i \in 1..(n + Len(u)) :
              (p \o u)[i] = IF i <= n THEN p[i] ELSE u[i - n]
    <3>1. u \in Seq(S)
      BY <2>5
    <3> QED
      BY <3>1, ConcatProperties, ZenonT(30) DEF n
  <2>9. Len(v) = Len(p \o u)
    BY <1>1, <1>2, <2>5, <2>6, <2>8
  <2>11. ASSUME NEW i \in 1..Len(v)
        PROVE  v[i] = (p \o u)[i]
    <3>1. i \in 1..(n + Len(s) - 1) /\ i \in Int
      BY <1>1, <1>2, <2>6
    <3>2. CASE i <= n
      BY <1>1, <1>2, <2>1, <2>4, <2>5, <2>6, <2>8, <3>1, <3>2
    <3>3. CASE i > n /\ i < l
      <4>1. v[i] = s[i - n]
        <5>1. v[i] = t[i]
          BY <1>1, <1>2, <2>6, <3>1, <3>3
        <5>2. t[i] = s[i - n]
          BY <1>1, <1>2, <3>1, <3>3
        <5> QED
          BY <5>1, <5>2
      <4>2. (p \o u)[i] = u[i - n]
        BY <1>2, <2>5, <2>8, <3>1, <3>3
      <4>3. i - n \in 1..(Len(s) - 1) /\ i - n < k
        BY <1>2, <2>1, <2>4, <3>1, <3>3
      <4> QED
        BY <2>5, <4>1, <4>2, <4>3
    <3>4. CASE i > n /\ i >= l
      <4>1. v[i] = s[i + 1 - n]
        BY <1>1, <1>2, <2>6, <2>1, <2>4, <3>1, <3>4
      <4>2. (p \o u)[i] = u[i - n]
        BY <1>2, <2>5, <2>8, <3>1, <3>4
      <4>3. i - n \in 1..(Len(s) - 1) /\ ~(i - n < k)
        BY <1>2, <2>1, <2>4, <3>1, <3>4
      <4>4. i - n + 1 = i + 1 - n
        BY <1>2, <3>1
      <4> QED
        BY <2>5, <4>1, <4>2, <4>3, <4>4
    <3>5. i <= n \/ (i > n /\ i < l) \/ (i > n /\ i >= l)
      BY <1>2, <2>7, <3>1
    <3> QED
      BY <3>2, <3>3, <3>4, <3>5, Zenon
  <2>12. v = p \o u
    BY <2>6, <2>8, <2>9, <2>11, SeqEqual
  <2>13. Without(t, x) = v /\ Without(s, x) = u
    BY <2>1, <2>2 DEF Without, u, v, k, l
  <2> QED
    BY <2>12, <2>13 DEF t
<1>5. CASE ~ \E i \in DOMAIN s : s[i] = x
  <2>1. ~ \E i \in DOMAIN t : t[i] = x
    BY <1>3, <1>5
  <2> QED
    BY <1>5, <2>1 DEF Without, t
<1> QED
  BY <1>4, <1>5

-----------------------------------------------------------------------------
(* Type correctness *)

USE ObjsAssumption, BoundsAssumption, BuildAssumption, RequestsAssumption,
    DevicesAssumption

\* The descriptors of the files of main(), one by one; all are numbers.
LEMMA FixedFdValues ==
    /\ FixedFd(First) = 3 /\ FixedFd(Second) = 4 /\ FixedFd(Server) = 5
    /\ FixedFd(Mainboard) = 6 /\ FixedFd(Config) = -1 /\ FixedFd(Meas) = 7
    /\ FixedFd(Stdin) = 1
    /\ \A f \in FixedFiles : FixedFd(f) \in Int
<1>1. /\ FixedFd(First) = 3 /\ FixedFd(Second) = 4 /\ FixedFd(Server) = 5
      /\ FixedFd(Mainboard) = 6 /\ FixedFd(Config) = -1 /\ FixedFd(Meas) = 7
      /\ FixedFd(Stdin) = 1
  BY DEF FixedFd, First, Second, Server, Mainboard, Config, Meas, Stdin
<1>2. \A f \in FixedFiles : f \in {First, Second, Server, Mainboard, Config,
                                   Meas, Stdin}
  BY DEF FixedFiles, First, Second, Server, Mainboard, Config, Meas, Stdin
<1> QED
  BY <1>1, <1>2

\* main() creates seven files.
LEMMA FixedType == Fixed \in Seq(FixedFiles) /\ Len(Fixed) = 7
BY DEF Fixed, FixedFiles, First, Second, Server, Mainboard, Config, Meas, Stdin

\* A connection stays a connection through each of the updates made to it.
LEMMA ConnUpdates ==
    ASSUME conn \in [ClientFds -> Conns], NEW n
    PROVE  /\ [conn EXCEPT ![n] = Free] \in [ClientFds -> Conns]
           /\ [conn EXCEPT ![n] = Opened] \in [ClientFds -> Conns]
           /\ CanWrite(n) => Written(n) \in [ClientFds -> Conns]
           /\ Refused(n) \in [ClientFds -> Conns]
           /\ \A r \in Conns : [conn EXCEPT ![n] = r] \in [ClientFds -> Conns]
<1>1. Free \in Conns /\ Opened \in Conns
  BY DEF Free, Opened, Conns, SockStates
<1>2. Refused(n) \in [ClientFds -> Conns]
  BY DEF Refused, Conns, SockStates
<1>3. CanWrite(n) => Written(n) \in [ClientFds -> Conns]
  <2>1. CASE n \in ClientFds
    <3>1. CanWrite(n) => [conn[n] EXCEPT !.tx = @ + 1] \in Conns
      BY <2>1, SMTT(30) DEF CanWrite, Conns
    <3> QED
      BY <2>1, <3>1 DEF Written
  <2>2. CASE n \notin ClientFds
    BY <2>2 DEF Written
  <2> QED
    BY <2>1, <2>2
<1> QED
  BY <1>1, <1>2, <1>3

\* ufile::close keeps the types of what it changes.
LEMMA ClosedType ==
    ASSUME TypeOK, NEW c \in Objs, Closed(c)
    PROVE  /\ fd' \in [Objs -> ClientFds \cup {-1}]
           /\ conn' \in [ClientFds -> Conns]
BY ConnUpdates DEF TypeOK, Closed

\* What the constructors establish: the types; registries that agree; no delete
\* that is pending and no descriptor that is owned.
LEMMA InitInv ==
    Init => TypeInv /\ RegistriesAgree /\ QueueInv /\ FdOwnership
<1> SUFFICES ASSUME Init
             PROVE  TypeInv /\ RegistriesAgree /\ QueueInv /\ FdOwnership
  OBVIOUS
<1>1. TypeInv
  <2>1. files \in Seq(Objs \cup FixedFiles)
    BY FixedType, SeqMonotonic DEF Init
  <2>2. conn \in [ClientFds -> Conns]
    BY DEF Init, Free, Conns, SockStates
  <2>3. fd \in [Objs -> ClientFds \cup {-1}]
    BY DEF Init
  <2>4. clients \in Seq(Objs) /\ queue \in Seq(Objs)
    BY EmptySeq DEF Init
  <2>5. /\ heap \subseteq Objs /\ condemned \subseteq heap /\ backlog \in Nat
        /\ input \subseteq Devices
        /\ ready \subseteq Nat /\ it = Begin
        /\ bleft \in Nat /\ bnext \in Nat \ {0} /\ pc = "select"
    BY DEF Init
  <2>6. gracious_stop \in BOOLEAN
    BY DEF Init
  <2> QED
    BY <2>1, <2>2, <2>3, <2>4, <2>5, <2>6 DEF TypeInv, TypeOK, PCs
<1>2. RegistriesAgree
  <2>1. files = Fixed \o clients
    BY FixedType, ConcatEmptySeq DEF Init
  <2>2. DOMAIN clients = {}
    BY EmptySeq, LenProperties DEF Init
  <2> QED
    BY <2>1, <2>2 DEF RegistriesAgree, ToSet, Init
<1>3. QueueInv
  <2>1. queue = <<>> /\ DOMAIN queue = {}
    BY EmptySeq, LenProperties DEF Init
  <2> QED
    BY <2>1 DEF QueueInv, PendingDeletesSafe, QueueBehind
<1>4. FdOwnership
  <2>1. heap = {} /\ \A n \in ClientFds : conn[n].state = "free"
    BY DEF Init, Free
  <2> QED
    BY <2>1 DEF FdOwnership
<1> QED
  BY <1>1, <1>2, <1>3, <1>4

\* Every step keeps the types.
LEMMA TypeStep == TypeInv /\ [Next]_vars => TypeInv'
<1> SUFFICES ASSUME TypeInv, [Next]_vars PROVE TypeInv'
  OBVIOUS
<1> USE DEF TypeInv, registry, bcast
<1>1. CASE Select
  <2>1. ready' \subseteq Nat
    <3>1. \A f \in ToSet(files) : f \in Objs \cup FixedFiles
      BY ElementOfSeq, LenProperties DEF TypeOK, ToSet
    <3>2. \A f \in ToSet(files) : FdOf(f) \in Int
      BY <3>1, FixedFdValues, SMTT(30) DEF TypeOK, FdOf, ClientFds
    <3>3. \A n \in ready' : n \in Int /\ n > -1
      BY <1>1, <3>2 DEF Select
    <3> QED
      BY <3>3
  <2> QED
    BY <1>1, <2>1 DEF Select, TypeOK, PCs
<1>2. CASE EndPass
  BY <1>2 DEF EndPass, TypeOK, PCs
<1>3. CASE Leave
  BY <1>3 DEF Leave, TypeOK, PCs
<1>4. CASE QueueReady
  BY <1>4 DEF QueueReady, TypeOK, PCs, FixedFiles, Second
<1>5. CASE DeleteHead
  <2> DEFINE c == Head(queue)
  <2>1. c \in Objs /\ queue' \in Seq(Objs)
    BY <1>5, HeadTailProperties DEF DeleteHead, TypeOK
  <2>2. files' \in Seq(Objs \cup FixedFiles) /\ clients' \in Seq(Objs)
    BY <1>5, WithoutSeq DEF DeleteHead, TypeOK
  <2>3. conn' \in [ClientFds -> Conns]
    BY <1>5, ConnUpdates DEF DeleteHead, TypeOK
  <2> QED
    BY <1>5, <2>1, <2>2, <2>3 DEF DeleteHead, TypeOK
<1>6. CASE Drained
  BY <1>6 DEF Drained, TypeOK, PCs
<1>7. ASSUME NEW c \in Objs, Accept(c) \/ AcceptFails(c)
      PROVE  TypeInv'
  <2>1. /\ files' \in Seq(Objs \cup FixedFiles) /\ clients' \in Seq(Objs)
    <3>1. files' = Append(files, c) /\ clients' = Append(clients, c)
      BY <1>7 DEF Accept, AcceptFails, NewClient
    <3> QED
      BY <3>1, AppendProperties DEF TypeOK
  <2>2. conn' \in [ClientFds -> Conns]
    BY <1>7, ConnUpdates DEF Accept, AcceptFails, TypeOK
  <2>3. fd' \in [Objs -> ClientFds \cup {-1}] /\ heap' = heap \cup {c}
    <3>1. PICK n \in ClientFds \cup {-1} : NewClient(c, n)
      BY <1>7 DEF Accept, AcceptFails, FreeFds
    <3> QED
      BY <3>1 DEF NewClient, TypeOK
  <2>4. backlog' \in Nat
    BY <1>7 DEF Accept, AcceptFails, TypeOK
  <2>5. /\ UNCHANGED <<input, queue, condemned, gracious_stop, pc, ready, bcast>>
        /\ it' = Server /\ pc = "pass"
    BY <1>7 DEF Accept, AcceptFails, Due
  <2> QED
    BY <2>1, <2>2, <2>3, <2>4, <2>5 DEF TypeOK, FixedFiles, Server
<1>8. ASSUME NEW c \in heap, ClientStep(c)
      PROVE  TypeInv'
  <2> c \in Objs
    BY DEF TypeOK
  <2>1. CASE ClientGone(c)
    <3>1. queue' \in Seq(Objs)
      BY <2>1, AppendProperties DEF ClientGone, Posted, TypeOK
    <3> QED
      BY <2>1, <3>1, ClosedType DEF ClientGone, TypeOK, Due
  <2>2. CASE ClientGoneMisread(c)
    BY <2>2, ClosedType DEF ClientGoneMisread, TypeOK, Due
  <2>3. CASE ProtocolError(c)
    BY <2>3, ClosedType DEF ProtocolError, TypeOK, Due
  <2>4. CASE Request(c)
    <3>1. fd[c] \in ClientFds /\ conn[fd[c]].rx \in Seq(Requests)
          /\ conn[fd[c]].rx # <<>>
      BY <2>4 DEF Request, NoBytes, TypeOK, Conns
    <3>2. Tail(conn[fd[c]].rx) \in Seq(Requests)
      BY <3>1, HeadTailProperties
    <3>3. conn' \in [ClientFds -> Conns]
      BY <2>4, <3>1, <3>2 DEF Request, TypeOK, Conns
    <3>4. pc' \in {"pass", "report", "ack"}
      BY <2>4 DEF Request
    <3> QED
      BY <2>4, <3>3, <3>4 DEF Request, TypeOK, PCs
  <2> QED
    BY <1>8, <2>1, <2>2, <2>3, <2>4 DEF ClientStep
<1>9. CASE Reply
  <2> DEFINE n == fd[it]
  <2>1. conn' \in [ClientFds -> Conns] /\ fd' \in [Objs -> ClientFds \cup {-1}]
        /\ pc' \in {"pass", "killed"}
    <3>1. CASE CanWrite(n) /\ conn' = Written(n) /\ pc' = "pass" /\ fd' = fd
      BY <3>1, ConnUpdates DEF TypeOK
    <3>2. CASE WriteFails(n) /\ pc' = "pass"
                 /\ IF pc = "report" THEN Closed(it)
                                     ELSE conn' = Refused(n) /\ fd' = fd
      <4>1. CASE pc = "report"
        <5>1. /\ fd' = [fd EXCEPT ![it] = -1]
              /\ conn' = IF n = -1 THEN conn ELSE [conn EXCEPT ![n] = Free]
          BY <3>2, <4>1 DEF Closed
        <5>2. conn' \in [ClientFds -> Conns]
          BY <5>1, ConnUpdates DEF TypeOK
        <5> QED
          BY <3>2, <5>1, <5>2 DEF TypeOK
      <4>2. CASE pc # "report"
        BY <3>2, <4>2, ConnUpdates DEF TypeOK
      <4> QED
        BY <4>1, <4>2
    <3>3. CASE WriteKills(n) /\ pc' = "killed" /\ conn' = conn /\ fd' = fd
      BY <3>3 DEF TypeOK
    <3> QED
      BY <1>9, <3>1, <3>2, <3>3 DEF Reply
  <2> QED
    BY <1>9, <2>1 DEF Reply, TypeOK, PCs
<1>10. ASSUME NEW d \in {Mainboard, Meas}, SensorReady(d)
       PROVE  TypeInv'
  <2>1. bleft' \in Nat /\ (pc' = "broadcast" => bleft' > 0) /\ pc' \in PCs
    <3>1. CASE pc' = "killed" /\ bleft' = 0
      BY <3>1 DEF PCs
    <3>2. ASSUME NEW k \in 0..(IF d = Mainboard THEN 1 ELSE Burst),
                 bleft' = k, pc' = IF k = 0 THEN "pass" ELSE "broadcast"
          PROVE  bleft' \in Nat /\ (pc' = "broadcast" => bleft' > 0) /\ pc' \in PCs
      BY <3>2, BoundsAssumption DEF PCs
    <3> QED
      BY <1>10, <3>1, <3>2 DEF SensorReady
  <2>2. d \in FixedFiles
    BY DEF FixedFiles, Mainboard, Meas
  <2> QED
    BY <1>10, <2>1, <2>2 DEF SensorReady, TypeOK
<1>11. CASE BroadcastTo
  <2>1. conn' \in [ClientFds -> Conns] /\ pc' \in {pc, "killed"}
    BY <1>11, ConnUpdates DEF BroadcastTo, TypeOK
  <2> QED
    BY <1>11, <2>1 DEF BroadcastTo, TypeOK, PCs
<1>12. CASE BroadcastDone
  BY <1>12 DEF BroadcastDone, TypeOK, PCs
<1>13. CASE StdinReady
  <2>1. gracious_stop' \in BOOLEAN
    <3>1. gracious_stop' = gracious_stop \/ gracious_stop' = TRUE
      BY <1>13 DEF StdinReady
    <3> QED
      BY <3>1 DEF TypeOK
  <2>2. pc' \in {"pass", "hung", "killed"}
    BY <1>13 DEF StdinReady
  <2> QED
    BY <1>13, <2>1, <2>2 DEF StdinReady, TypeOK, PCs, FixedFiles, Stdin
<1>14. CASE ConfigReady
  BY <1>14 DEF ConfigReady, TypeOK, FixedFiles, Config
<1>15. CASE PeerConnect
  BY <1>15 DEF PeerConnect, TypeOK
<1>16. ASSUME NEW n \in ClientFds, Peer(n)
       PROVE  TypeInv'
  <2>1. PICK new \in Conns : Network(n, new)
    <3> conn[n] \in Conns /\ conn[n].rx \in Seq(Requests)
      BY DEF TypeOK, Conns
    <3>1. CASE PeerSend(n)
      <4>1. PICK r \in Requests :
               Network(n, [conn[n] EXCEPT !.rx = Append(@, r)])
        BY <3>1 DEF PeerSend
      <4>2. Append(conn[n].rx, r) \in Seq(Requests)
        BY AppendProperties
      <4>3. [conn[n] EXCEPT !.rx = Append(@, r)] \in Conns
        BY <4>2 DEF Conns
      <4> QED
        BY <4>1, <4>3
    <3>2. CASE PeerRead(n)
      <4>1. [conn[n] EXCEPT !.tx = @ - 1] \in Conns
        BY <3>2 DEF PeerRead, Conns
      <4> QED
        BY <3>2, <4>1 DEF PeerRead
    <3>3. CASE PeerClose(n)
      <4>1. [conn[n] EXCEPT !.state = "fin"] \in Conns
        BY DEF Conns, SockStates
      <4> QED
        BY <3>3, <4>1 DEF PeerClose
    <3>4. CASE PeerAbort(n)
      <4>1. [conn[n] EXCEPT !.state = "reset"] \in Conns
        BY DEF Conns, SockStates
      <4> QED
        BY <3>4, <4>1 DEF PeerAbort
    <3>5. CASE PeerReset(n)
      <4>1. [conn[n] EXCEPT !.state = "broken"] \in Conns
        BY DEF Conns, SockStates
      <4> QED
        BY <3>5, <4>1 DEF PeerReset
    <3> QED
      BY <1>16, <3>1, <3>2, <3>3, <3>4, <3>5 DEF Peer
  <2> QED
    BY <2>1, ConnUpdates DEF Network, TypeOK
<1>17. ASSUME NEW d \in Devices, DeviceInput(d)
       PROVE  TypeInv'
  BY <1>17 DEF DeviceInput, TypeOK
<1>18. CASE UNCHANGED vars
  BY <1>18 DEF vars, TypeOK
<1> QED
  BY <1>1, <1>2, <1>3, <1>4, <1>5, <1>6, <1>7, <1>8, <1>9, <1>10, <1>11, <1>12,
     <1>13, <1>14, <1>15, <1>16, <1>17, <1>18 DEF Next, Loop, Environment

\* Every variable keeps its type, for any number of clients and descriptors.
THEOREM TypeCorrect == Spec => []TypeOK
<1>1. Spec => []TypeInv
  BY InitInv, TypeStep, PTL DEF Spec
<1> QED
  BY <1>1, PTL DEF TypeInv

-----------------------------------------------------------------------------
(* The two lists of client objects *)

\* A registered object is in the registry.
LEMMA ToSetAppend ==
    ASSUME NEW S, NEW s \in Seq(S), NEW x \in S
    PROVE  /\ ToSet(Append(s, x)) = ToSet(s) \cup {x}
           /\ DOMAIN s = 1..Len(s) /\ Len(s) \in Nat
           /\ DOMAIN Append(s, x) = 1..(Len(s) + 1)
           /\ Append(s, x)[Len(s) + 1] = x
           /\ \A i \in 1..Len(s) : Append(s, x)[i] = s[i]
<1> DEFINE t == Append(s, x)
<1>1. /\ t \in Seq(S) /\ Len(t) = Len(s) + 1
      /\ t[Len(s) + 1] = x /\ \A i \in 1..Len(s) : t[i] = s[i]
  BY AppendProperties
<1> HIDE DEF t
<1>2. DOMAIN s = 1..Len(s) /\ Len(s) \in Nat /\ DOMAIN t = 1..(Len(s) + 1)
  BY <1>1, LenProperties
<1>3. ToSet(t) = ToSet(s) \cup {x}
  BY <1>1, <1>2 DEF ToSet
<1> QED
  BY <1>1, <1>2, <1>3 DEF t

\* Every step changes both registries alike.
LEMMA RegistriesStep ==
    TypeInv /\ RegistriesAgree /\ [Next]_vars => RegistriesAgree'
<1> SUFFICES ASSUME TypeInv, RegistriesAgree, [Next]_vars
             PROVE  RegistriesAgree'
  OBVIOUS
<1>0. clients \in Seq(Objs) /\ queue \in Seq(Objs)
  BY DEF TypeInv, TypeOK
<1>1. CASE DeleteHead
  <2> DEFINE c == Head(queue)
  <2>1. /\ c \in Objs /\ clients' = Without(clients, c)
        /\ files' = Without(files, c) /\ heap' = heap \ {c}
    BY <1>0, <1>1, HeadTailProperties DEF DeleteHead
  <2> HIDE DEF c
  <2>2. /\ ToSet(Without(clients, c)) = ToSet(clients) \ {c}
        /\ \A i, k \in DOMAIN Without(clients, c) :
              Without(clients, c)[i] = Without(clients, c)[k] => i = k
    BY <1>0, WithoutSubset DEF RegistriesAgree
  <2>3. Without(Fixed \o clients, c) = Fixed \o Without(clients, c)
    <3>1. Fixed \in Seq(Objs \cup FixedFiles) /\ clients \in Seq(Objs \cup FixedFiles)
      BY <1>0, FixedType, SeqMonotonic
    <3>2. \A i \in DOMAIN Fixed : Fixed[i] # c
      <4>1. \A i \in DOMAIN Fixed : Fixed[i] \in FixedFiles
        <5>1. DOMAIN Fixed = 1..Len(Fixed)
          BY FixedType, LenProperties, Zenon
        <5> QED
          BY <5>1, FixedType, ElementOfSeq, Zenon
      <4> QED
        BY <2>1, <4>1 DEF FixedFiles
    <3> QED
      BY <3>1, <3>2, WithoutPrefix, SMTT(30) DEF RegistriesAgree
  <2> QED
    BY <2>1, <2>2, <2>3 DEF RegistriesAgree
<1>2. ASSUME NEW c \in Objs, Accept(c) \/ AcceptFails(c)
      PROVE  RegistriesAgree'
  <2>1. /\ c \notin heap /\ heap' = heap \cup {c}
        /\ files' = Append(files, c) /\ clients' = Append(clients, c)
    BY <1>2 DEF Accept, AcceptFails, NewClient
  <2>2. Append(Fixed \o clients, c) = Fixed \o Append(clients, c)
    <3> DEFINE T == Objs \cup FixedFiles
    <3>1. Fixed \in Seq(T) /\ clients \in Seq(T) /\ c \in T
      BY <1>0, FixedType, SeqMonotonic
    <3> HIDE DEF T
    <3>2. <<c>> \in Seq(T) /\ Fixed \o clients \in Seq(T)
      BY <3>1, ConcatProperties
    <3>3. (Fixed \o clients) \o <<c>> = Fixed \o (clients \o <<c>>)
      BY <3>1, <3>2, ConcatAssociative, SMTT(30)
    <3> QED
      BY <3>1, <3>2, <3>3, AppendIsConcat, ZenonT(30)
  <2>3. /\ ToSet(clients') = heap'
        /\ DOMAIN clients = 1..Len(clients) /\ Len(clients) \in Nat
        /\ DOMAIN clients' = 1..(Len(clients) + 1)
        /\ clients'[Len(clients) + 1] = c
        /\ \A i \in 1..Len(clients) : clients'[i] = clients[i]
    BY <1>0, <2>1, ToSetAppend DEF RegistriesAgree
  <2>4. \A i \in 1..Len(clients) : clients[i] # c
    BY <2>1, <2>3 DEF RegistriesAgree, ToSet
  <2>5. \A i, k \in DOMAIN clients' : clients'[i] = clients'[k] => i = k
    BY <2>3, <2>4, SMTT(30) DEF RegistriesAgree
  <2> QED
    BY <2>1, <2>2, <2>3, <2>5 DEF RegistriesAgree
<1>3. CASE UNCHANGED <<files, clients, heap>>
  BY <1>3 DEF RegistriesAgree
<1>4. \/ DeleteHead \/ \E c \in Objs : Accept(c) \/ AcceptFails(c)
      \/ UNCHANGED <<files, clients, heap>>
  BY DEF Next, Loop, Environment, Peer, ClientStep, Select, EndPass, Leave,
         QueueReady, Drained, ClientGone, ClientGoneMisread, ProtocolError,
         Request, Reply, SensorReady, BroadcastTo, BroadcastDone, StdinReady,
         ConfigReady, PeerConnect, PeerSend, PeerRead, PeerClose, PeerAbort,
         PeerReset, Network, DeviceInput, registry, vars
<1> QED
  BY <1>1, <1>2, <1>3, <1>4

\* Both lists of client objects hold exactly the live ones, in one order.
THEOREM RegistriesCorrect == Spec => []RegistriesAgree
<1>1. Spec => [](TypeInv /\ RegistriesAgree)
  BY InitInv, TypeStep, RegistriesStep, PTL DEF Spec
<1> QED
  BY <1>1, PTL

-----------------------------------------------------------------------------
(* The order of a pass *)

\* The files of main() come first, in their order; the clients follow.
LEMMA Places ==
    ASSUME TypeInv, RegistriesAgree
    PROVE  /\ Place(Begin) = 0
           /\ \A f \in FixedFiles : f \in ToSet(files) /\ Place(f) = 0 - f
           /\ \A c \in heap : c \in ToSet(files) /\ Place(c) \in Int /\ Place(c) > 7
           /\ \A c, d \in heap : Place(c) = Place(d) => c = d
           /\ ToSet(files) = FixedFiles \cup heap
<1>1. clients \in Seq(Objs) /\ Fixed \in Seq(Objs \cup FixedFiles)
      /\ clients \in Seq(Objs \cup FixedFiles)
  BY FixedType, SeqMonotonic DEF TypeInv, TypeOK
<1>2. /\ Len(files) = 7 + Len(clients) /\ files \in Seq(Objs \cup FixedFiles)
      /\ \A i \in 1..(7 + Len(clients)) :
            files[i] = IF i <= 7 THEN Fixed[i] ELSE clients[i - 7]
  <2>1. Len(Fixed) = 7
    BY FixedType
  <2>2. /\ Len(Fixed \o clients) = Len(Fixed) + Len(clients)
        /\ Fixed \o clients \in Seq(Objs \cup FixedFiles)
        /\ \A i \in 1..(Len(Fixed) + Len(clients)) :
              (Fixed \o clients)[i] = IF i <= Len(Fixed) THEN Fixed[i]
                                      ELSE clients[i - Len(Fixed)]
    BY <1>1, ConcatProperties
  <2> QED
    BY <2>1, <2>2 DEF RegistriesAgree
<1>3. DOMAIN files = 1..(7 + Len(clients)) /\ Len(clients) \in Nat
      /\ DOMAIN clients = 1..Len(clients)
  BY <1>1, <1>2, LenProperties
<1>4. \A i \in 1..7 : Fixed[i] = 0 - i
  BY DEF Fixed, First, Second, Server, Mainboard, Config, Meas, Stdin
<1>5. \A i \in DOMAIN files : /\ i <= 7 => files[i] = 0 - i
                              /\ i > 7 => files[i] = clients[i - 7]
                                          /\ i - 7 \in DOMAIN clients
  <2> SUFFICES ASSUME NEW i \in 1..(7 + Len(clients))
               PROVE  /\ i <= 7 => files[i] = 0 - i
                      /\ i > 7 => files[i] = clients[i - 7]
                                  /\ i - 7 \in 1..Len(clients)
    BY <1>3
  <2>1. i <= 7 => i \in 1..7
    OBVIOUS
  <2>2. i > 7 => i - 7 \in 1..Len(clients)
    BY <1>3
  <2> QED
    BY <1>2, <1>4, <2>1, <2>2
<1>6. \A i \in DOMAIN clients : clients[i] \in Objs
  BY <1>1, <1>3, ElementOfSeq
<1>7. \A f \in FixedFiles : f \notin Objs /\ f # Begin /\ f \in Int
  BY DEF FixedFiles, Begin
<1>8. ASSUME NEW f \in FixedFiles
      PROVE  f \in ToSet(files) /\ Place(f) = 0 - f
  <2>1. 0 - f \in DOMAIN files /\ files[0 - f] = f
    <3>1. 0 - f \in 1..7 /\ 0 - (0 - f) = f
      BY DEF FixedFiles
    <3> QED
      BY <1>3, <1>5, <3>1
  <2>2. \A i \in DOMAIN files : files[i] = f => i = 0 - f
    <3> SUFFICES ASSUME NEW i \in DOMAIN files, files[i] = f
                 PROVE  i = 0 - f
      OBVIOUS
    <3>1. CASE i <= 7
      BY <1>3, <1>5, <3>1
    <3>2. CASE i > 7
      BY <1>5, <1>6, <1>7, <3>2
    <3> QED
      BY <1>3, <3>1, <3>2
  <2>3. (CHOOSE i \in DOMAIN files : files[i] = f) = 0 - f
    BY <2>1, <2>2
  <2> QED
    BY <1>7, <2>1, <2>3 DEF Place, ToSet
<1>9. ASSUME NEW c \in heap
      PROVE  /\ c \in ToSet(files) /\ Place(c) \in DOMAIN files
             /\ files[Place(c)] = c /\ Place(c) > 7
  <2>1. PICK k \in DOMAIN clients : clients[k] = c
    BY DEF RegistriesAgree, ToSet
  <2>2. k + 7 \in DOMAIN files /\ files[k + 7] = c
    <3>1. k + 7 \in 1..(7 + Len(clients)) /\ k + 7 > 7 /\ (k + 7) - 7 = k
      BY <1>3
    <3> QED
      BY <1>3, <1>5, <2>1, <3>1
  <2>3. c \in Objs /\ c # Begin
    BY DEF TypeInv, TypeOK, Begin
  <2>4. Place(c) = CHOOSE i \in DOMAIN files : files[i] = c
    BY <2>3 DEF Place
  <2>5. Place(c) \in DOMAIN files /\ files[Place(c)] = c
    BY <2>2, <2>4
  <2>6. Place(c) > 7
    <3> SUFFICES ASSUME Place(c) <= 7 PROVE FALSE
      BY <1>3, <2>5
    <3>1. c = 0 - Place(c) /\ Place(c) \in 1..7
      BY <1>3, <1>5, <2>5
    <3> QED
      BY <2>3, <3>1
  <2> QED
    BY <2>2, <2>5, <2>6 DEF ToSet
<1>10. ToSet(files) \subseteq FixedFiles \cup heap
  <2> SUFFICES ASSUME NEW i \in DOMAIN files
               PROVE  files[i] \in FixedFiles \cup heap
    BY DEF ToSet
  <2>1. CASE i <= 7
    BY <1>3, <1>5, <2>1 DEF FixedFiles
  <2>2. CASE i > 7
    BY <1>5, <2>2 DEF RegistriesAgree, ToSet
  <2> QED
    BY <1>3, <2>1, <2>2
<1>11. Place(Begin) = 0
  BY DEF Place
<1>12. \A c, d \in heap : Place(c) = Place(d) => c = d
  BY <1>9
<1> QED
  BY <1>3, <1>8, <1>9, <1>10, <1>11, <1>12

\* The dispatch of a file is the first place after the iterator whose bit is
\* set; a handler of main()'s files after the queue, or of a client, runs
\* only when no delete is pending in front of it.
LEMMA DueFacts ==
    ASSUME TypeInv, RegistriesAgree, NEW f \in ToSet(files), Due(f)
    PROVE  /\ pc = "pass" /\ InPass
           /\ Place(f) > Place(it) /\ Bit(f) \in ready
           /\ it = Begin /\ FixedFd(Second) \in ready => Place(f) <= 2
<1>1. Place(Begin) = 0 /\ Place(Second) = 2 /\ Second \in ToSet(files)
  BY Places DEF FixedFiles, Second
<1>2. FdOf(Second) = FixedFd(Second) /\ FixedFd(Second) = 4
  BY FixedFdValues DEF FdOf, FixedFiles, Second
<1>3. Bit(Second) = FixedFd(Second)
  BY <1>2 DEF Bit
<1> QED
  BY <1>1, <1>3 DEF Due, InPass

\* An empty queue has no pending delete.
LEMMA QueueEmpty ==
    ASSUME TypeInv, RegistriesAgree, QueueInv,
           NEW f \in {Server, Mainboard, Config, Meas, Stdin}, Due(f)
    PROVE  queue = <<>>
<1>1. f \in FixedFiles /\ f \in Int /\ 0 - f > 2 /\ 0 - f <= 7
  BY DEF FixedFiles, Server, Mainboard, Config, Meas, Stdin
<1>2. f \in ToSet(files) /\ Place(f) = 0 - f
  BY <1>1, Places
<1> SUFFICES ASSUME queue # <<>> PROVE FALSE
  OBVIOUS
<1>3. 1 \in DOMAIN queue
  <2>1. queue \in Seq(Objs)
    BY DEF TypeInv, TypeOK
  <2> QED
    BY <2>1, EmptySeq, LenProperties
<1>4. \/ it = Begin /\ FixedFd(Second) \in ready
      \/ it \in heap
  BY <1>2, <1>3, DueFacts DEF QueueInv, QueueBehind
<1>5. Place(f) > Place(it)
  BY <1>2, DueFacts
<1>6. CASE it = Begin /\ FixedFd(Second) \in ready
  <2>1. Place(f) <= 2
    BY <1>2, <1>6, DueFacts
  <2> QED
    BY <1>1, <1>2, <2>1
<1>7. CASE it \in heap
  <2>1. Place(it) > 7 /\ Place(it) \in Int
    BY <1>7, Places
  <2> QED
    BY <1>1, <1>2, <1>5, <2>1
<1> QED
  BY <1>4, <1>6, <1>7

\* A client that is dispatched posts its delete behind all pending ones.
LEMMA QueueBehindClient ==
    ASSUME TypeInv, RegistriesAgree, QueueInv, NEW c \in heap, Due(c)
    PROVE  \A i \in DOMAIN queue : /\ queue[i] \in heap /\ queue[i] # c
                                   /\ Place(queue[i]) <= Place(c)
<1> SUFFICES ASSUME NEW i \in DOMAIN queue
             PROVE  /\ queue[i] \in heap /\ queue[i] # c
                    /\ Place(queue[i]) <= Place(c)
  OBVIOUS
<1>1. queue[i] \in heap /\ Place(queue[i]) \in Int
  BY Places DEF QueueInv, PendingDeletesSafe
<1>2. /\ c \in ToSet(files) /\ Place(c) > 7 /\ Place(c) \in Int
      /\ Place(c) > Place(it)
  BY Places, DueFacts
<1>3. it \in heap /\ Place(queue[i]) <= Place(it) /\ Place(it) \in Int
  <2>1. ~(it = Begin /\ FixedFd(Second) \in ready)
    BY <1>2, DueFacts
  <2>2. InPass
    BY <1>2, DueFacts
  <2> QED
    BY <2>1, <2>2, Places DEF QueueInv, QueueBehind
<1> QED
  BY <1>1, <1>2, <1>3

-----------------------------------------------------------------------------
(* The iterator *)

\* No step frees the object under the iterator.
LEMMA IteratorStep ==
    TypeInv /\ IteratorInv /\ [Next]_vars => IteratorInv'
<1> SUFFICES ASSUME TypeInv, IteratorInv, [Next]_vars
             PROVE  IteratorInv'
  OBVIOUS
<1> USE DEF IteratorInv, IteratorValid, registry, bcast
<1>0. Second \in FixedFiles /\ Server \in FixedFiles /\ Mainboard \in FixedFiles
      /\ Config \in FixedFiles /\ Meas \in FixedFiles /\ Stdin \in FixedFiles
  BY DEF FixedFiles, Second, Server, Mainboard, Config, Meas, Stdin
<1>1. CASE Select \/ EndPass \/ Leave
  BY <1>1 DEF Select, EndPass, Leave
<1>2. CASE QueueReady \/ DeleteHead \/ Drained
  BY <1>0, <1>2 DEF QueueReady, DeleteHead, Drained
<1>3. ASSUME NEW c \in Objs, Accept(c) \/ AcceptFails(c)
      PROVE  IteratorInv'
  BY <1>0, <1>3 DEF Accept, AcceptFails, Due
<1>4. ASSUME NEW c \in heap, ClientStep(c)
      PROVE  IteratorInv'
  <2>1. it' = c /\ heap' = heap /\ pc' \in {"pass", "ack", "report"}
    BY <1>4 DEF ClientStep, ClientGone, ClientGoneMisread, ProtocolError,
                Request, Due
  <2> QED
    BY <2>1
<1>5. CASE Reply \/ BroadcastTo \/ BroadcastDone
  <2>1. heap' = heap /\ it' = it /\ (pc' = pc \/ pc' \in {"pass", "broadcast", "killed"})
    BY <1>5 DEF Reply, BroadcastTo, BroadcastDone
  <2> QED
    BY <2>1
<1>6. ASSUME NEW d \in {Mainboard, Meas}, SensorReady(d)
      PROVE  IteratorInv'
  <2>1. it' = d /\ pc' \in {"pass", "broadcast", "killed"}
    BY <1>6 DEF SensorReady
  <2> QED
    BY <1>0, <2>1
<1>7. CASE StdinReady \/ ConfigReady
  <2>1. it' \in {Stdin, Config} /\ pc' \in {"pass", "hung", "killed"}
    BY <1>7 DEF StdinReady, ConfigReady, Due
  <2> QED
    BY <1>0, <2>1
<1>8. CASE UNCHANGED <<heap, it, pc>>
  BY <1>8
<1>9. CASE Environment
  BY <1>8, <1>9 DEF Environment, PeerConnect, Peer, PeerSend, PeerRead,
     PeerClose, PeerAbort, PeerReset, Network, DeviceInput
<1> QED
  BY <1>1, <1>2, <1>3, <1>4, <1>5, <1>6, <1>7, <1>8, <1>9 DEF Next, Loop, vars

\* What run()'s iterator stands on is never freed under it.
THEOREM IteratorCorrect == Spec => []IteratorValid
<1>1. Init => IteratorInv
  BY DEF Init, IteratorInv, IteratorValid
<1>2. Spec => [](TypeInv /\ IteratorInv)
  BY <1>1, InitInv, TypeStep, IteratorStep, PTL DEF Spec
<1>3. IteratorInv => IteratorValid
  BY DEF IteratorInv
<1> QED
  BY <1>2, <1>3, PTL

-----------------------------------------------------------------------------
(* The pending deletes *)

\* Second, and so the queue, is watched in every pass.
LEMMA SelectWatchesQueue ==
    ASSUME TypeInv, RegistriesAgree, QueueInv, Select, queue # <<>>
    PROVE  FixedFd(Second) \in ready'
<1>1. Second \in ToSet(files) /\ FdOf(Second) = 4 /\ FixedFd(Second) = 4
  BY Places, FixedFdValues DEF FdOf, FixedFiles, Second
<1>2. Readable(4)
  BY <1>1 DEF QueueInv, Readable
<1> QED
  BY <1>1, <1>2 DEF Select

\* A client's descriptor is closed and no delete is posted.
LEMMA QueueClosed ==
    ASSUME TypeInv, RegistriesAgree, QueueInv, NEW c \in heap, Due(c),
           \A d \in Objs : fd'[d] \in {fd[d], -1},
           it' = c, UNCHANGED <<files, heap, condemned, queue>>
    PROVE  QueueInv'
<1>1. queue \in Seq(Objs) /\ \A i \in DOMAIN queue : queue[i] \in Objs
  BY ElementOfSeq, LenProperties DEF TypeInv, TypeOK
<1>2. PendingDeletesSafe'
  BY <1>1 DEF QueueInv, PendingDeletesSafe
<1>3. \A i \in DOMAIN queue : Place(queue[i]) <= Place(c)
  BY QueueBehindClient
<1>4. QueueBehind'
  BY <1>3 DEF QueueBehind, Place
<1> QED
  BY <1>2, <1>4 DEF QueueInv

\* Every step keeps the pending deletes apart from live descriptors.
LEMMA QueueStep ==
    TypeInv /\ RegistriesAgree /\ QueueInv /\ IteratorInv /\ [Next]_vars
       => QueueInv'
<1> SUFFICES ASSUME TypeInv, RegistriesAgree, QueueInv, IteratorInv, [Next]_vars
             PROVE  QueueInv'
  OBVIOUS
<1> USE DEF registry, bcast
<1>0. /\ queue \in Seq(Objs) /\ DOMAIN queue = 1..Len(queue)
      /\ \A i \in DOMAIN queue : queue[i] \in Objs
  BY ElementOfSeq, LenProperties DEF TypeInv, TypeOK
\* Steps that neither post, close, free nor move the iterator.
<1>1. ASSUME UNCHANGED <<files, heap, fd, condemned, queue, it, ready>>,
             InPass' => InPass
      PROVE  QueueInv'
  <2>1. PendingDeletesSafe'
    BY <1>1 DEF QueueInv, PendingDeletesSafe
  <2>2. \A f : Place(f)' = Place(f)
    BY <1>1 DEF Place
  <2>3. QueueBehind'
    BY <1>1, <2>2 DEF QueueInv, QueueBehind
  <2> QED
    BY <1>1, <2>1, <2>3 DEF QueueInv
\* Steps that leave the queue empty.
<1>2. ASSUME queue' = <<>>
      PROVE  QueueInv'
  <2>1. DOMAIN queue' = {}
    BY <1>2, EmptySeq, LenProperties
  <2> QED
    BY <1>2, <2>1 DEF QueueInv, PendingDeletesSafe, QueueBehind
<1>3. CASE Select
  <2>1. QueueBehind'
    BY <1>0, <1>3, SelectWatchesQueue, EmptySeq, LenProperties
       DEF QueueBehind, Select
  <2> QED
    BY <1>3, <2>1 DEF Select, QueueInv, PendingDeletesSafe
<1>4. CASE EndPass \/ Leave \/ QueueReady
  <2>1. ~InPass' /\ UNCHANGED <<heap, fd, condemned, queue>>
    BY <1>4 DEF EndPass, Leave, QueueReady, InPass
  <2> QED
    BY <2>1 DEF QueueInv, PendingDeletesSafe, QueueBehind
<1>5. CASE DeleteHead
  <2> DEFINE c == Head(queue)
  <2>1. /\ queue # <<>> /\ queue' = Tail(queue) /\ pc' = "drain"
        /\ heap' = heap \ {c} /\ condemned' = condemned \ {c}
        /\ fd' = [fd EXCEPT ![c] = -1]
    BY <1>5 DEF DeleteHead
  <2>2. /\ Len(queue') = Len(queue) - 1 /\ queue' \in Seq(Objs)
        /\ \A i \in 1..Len(queue') : queue'[i] = queue[i + 1]
    BY <1>0, <2>1, HeadTailProperties
  <2>3. DOMAIN queue' = 1..Len(queue') /\ Len(queue) \in Nat \ {0} /\ c = queue[1]
    BY <1>0, <2>1, <2>2, LenProperties, EmptySeq
  <2> HIDE DEF c
  <2>4. \A i \in DOMAIN queue' : /\ i + 1 \in DOMAIN queue /\ 1 \in DOMAIN queue
                                 /\ i + 1 # 1 /\ queue'[i] = queue[i + 1]
    BY <1>0, <2>2, <2>3
  <2>5. PendingDeletesSafe'
    <3>1. ASSUME NEW i \in DOMAIN queue'
          PROVE  queue'[i] \in (condemned \cap heap)' /\ fd'[queue'[i]] = -1
      <4>1. /\ queue[i + 1] \in condemned \cap heap /\ fd[queue[i + 1]] = -1
            /\ queue[i + 1] # queue[1]
        BY <2>4 DEF QueueInv, PendingDeletesSafe
      <4> QED
        BY <1>0, <2>1, <2>3, <2>4, <4>1 DEF TypeInv, TypeOK
    <3>2. ASSUME NEW i \in DOMAIN queue', NEW k \in DOMAIN queue',
                 queue'[i] = queue'[k]
          PROVE  i = k
      <4>1. i + 1 = k + 1
        BY <2>4, <3>2 DEF QueueInv, PendingDeletesSafe
      <4> QED
        BY <2>2, <2>3, <4>1
    <3> QED
      BY <3>1, <3>2 DEF PendingDeletesSafe
  <2>6. ~InPass'
    BY <2>1 DEF InPass
  <2> QED
    BY <2>1, <2>5, <2>6 DEF QueueInv, QueueBehind
<1>6. CASE Drained
  BY <1>2, <1>6 DEF Drained
<1>7. ASSUME NEW c \in Objs, Accept(c) \/ AcceptFails(c)
      PROVE  QueueInv'
  <2>1. Due(Server) /\ queue' = queue
    BY <1>7 DEF Accept, AcceptFails
  <2> QED
    BY <1>2, <2>1, QueueEmpty
<1>8. ASSUME NEW c \in heap, ClientStep(c)
      PROVE  QueueInv'
  <2>1. c \in Objs /\ Due(c) /\ InPass
    BY <1>8 DEF TypeInv, TypeOK, ClientStep, ClientGone, ClientGoneMisread,
                ProtocolError, Request, Due, InPass
  <2>2. CASE ClientGone(c)
    <3>1. /\ fd' = [fd EXCEPT ![c] = -1] /\ queue' = Posted(queue, c) /\ it' = c
          /\ condemned' = condemned \cup {c} /\ UNCHANGED <<files, heap>>
      BY <2>2 DEF ClientGone, Closed
    <3>2. CASE ~DuplexPipe
      <4>1. queue' = queue /\ queue = <<>>
        BY <3>1, <3>2 DEF Posted, QueueInv
      <4> QED
        BY <1>2, <4>1
    <3>3. CASE DuplexPipe
      <4>1. queue' = Append(queue, c)
        BY <3>1, <3>3 DEF Posted
      <4>2. /\ DOMAIN queue' = 1..(Len(queue) + 1) /\ Len(queue) \in Nat
            /\ queue'[Len(queue) + 1] = c
            /\ \A i \in DOMAIN queue : queue'[i] = queue[i]
        BY <1>0, <2>1, <4>1, ToSetAppend
      <4>3. \A i \in DOMAIN queue : /\ queue[i] \in heap /\ queue[i] # c
                                    /\ Place(queue[i]) <= Place(c)
        BY <2>1, QueueBehindClient
      <4>4. \A i \in DOMAIN queue' : i \in DOMAIN queue \/ i = Len(queue) + 1
        BY <1>0, <4>2
      <4>5. PendingDeletesSafe'
        <5>1. ASSUME NEW i \in DOMAIN queue'
              PROVE  queue'[i] \in (condemned \cap heap)' /\ fd'[queue'[i]] = -1
          <6>1. fd'[c] = -1
            BY <2>1, <3>1 DEF TypeInv, TypeOK
          <6>2. CASE i \in DOMAIN queue
            BY <1>0, <3>1, <4>2, <6>2 DEF QueueInv, PendingDeletesSafe, TypeInv, TypeOK
          <6>3. CASE i = Len(queue) + 1
            BY <3>1, <4>2, <6>1, <6>3
          <6> QED
            BY <4>4, <6>2, <6>3
        <5>2. ASSUME NEW i \in DOMAIN queue', NEW k \in DOMAIN queue',
                     queue'[i] = queue'[k]
              PROVE  i = k
          BY <4>2, <4>3, <4>4, <5>2 DEF QueueInv, PendingDeletesSafe
        <5> QED
          BY <5>1, <5>2 DEF PendingDeletesSafe
      <4>6. QueueBehind'
        <5>1. \A i \in DOMAIN queue' : Place(queue'[i]) <= Place(c)
          BY <2>1, <4>2, <4>3, <4>4, Places
        <5> QED
          BY <3>1, <5>1 DEF QueueBehind, Place
      <4> QED
        BY <3>3, <4>5, <4>6 DEF QueueInv
    <3> QED
      BY <3>2, <3>3
  <2>3. CASE ClientGoneMisread(c) \/ ProtocolError(c)
    <3>1. Closed(c) /\ it' = c /\ UNCHANGED <<files, heap, condemned, queue>>
      BY <2>3 DEF ClientGoneMisread, ProtocolError
    <3>2. \A d \in Objs : fd'[d] \in {fd[d], -1}
      BY <3>1 DEF Closed, TypeInv, TypeOK
    <3> QED
      BY <2>1, <3>1, <3>2, QueueClosed
  <2>4. CASE Request(c)
    <3>1. it' = c /\ UNCHANGED <<files, heap, condemned, queue, fd>>
      BY <2>4 DEF Request
    <3> QED
      BY <2>1, <3>1, QueueClosed
  <2> QED
    BY <1>8, <2>2, <2>3, <2>4 DEF ClientStep
<1>9. CASE Reply
  <2>1. /\ UNCHANGED <<files, heap, condemned, queue, it, ready>> /\ InPass
        /\ (fd' = fd \/ fd' = [fd EXCEPT ![it] = -1])
    BY <1>9 DEF Reply, Closed, InPass
  <2>2. \A i \in DOMAIN queue : fd'[queue[i]] \in {fd[queue[i]], -1}
    BY <1>0, <2>1 DEF TypeInv, TypeOK
  <2> QED
    BY <2>1, <2>2 DEF QueueInv, PendingDeletesSafe, QueueBehind, Place
<1>10. CASE \/ \E d \in {Mainboard, Meas} : SensorReady(d)
            \/ StdinReady \/ ConfigReady
  <2>1. /\ queue' = queue
        /\ \E f \in {Mainboard, Config, Meas, Stdin} : Due(f)
    BY <1>10 DEF SensorReady, StdinReady, ConfigReady
  <2> QED
    BY <1>2, <2>1, QueueEmpty
<1>11. CASE BroadcastTo \/ BroadcastDone
  <2>1. UNCHANGED <<files, heap, fd, condemned, queue, it, ready>> /\ InPass
    BY <1>11 DEF BroadcastTo, BroadcastDone, InPass
  <2> QED
    BY <1>1, <2>1
<1>12. CASE Environment
  <2>1. UNCHANGED <<files, heap, fd, condemned, queue, it, ready, pc>>
    BY <1>12 DEF Environment, PeerConnect, Peer, PeerSend, PeerRead,
       PeerClose, PeerAbort, PeerReset, Network, DeviceInput
  <2> QED
    BY <1>1, <2>1 DEF InPass
<1>13. CASE UNCHANGED vars
  BY <1>1, <1>13 DEF vars, InPass
<1> QED
  BY <1>3, <1>4, <1>5, <1>6, <1>7, <1>8, <1>9, <1>10, <1>11, <1>12, <1>13
     DEF Next, Loop

\* No client object is deleted twice, or in the place of another one that got
\* its address, however the posting and the reading of events interleave.
THEOREM PendingDeletesCorrect == Spec => []PendingDeletesSafe
<1>1. Init => IteratorInv
  BY DEF Init, IteratorInv, IteratorValid
<1>2. Spec => [](TypeInv /\ RegistriesAgree /\ IteratorInv /\ QueueInv)
  BY <1>1, InitInv, TypeStep, RegistriesStep, IteratorStep,
     QueueStep, PTL DEF Spec
<1>3. QueueInv => PendingDeletesSafe
  BY DEF QueueInv
<1> QED
  BY <1>2, <1>3, PTL

-----------------------------------------------------------------------------
(* Descriptors and their owners *)

\* A step that neither opens nor closes a connection.
LEMMA SameOwners ==
    ASSUME FdOwnership, UNCHANGED <<heap, fd>>, TypeInv,
           \A n \in ClientFds : conn'[n].state = "free" <=> conn[n].state = "free"
    PROVE  FdOwnership'
<1>1. \A c \in heap : fd[c] \in ClientFds \cup {-1}
  BY DEF TypeInv, TypeOK
<1> QED
  BY <1>1 DEF FdOwnership

\* Closing the descriptor of one object.
LEMMA ClosedOwners ==
    ASSUME TypeInv, FdOwnership, NEW c \in heap, Closed(c), heap' = heap
    PROVE  FdOwnership'
<1>1. /\ c \in Objs /\ fd[c] \in ClientFds \cup {-1}
      /\ fd' = [fd EXCEPT ![c] = -1] /\ heap' = heap /\ heap \subseteq Objs
      /\ fd \in [Objs -> ClientFds \cup {-1}]
  BY DEF TypeInv, TypeOK, Closed
<1>2. /\ fd'[c] = -1
      /\ \A d \in heap : d # c => fd'[d] = fd[d]
  BY <1>1
<1>3. \A n \in ClientFds : conn'[n].state =
                              IF n = fd[c] THEN "free" ELSE conn[n].state
  <2>1. CASE fd[c] = -1
    BY <2>1 DEF Closed, ClientFds
  <2>2. CASE fd[c] # -1
    <3>1. conn' = [conn EXCEPT ![fd[c]] = Free]
      BY <2>2 DEF Closed
    <3> QED
      BY <1>1, <2>2, <3>1 DEF Free, TypeInv, TypeOK
  <2> QED
    BY <2>1, <2>2
<1>4. \A d \in heap : fd[d] \in ClientFds \cup {-1}
  BY <1>1
<1>5. ASSUME NEW d \in heap, fd'[d] # -1
      PROVE  conn'[fd'[d]].state # "free"
  BY <1>1, <1>2, <1>3, <1>4, <1>5 DEF FdOwnership
<1>6. ASSUME NEW d \in heap, NEW e \in heap, fd'[d] = fd'[e], fd'[d] # -1
      PROVE  d = e
  BY <1>2, <1>6 DEF FdOwnership
<1>7. ASSUME NEW n \in ClientFds, conn'[n].state # "free"
      PROVE  \E d \in heap : fd'[d] = n
  BY <1>2, <1>3, <1>7 DEF FdOwnership
<1> QED
  BY <1>1, <1>5, <1>6, <1>7 DEF FdOwnership

\* A step writes to one connection, or not at all.
WrittenTo(n) == \/ conn' = conn
                \/ CanWrite(n) /\ conn' = Written(n)
                \/ WriteFails(n) /\ conn' = Refused(n)

\* A write changes no connection from closed to open nor back.
LEMMA WrittenStates ==
    ASSUME TypeInv, NEW n, WrittenTo(n)
    PROVE  \A m \in ClientFds :
              /\ conn'[m].state = "free" <=> conn[m].state = "free"
              /\ conn'[m].state = "est" => conn[m].state = "est"
              /\ conn'[m].rx = conn[m].rx
              /\ m # n => conn'[m] = conn[m]
<1> SUFFICES ASSUME NEW m \in ClientFds
             PROVE  /\ conn'[m].state = "free" <=> conn[m].state = "free"
                    /\ conn'[m].state = "est" => conn[m].state = "est"
                    /\ conn'[m].rx = conn[m].rx
                    /\ m # n => conn'[m] = conn[m]
  OBVIOUS
<1>1. conn \in [ClientFds -> Conns] /\ conn[m] \in Conns
  BY DEF TypeInv, TypeOK
<1>2. CASE conn' = conn
  BY <1>2
<1>3. CASE CanWrite(n) /\ conn' = Written(n)
  <2>1. conn'[m] = IF m = n THEN [conn[m] EXCEPT !.tx = @ + 1] ELSE conn[m]
    BY <1>1, <1>3 DEF Written
  <2> QED
    BY <1>1, <2>1 DEF Conns
<1>4. CASE WriteFails(n) /\ conn' = Refused(n)
  <2>1. conn'[m] = IF m = n THEN [conn[m] EXCEPT !.state = "broken"] ELSE conn[m]
    BY <1>1, <1>4 DEF Refused
  <2> QED
    BY <1>1, <1>4, <2>1 DEF Conns, WriteFails
<1> QED
  BY <1>2, <1>3, <1>4 DEF WrittenTo

\* A peer's step changes one open connection and leaves it open.
LEMMA PeerStates ==
    ASSUME TypeInv, NEW n \in ClientFds, Peer(n)
    PROVE  /\ UNCHANGED <<files, heap, fd, queue, pc, ready, it>>
           /\ \A m \in ClientFds :
                 /\ conn'[m].state = "free" <=> conn[m].state = "free"
                 /\ conn'[m].rx # <<>> \/ conn'[m].state # "est"
                       \/ (conn'[m].rx = conn[m].rx /\ conn[m].state = "est")
                 /\ conn[m].rx # <<>> => conn'[m].rx # <<>>
<1>0. conn \in [ClientFds -> Conns] /\ conn[n] \in Conns
      /\ conn[n].rx \in Seq(Requests)
  BY DEF TypeInv, TypeOK, Conns
<1>1. PICK new :
         /\ Network(n, new)
         /\ conn[n].state # "free" /\ new.state # "free"
         /\ new.rx # <<>> \/ new.state # "est"
               \/ (new.rx = conn[n].rx /\ conn[n].state = "est")
         /\ conn[n].rx # <<>> => new.rx # <<>>
  <2>1. CASE PeerSend(n)
    <3>1. PICK r \in Requests :
             Network(n, [conn[n] EXCEPT !.rx = Append(@, r)])
      BY <2>1 DEF PeerSend
    <3>2. Append(conn[n].rx, r) # <<>>
      BY <1>0, AppendProperties
    <3> QED
      BY <1>0, <2>1, <3>1, <3>2 DEF PeerSend, Conns
  <2>2. CASE PeerRead(n)
    <3> DEFINE new == [conn[n] EXCEPT !.tx = @ - 1]
    <3>1. new.state = conn[n].state /\ new.rx = conn[n].rx
      BY <1>0 DEF Conns
    <3>2. Network(n, new) /\ conn[n].state # "free"
      BY <2>2 DEF PeerRead
    <3> HIDE DEF new
    <3> QED
      BY <3>1, <3>2
  <2>3. CASE PeerClose(n) \/ PeerAbort(n) \/ PeerReset(n)
    <3>1. PICK s \in {"fin", "reset", "broken"} :
             Network(n, [conn[n] EXCEPT !.state = s]) /\ conn[n].state # "free"
      BY <2>3 DEF PeerClose, PeerAbort, PeerReset
    <3> DEFINE new == [conn[n] EXCEPT !.state = s]
    <3>2. new.state = s /\ new.rx = conn[n].rx /\ Network(n, new)
      BY <1>0, <3>1 DEF Conns
    <3> HIDE DEF new
    <3> QED
      BY <3>1, <3>2
  <2> QED
    BY <2>1, <2>2, <2>3 DEF Peer
<1>2. conn' = [conn EXCEPT ![n] = new]
      /\ UNCHANGED <<files, heap, fd, queue, pc, ready, it>>
  BY <1>1 DEF Network, registry
<1>3. \A m \in ClientFds : conn'[m] = IF m = n THEN new ELSE conn[m]
  BY <1>0, <1>2
<1> QED
  BY <1>1, <1>2, <1>3

\* Every step that opens, closes or frees keeps one owner per descriptor.
LEMMA OwnersStep ==
    TypeInv /\ FdOwnership /\ QueueInv /\ IteratorInv /\ [Next]_vars
       => FdOwnership'
<1> SUFFICES ASSUME TypeInv, FdOwnership, QueueInv, IteratorInv, [Next]_vars
             PROVE  FdOwnership'
  OBVIOUS
<1> USE DEF registry, bcast
<1>1. CASE UNCHANGED <<heap, fd, conn>>
  BY <1>1, SameOwners
<1>2. CASE DeleteHead
  <2> DEFINE c == Head(queue)
  <2>1. /\ heap' = heap \ {c} /\ fd' = [fd EXCEPT ![c] = -1]
        /\ conn' = IF fd[c] > 0 THEN [conn EXCEPT ![fd[c]] = Free] ELSE conn
    BY <1>2 DEF DeleteHead
  <2>2. fd[c] = -1 /\ fd \in [Objs -> ClientFds \cup {-1}]
    <3>1. queue \in Seq(Objs) /\ queue # <<>>
      BY <1>2 DEF DeleteHead, TypeInv, TypeOK
    <3>2. 1 \in DOMAIN queue /\ c = queue[1]
      BY <3>1, EmptySeq, LenProperties
    <3> QED
      BY <3>2 DEF QueueInv, PendingDeletesSafe, TypeInv, TypeOK
  <2>3. conn' = conn /\ fd' = fd
    BY <2>1, <2>2
  <2> HIDE DEF c
  <2> QED
    BY <2>1, <2>2, <2>3 DEF FdOwnership, ClientFds
<1>3. ASSUME NEW c \in Objs, Accept(c)
      PROVE  FdOwnership'
  <2>1. PICK n \in FreeFds : NewClient(c, n) /\ conn' = [conn EXCEPT ![n] = Opened]
    BY <1>3 DEF Accept
  <2>2. /\ n \in ClientFds /\ conn[n].state = "free" /\ n # -1
        /\ c \notin heap /\ heap' = heap \cup {c} /\ fd' = [fd EXCEPT ![c] = n]
    BY <2>1 DEF FreeFds, NewClient, ClientFds
  <2>3. \A m \in ClientFds : conn'[m].state = IF m = n THEN "est" ELSE conn[m].state
    BY <2>1, <2>2 DEF Opened, TypeInv, TypeOK
  <2>4. /\ fd'[c] = n
        /\ \A d \in heap : d # c /\ fd'[d] = fd[d] /\ fd[d] # n
                           /\ fd[d] \in ClientFds \cup {-1}
    BY <2>2 DEF FdOwnership, TypeInv, TypeOK
  <2>5. ASSUME NEW d \in heap', fd'[d] # -1
        PROVE  conn'[fd'[d]].state # "free"
    BY <2>2, <2>3, <2>4, <2>5 DEF FdOwnership
  <2>6. ASSUME NEW d \in heap', NEW e \in heap', fd'[d] = fd'[e], fd'[d] # -1
        PROVE  d = e
    BY <2>2, <2>4, <2>6 DEF FdOwnership
  <2>7. ASSUME NEW m \in ClientFds, conn'[m].state # "free"
        PROVE  \E d \in heap' : fd'[d] = m
    BY <2>2, <2>3, <2>4, <2>7 DEF FdOwnership
  <2> QED
    BY <2>5, <2>6, <2>7 DEF FdOwnership
<1>4. ASSUME NEW c \in Objs, AcceptFails(c)
      PROVE  FdOwnership'
  <2>1. /\ heap' = heap \cup {c} /\ fd' = [fd EXCEPT ![c] = -1] /\ conn' = conn
        /\ c \notin heap
    BY <1>4 DEF AcceptFails, NewClient
  <2>2. fd'[c] = -1 /\ \A d \in heap : d # c /\ fd'[d] = fd[d]
    BY <2>1 DEF TypeInv, TypeOK
  <2> QED
    BY <2>1, <2>2 DEF FdOwnership
<1>5. ASSUME NEW c \in heap, ClientStep(c)
      PROVE  FdOwnership'
  <2>1. CASE ClientGone(c) \/ ClientGoneMisread(c) \/ ProtocolError(c)
    <3>1. Closed(c) /\ heap' = heap
      BY <2>1 DEF ClientGone, ClientGoneMisread, ProtocolError
    <3> QED
      BY <3>1, ClosedOwners
  <2>2. CASE Request(c)
    <3>1. conn' = [conn EXCEPT ![fd[c]].rx = Tail(@)] /\ UNCHANGED <<heap, fd>>
      BY <2>2 DEF Request
    <3>2. \A n \in ClientFds : conn'[n].state = conn[n].state
      BY <3>1 DEF TypeInv, TypeOK, Conns
    <3> QED
      BY <3>1, <3>2, SameOwners
  <2> QED
    BY <1>5, <2>1, <2>2 DEF ClientStep
<1>6. CASE Reply
  <2>1. it \in heap /\ heap' = heap
    BY <1>6 DEF Reply, IteratorInv
  <2>2. CASE Closed(it)
    BY <2>1, <2>2, ClosedOwners
  <2>3. CASE WrittenTo(fd[it]) /\ fd' = fd
    BY <2>1, <2>3, WrittenStates, SameOwners
  <2> QED
    BY <1>6, <2>2, <2>3 DEF Reply, WrittenTo
<1>7. CASE BroadcastTo
  <2>1. WrittenTo(fd[clients[bnext]]) /\ UNCHANGED <<heap, fd>>
    BY <1>7 DEF BroadcastTo, WrittenTo
  <2> QED
    BY <2>1, WrittenStates, SameOwners
<1>8. ASSUME NEW n \in ClientFds, Peer(n)
      PROVE  FdOwnership'
  BY <1>8, PeerStates, SameOwners
<1>9. CASE \/ Select \/ EndPass \/ Leave \/ QueueReady \/ Drained
           \/ \E d \in {Mainboard, Meas} : SensorReady(d)
           \/ BroadcastDone \/ StdinReady \/ ConfigReady
           \/ PeerConnect \/ \E d \in Devices : DeviceInput(d)
           \/ UNCHANGED vars
  BY <1>1, <1>9 DEF Select, EndPass, Leave, QueueReady, Drained, SensorReady,
     BroadcastDone, StdinReady, ConfigReady, PeerConnect, DeviceInput, vars
<1> QED
  BY <1>2, <1>3, <1>4, <1>5, <1>6, <1>7, <1>8, <1>9 DEF Next, Loop, Environment

\* Descriptors have one live owner each, are never used after they are closed,
\* and never leak, for any number of clients and any order of events.
THEOREM FdOwnershipCorrect == Spec => []FdOwnership
<1>1. Init => IteratorInv
  BY DEF Init, IteratorInv, IteratorValid
<1>2. Spec => [](TypeInv /\ RegistriesAgree /\ IteratorInv /\ QueueInv
                 /\ FdOwnership)
  BY <1>1, InitInv, TypeStep, RegistriesStep, IteratorStep,
     QueueStep, OwnersStep, PTL DEF Spec
<1> QED
  BY <1>2, PTL

-----------------------------------------------------------------------------
(* What select() said stays true until it is used *)

Safe == TypeInv /\ RegistriesAgree /\ IteratorInv /\ QueueInv /\ FdOwnership

\* While the iterator is among the files of main(), every client is ahead.
LEMMA ClientsAhead ==
    ASSUME Safe, it \in FixedFiles \cup {Begin}
    PROVE  \A c \in heap : Place(c) > Place(it)
<1> SUFFICES ASSUME NEW c \in heap PROVE Place(c) > Place(it)
  OBVIOUS
<1> USE DEF Safe
<1>1. Place(c) \in Int /\ Place(c) > 7
  BY Places
<1>2. CASE it = Begin
  BY <1>1, <1>2, Places
<1>3. CASE it \in FixedFiles
  <2>1. Place(it) = 0 - it /\ it \in Int /\ 0 - it <= 7
    BY <1>3, Places DEF FixedFiles
  <2> QED
    BY <1>1, <2>1
<1> QED
  BY <1>2, <1>3

\* Where the iterator stands when a file of main() is dispatched.
LEMMA FixedDue ==
    ASSUME Safe, NEW f \in FixedFiles, Due(f)
    PROVE  /\ pc = "pass" /\ InPass /\ it \in FixedFiles \cup {Begin}
           /\ f \in {Second, Server} => it \in {Begin, First, Second}
<1> USE DEF Safe
<1>1. f \in ToSet(files) /\ Place(f) = 0 - f /\ f \in Int /\ 0 - f <= 7
  BY Places DEF FixedFiles
<1>2. pc = "pass" /\ InPass /\ Place(f) > Place(it)
  BY <1>1, DueFacts
<1>3. it \in FixedFiles \cup {Begin}
  <2>1. it \in heap => Place(it) \in Int /\ Place(it) > 7
    BY Places
  <2> QED
    BY <1>1, <1>2, <2>1 DEF IteratorInv, IteratorValid
<1>4. ASSUME f \in {Second, Server}, it \in FixedFiles
      PROVE  it \in {First, Second}
  <2>1. Place(it) = 0 - it /\ it \in Int /\ 0 - it > 0
    BY <1>4, Places DEF FixedFiles
  <2>2. 0 - f <= 3
    BY <1>4 DEF Second, Server
  <2> QED
    BY <1>1, <1>2, <2>1, <2>2 DEF First, Second
<1> QED
  BY <1>2, <1>3, <1>4

\* Before the server runs in a pass, no reported descriptor loses its owner.
LEMMA ReadyOwnedStep ==
    Safe /\ ReadyOwned /\ [Next]_vars => ReadyOwned'
<1> SUFFICES ASSUME Safe, ReadyOwned, [Next]_vars PROVE ReadyOwned'
  OBVIOUS
<1> USE DEF Safe, registry, bcast
<1>1. CASE UNCHANGED <<heap, fd, ready, it>> /\ (InPass \/ pc = "drain")
  BY <1>1 DEF ReadyOwned
<1>2. CASE it' \notin {Begin, First, Second}
  BY <1>2 DEF ReadyOwned
<1>3. CASE pc' \in {"select", "exit", "hung", "killed"}
  BY <1>3 DEF ReadyOwned, InPass
<1>4. CASE Select
  <2> SUFFICES ASSUME NEW n \in ready' \cap ClientFds
               PROVE  \E c \in heap : fd[c] = n
    BY <1>4 DEF ReadyOwned, Select
  <2>1. PICK f \in ToSet(files) : n = FdOf(f)
    BY <1>4 DEF Select
  <2>2. CASE f \in FixedFiles
    <3>1. FixedFd(f) \in {3, 4, 5, 6, -1, 7, 1}
      <4>1. f \in {First, Second, Server, Mainboard, Config, Meas, Stdin}
        BY <2>2 DEF FixedFiles, First, Second, Server, Mainboard, Config, Meas,
                    Stdin
      <4> QED
        BY <4>1, FixedFdValues
    <3> QED
      BY <2>1, <2>2, <3>1 DEF FdOf, ClientFds
  <2>3. CASE f \notin FixedFiles
    BY <2>1, <2>3, Places DEF FdOf
  <2> QED
    BY <2>2, <2>3
<1>5. CASE QueueReady
  <2>1. it \in {Begin, First, Second} /\ InPass
    BY <1>5, FixedDue DEF QueueReady, FixedFiles, Second
  <2> QED
    BY <1>5, <2>1 DEF QueueReady, ReadyOwned
<1>6. CASE DeleteHead
  <2> DEFINE c == Head(queue)
  <2>1. fd[c] = -1 /\ heap' = heap \ {c} /\ fd' = [fd EXCEPT ![c] = -1]
        /\ UNCHANGED <<ready, it>> /\ pc = "drain"
    <3>1. queue \in Seq(Objs) /\ queue # <<>>
      BY <1>6 DEF DeleteHead, TypeInv, TypeOK
    <3>2. 1 \in DOMAIN queue /\ c = queue[1]
      BY <3>1, EmptySeq, LenProperties
    <3> QED
      BY <1>6, <3>2 DEF DeleteHead, QueueInv, PendingDeletesSafe
  <2> HIDE DEF c
  <2>2. \A n \in ready \cap ClientFds : n # -1
    BY DEF ClientFds
  <2>3. \A d \in heap : d # c => fd'[d] = fd[d]
    BY <2>1 DEF TypeInv, TypeOK
  <2> QED
    BY <2>1, <2>2, <2>3 DEF ReadyOwned
<1>7. CASE EndPass \/ Leave \/ Drained
  BY <1>1, <1>3, <1>7 DEF EndPass, Leave, Drained
<1>8. ASSUME NEW c \in Objs, Accept(c) \/ AcceptFails(c)
      PROVE  ReadyOwned'
  BY <1>2, <1>8 DEF Accept, AcceptFails, Server, Begin, First, Second
<1>9. ASSUME NEW c \in heap, ClientStep(c)
      PROVE  ReadyOwned'
  <2>1. it' = c /\ c \in Objs
    BY <1>9 DEF ClientStep, ClientGone, ClientGoneMisread, ProtocolError,
                Request, TypeInv, TypeOK
  <2> QED
    BY <1>2, <2>1 DEF Begin, First, Second
<1>10. CASE Reply
  <2>1. it' = it /\ it \in Objs
    BY <1>10 DEF Reply, IteratorInv, TypeInv, TypeOK
  <2> QED
    BY <1>2, <2>1 DEF Begin, First, Second
<1>11. CASE BroadcastTo \/ BroadcastDone
  BY <1>1, <1>11 DEF BroadcastTo, BroadcastDone, InPass
<1>12. CASE \/ \E d \in {Mainboard, Meas} : SensorReady(d)
            \/ StdinReady \/ ConfigReady
  <2>1. it' \in {Mainboard, Meas, Stdin, Config}
    BY <1>12 DEF SensorReady, StdinReady, ConfigReady
  <2> QED
    BY <1>2, <2>1
       DEF Mainboard, Meas, Stdin, Config, Begin, First, Second
<1>13. CASE Environment \/ UNCHANGED vars
  <2>1. UNCHANGED <<heap, fd, ready, it, pc>>
    BY <1>13 DEF Environment, PeerConnect, Peer, PeerSend, PeerRead,
       PeerClose, PeerAbort, PeerReset, Network, DeviceInput, vars
  <2> QED
    BY <2>1 DEF ReadyOwned, InPass
<1> QED
  BY <1>4, <1>5, <1>6, <1>7, <1>8, <1>9, <1>10, <1>11, <1>12, <1>13 DEF Next, Loop

\* The step of one client leaves what is known of those behind it.
LEMMA FreshBehind ==
    ASSUME Safe, ReadyFresh, NEW c \in heap, InPass,
           Due(c) \/ it = c,
           \A d \in heap : d # c => fd'[d] = fd[d],
           \A n \in ClientFds : n # fd[c] => conn'[n] = conn[n],
           it' = c, UNCHANGED <<files, heap, ready>>
    PROVE  ReadyFresh'
<1> USE DEF Safe
<1>0. \A f : Place(f)' = Place(f)
  BY DEF Place
<1> SUFFICES ASSUME NEW d \in heap,
                    fd'[d] \in ready \cap ClientFds, Place(d) > Place(c)
             PROVE  conn'[fd'[d]].rx # <<>> \/ conn'[fd'[d]].state # "est"
  BY <1>0 DEF ReadyFresh
<1>1. /\ c \in ToSet(files) /\ Place(c) \in Int /\ Place(d) \in Int
      /\ Place(it) \in Int
  BY Places DEF IteratorInv, IteratorValid, FixedFiles
<1>2. d # c
  BY <1>1
<1>3. fd'[d] = fd[d] /\ fd[d] # fd[c] /\ fd[d] \in ClientFds /\ fd[d] \in ready
  BY <1>2 DEF FdOwnership, ClientFds
<1>4. Place(d) > Place(it)
  BY <1>1, DueFacts
<1>5. conn[fd[d]].rx # <<>> \/ conn[fd[d]].state # "est"
  BY <1>3, <1>4 DEF ReadyFresh
<1> QED
  BY <1>3, <1>5

\* A step that moves the iterator no further than the files of main().
LEMMA FreshKept ==
    ASSUME Safe, ReadyFresh, InPass \/ pc = "drain",
           it' = it \/ it \in FixedFiles \cup {Begin},
           UNCHANGED <<files, heap, ready, fd>>,
           \A n \in ClientFds :
              \/ conn'[n].rx # <<>> \/ conn'[n].state # "est"
              \/ conn'[n].rx = conn[n].rx /\ conn[n].state = "est"
    PROVE  ReadyFresh'
<1>0. \A f : Place(f)' = Place(f)
  BY DEF Place
<1> SUFFICES ASSUME NEW c \in heap,
                    fd[c] \in ready \cap ClientFds, Place(c) > Place(it')
             PROVE  conn'[fd[c]].rx # <<>> \/ conn'[fd[c]].state # "est"
  BY <1>0 DEF ReadyFresh
<1>1. Place(c) > Place(it)
  BY ClientsAhead
<1>2. conn[fd[c]].rx # <<>> \/ conn[fd[c]].state # "est"
  BY <1>1 DEF ReadyFresh
<1> QED
  BY <1>2

\* What select() reported of a client stays true until it is dispatched.
LEMMA ReadyFreshStep ==
    Safe /\ ReadyOwned /\ ReadyFresh /\ [Next]_vars => ReadyFresh'
<1> SUFFICES ASSUME Safe, ReadyOwned, ReadyFresh, [Next]_vars PROVE ReadyFresh'
  OBVIOUS
<1> USE DEF Safe, registry, bcast
<1>0. /\ \A c \in heap : c \in Objs /\ c \notin FixedFiles
      /\ conn \in [ClientFds -> Conns] /\ fd \in [Objs -> ClientFds \cup {-1}]
  BY DEF TypeInv, TypeOK, FixedFiles
<1>1. CASE pc' \in {"select", "exit", "hung", "killed"}
  BY <1>1 DEF ReadyFresh, InPass
<1>2. CASE Select
  <2> SUFFICES ASSUME NEW c \in heap, fd[c] \in ready' \cap ClientFds
               PROVE  conn[fd[c]].rx # <<>> \/ conn[fd[c]].state # "est"
    BY <1>2 DEF ReadyFresh, Select
  <2>1. Readable(fd[c])
    BY <1>2 DEF Select
  <2>2. fd[c] \notin {1, 4, 5, 6, 7}
    BY DEF ClientFds
  <2> QED
    BY <2>1, <2>2, FixedFdValues DEF Readable
<1>3. CASE QueueReady \/ Drained
  <2>1. /\ InPass \/ pc = "drain"
        /\ it' = it \/ it \in FixedFiles \cup {Begin}
        /\ UNCHANGED <<files, heap, ready, fd, conn>>
    BY <1>3, FixedDue DEF QueueReady, Drained, FixedFiles, Second
  <2> QED
    BY <2>1, FreshKept
<1>4. CASE DeleteHead
  <2> DEFINE c == Head(queue)
  <2>1. fd[c] = -1 /\ heap' = heap \ {c} /\ fd' = [fd EXCEPT ![c] = -1]
        /\ UNCHANGED <<ready, it, conn>> /\ pc = "drain" /\ it = Second
    <3>1. queue \in Seq(Objs) /\ queue # <<>>
      BY <1>4 DEF DeleteHead, TypeInv, TypeOK
    <3>2. 1 \in DOMAIN queue /\ c = queue[1]
      BY <3>1, EmptySeq, LenProperties
    <3> QED
      BY <1>4, <3>2 DEF DeleteHead, QueueInv, PendingDeletesSafe, IteratorInv
  <2> HIDE DEF c
  <2>2. \A d \in heap : d # c => fd'[d] = fd[d] /\ Place(d) > Place(it)
    BY <1>0, <2>1, ClientsAhead DEF FixedFiles, Second
  <2> QED
    BY <2>1, <2>2 DEF ReadyFresh
<1>5. ASSUME NEW c \in Objs, Accept(c) \/ AcceptFails(c)
      PROVE  ReadyFresh'
  <2>1. /\ Due(Server) /\ heap' = heap \cup {c} /\ c \notin heap
        /\ ready' = ready
        /\ \E n \in ClientFds \cup {-1} :
              /\ fd' = [fd EXCEPT ![c] = n]
              /\ \/ n = -1 /\ conn' = conn
                 \/ /\ n # -1 /\ conn[n].state = "free"
                    /\ conn' = [conn EXCEPT ![n] = Opened]
    BY <1>5 DEF Accept, AcceptFails, NewClient, FreeFds, ClientFds
  <2>2. PICK n \in ClientFds \cup {-1} :
           /\ fd' = [fd EXCEPT ![c] = n]
           /\ \/ n = -1 /\ conn' = conn
              \/ /\ n # -1 /\ conn[n].state = "free"
                 /\ conn' = [conn EXCEPT ![n] = Opened]
    BY <2>1
  <2>3. /\ it \in {Begin, First, Second} /\ InPass
        /\ it \in FixedFiles \cup {Begin}
    BY <2>1, FixedDue DEF FixedFiles, Server
  <2>4. n \notin ready \cap ClientFds
    <3>1. CASE n = -1
      BY <3>1 DEF ClientFds
    <3>2. CASE n # -1
      BY <2>2, <2>3, <3>2 DEF ReadyOwned, FdOwnership
    <3> QED
      BY <3>1, <3>2
  <2> SUFFICES ASSUME NEW d \in heap', fd'[d] \in ready \cap ClientFds
               PROVE  conn'[fd'[d]].rx # <<>> \/ conn'[fd'[d]].state # "est"
    BY <2>1 DEF ReadyFresh
  <2>5. d # c /\ d \in heap
    BY <1>0, <2>1, <2>2, <2>4
  <2>6. fd'[d] = fd[d] /\ fd[d] # n /\ Place(d) > Place(it)
    BY <1>0, <2>2, <2>3, <2>4, <2>5, ClientsAhead
  <2>7. conn'[fd[d]] = conn[fd[d]]
    BY <1>0, <2>2, <2>6
  <2> QED
    BY <2>3, <2>5, <2>6, <2>7 DEF ReadyFresh
<1>6. ASSUME NEW c \in heap, ClientStep(c)
      PROVE  ReadyFresh'
  <2>1. /\ Due(c) /\ it' = c /\ UNCHANGED <<files, heap, ready>>
        /\ \/ Closed(c)
           \/ fd' = fd /\ conn' = [conn EXCEPT ![fd[c]].rx = Tail(@)]
    BY <1>6 DEF ClientStep, ClientGone, ClientGoneMisread, ProtocolError, Request
  <2>2. \A d \in heap : d # c => fd'[d] = fd[d]
    BY <1>0, <2>1 DEF Closed
  <2>3. \A n \in ClientFds : n # fd[c] => conn'[n] = conn[n]
    BY <1>0, <2>1 DEF Closed
  <2>4. InPass
    BY <2>1 DEF Due, InPass
  <2> QED
    BY <2>1, <2>2, <2>3, <2>4, FreshBehind
<1>7. CASE Reply
  <2>1. /\ it \in heap /\ it' = it /\ UNCHANGED <<files, heap, ready>> /\ InPass
        /\ Closed(it) \/ (fd' = fd /\ WrittenTo(fd[it]))
    BY <1>7 DEF Reply, IteratorInv, InPass, WrittenTo
  <2>2. \A d \in heap : d # it => fd'[d] = fd[d]
    BY <1>0, <2>1 DEF Closed
  <2>3. \A n \in ClientFds : n # fd[it] => conn'[n] = conn[n]
    BY <1>0, <2>1, WrittenStates DEF Closed
  <2> QED
    BY <2>1, <2>2, <2>3, FreshBehind
<1>8. CASE BroadcastTo \/ BroadcastDone
  <2>1. /\ InPass /\ it' = it /\ UNCHANGED <<files, heap, ready, fd>>
        /\ WrittenTo(fd[clients[bnext]])
    BY <1>8 DEF BroadcastTo, BroadcastDone, InPass, WrittenTo
  <2>2. \A n \in ClientFds : /\ conn'[n].rx = conn[n].rx
                             /\ conn'[n].state = "est" => conn[n].state = "est"
    BY <2>1, WrittenStates
  <2> QED
    BY <2>1, <2>2, FreshKept
<1>9. CASE \/ \E d \in {Mainboard, Meas} : SensorReady(d)
           \/ StdinReady \/ ConfigReady
  <2>1. /\ UNCHANGED <<files, heap, ready, fd, conn>>
        /\ \E f \in {Mainboard, Meas, Stdin, Config} : Due(f)
    BY <1>9 DEF SensorReady, StdinReady, ConfigReady
  <2>2. InPass /\ it \in FixedFiles \cup {Begin}
    BY <2>1, FixedDue DEF FixedFiles, Mainboard, Meas, Stdin, Config
  <2> QED
    BY <2>1, <2>2, FreshKept
<1>10. ASSUME NEW n \in ClientFds, Peer(n)
       PROVE  ReadyFresh'
  <2>1. CASE InPass \/ pc = "drain"
    BY <1>10, <2>1, PeerStates, FreshKept
  <2>2. CASE ~(InPass \/ pc = "drain")
    BY <1>10, <2>2, PeerStates DEF ReadyFresh, InPass
  <2> QED
    BY <2>1, <2>2
<1>11. CASE PeerConnect \/ (\E d \in Devices : DeviceInput(d)) \/ UNCHANGED vars
  <2>1. UNCHANGED <<files, heap, fd, conn, ready, it, pc>>
    BY <1>11 DEF PeerConnect, DeviceInput, vars
  <2>2. \A f : Place(f)' = Place(f)
    BY <2>1 DEF Place
  <2> QED
    BY <2>1, <2>2 DEF ReadyFresh, InPass
<1>12. CASE EndPass \/ Leave
  BY <1>1, <1>12 DEF EndPass, Leave
<1> QED
  BY <1>2, <1>3, <1>4, <1>5, <1>6, <1>7, <1>8, <1>9, <1>10, <1>11, <1>12
     DEF Next, Loop, Environment

\* A step that closes an open connection has read a packet it cannot serve.
LEMMA NoFalseDisconnectStep ==
    ASSUME Safe, ReadyFresh, [Next]_vars, NEW n \in ClientFds,
           conn[n].state = "est", conn'[n].state = "free"
    PROVE  conn[n].rx # <<>> /\ Head(conn[n].rx) \in {"bad", "report"}
<1> USE DEF Safe, registry, bcast
<1>0. conn \in [ClientFds -> Conns] /\ fd \in [Objs -> ClientFds \cup {-1}]
      /\ heap \subseteq Objs
  BY DEF TypeInv, TypeOK
<1>1. ASSUME NEW c \in heap, Closed(c)
      PROVE  fd[c] = n
  BY <1>0, <1>1 DEF Closed
\* A client that is dispatched with a descriptor has it in `ready'.
<1>2. ASSUME NEW c \in heap, Due(c), NoBytes(c), Closed(c)
      PROVE  FALSE
  <2>1. fd[c] = n /\ n # -1 /\ c \notin FixedFiles
    BY <1>0, <1>1, <1>2 DEF ClientFds, FixedFiles
  <2>2. Bit(c) = n /\ c \in ToSet(files)
    BY <2>1, Places DEF Bit, FdOf
  <2>3. InPass /\ n \in ready /\ Place(c) > Place(it)
    BY <1>2, <2>2, DueFacts
  <2>4. conn[n].rx # <<>>
    BY <2>1, <2>3 DEF ReadyFresh
  <2> QED
    BY <1>2, <2>1, <2>4 DEF NoBytes
<1>3. ASSUME NEW c \in heap, ClientStep(c)
      PROVE  conn[n].rx # <<>> /\ Head(conn[n].rx) \in {"bad", "report"}
  <2>1. CASE ClientGone(c) \/ ClientGoneMisread(c)
    BY <1>2, <2>1 DEF ClientGone, ClientGoneMisread
  <2>2. CASE ProtocolError(c)
    BY <1>1, <2>2 DEF ProtocolError, NoBytes
  <2>3. CASE Request(c)
    <3>1. conn' = [conn EXCEPT ![fd[c]].rx = Tail(@)]
      BY <2>3 DEF Request
    <3> QED
      BY <1>0, <3>1 DEF Conns
  <2> QED
    BY <1>3, <2>1, <2>2, <2>3 DEF ClientStep
<1>4. CASE Reply
  <2>1. it \in heap
    BY <1>4 DEF Reply, IteratorInv
  <2>2. ~WrittenTo(fd[it])
    BY WrittenStates
  <2>3. Closed(it) /\ WriteFails(fd[it])
    BY <1>4, <2>2 DEF Reply, WrittenTo
  <2> QED
    BY <1>1, <2>1, <2>3 DEF WriteFails
<1>5. ~BroadcastTo
  <2>1. BroadcastTo => WrittenTo(fd[clients[bnext]])
    BY DEF BroadcastTo, WrittenTo
  <2> QED
    BY <2>1, WrittenStates
<1>6. ~DeleteHead
  <2> SUFFICES ASSUME DeleteHead PROVE FALSE
    OBVIOUS
  <2>1. queue \in Seq(Objs) /\ queue # <<>>
    BY DEF DeleteHead, TypeInv, TypeOK
  <2>2. 1 \in DOMAIN queue /\ Head(queue) = queue[1]
    BY <2>1, EmptySeq, LenProperties
  <2>3. fd[Head(queue)] = -1
    BY <2>2 DEF QueueInv, PendingDeletesSafe
  <2> QED
    BY <2>3 DEF DeleteHead
<1>7. \A c \in Objs : ~Accept(c) /\ ~AcceptFails(c)
  <2> SUFFICES ASSUME NEW c \in Objs, Accept(c) \/ AcceptFails(c) PROVE FALSE
    OBVIOUS
  <2>1. conn' = conn \/ \E m \in ClientFds : conn' = [conn EXCEPT ![m] = Opened]
    BY DEF Accept, AcceptFails, FreeFds
  <2> QED
    BY <1>0, <2>1 DEF Opened
<1>8. \A m \in ClientFds : ~Peer(m)
  BY PeerStates
<1>9. conn' # conn
  OBVIOUS
<1> QED
  BY <1>3, <1>4, <1>5, <1>6, <1>7, <1>8, <1>9 DEF Next, Loop, Environment, vars,
     Select, EndPass, Leave, QueueReady, Drained, SensorReady, BroadcastDone,
     StdinReady, ConfigReady, PeerConnect, DeviceInput

\* The whole of the inductive invariant.
THEOREM Invariant == Spec => []Inv
<1>1. Init => IteratorInv /\ ReadyOwned /\ ReadyFresh
  BY DEF Init, IteratorInv, IteratorValid, ReadyOwned, ReadyFresh, InPass
<1>2. Spec => []Safe
  BY <1>1, InitInv, TypeStep, RegistriesStep, IteratorStep,
     QueueStep, OwnersStep, PTL DEF Spec, Safe
<1>3. Spec => [](Safe /\ ReadyOwned /\ ReadyFresh)
  BY <1>1, <1>2, ReadyOwnedStep, ReadyFreshStep, PTL DEF Spec
<1>4. Safe /\ ReadyOwned /\ ReadyFresh => Inv
  BY DEF Safe, Inv
<1> QED
  BY <1>3, <1>4, PTL

\* The server never closes an open connection whose peer has done nothing
\* wrong: select()'s answer cannot become stale within a pass.
THEOREM NoFalseDisconnectCorrect == Spec => NoFalseDisconnect
<1> DEFINE A == \A n \in ClientFds :
                   conn[n].state = "est" /\ conn'[n].state = "free" =>
                      conn[n].rx # <<>> /\ Head(conn[n].rx) \in {"bad", "report"}
<1>1. Inv /\ [Next]_vars => [A]_vars
  BY NoFalseDisconnectStep DEF Inv, Safe
<1> HIDE DEF A
<1>2. Spec => [][A]_vars
  BY <1>1, Invariant, PTL DEF Spec
<1> QED
  BY <1>2 DEF NoFalseDisconnect, A

-----------------------------------------------------------------------------
(* The registry that the loop implements *)

\* Each step of the loop is a step of the abstract registry, or none of it:
\* for any number of clients, a connection has one owner, is given up once,
\* and its object is freed once, after that and because it asked for it.
THEOREM RegistryCorrect == Spec => RegistryImplemented
<1> USE DEF registry, bcast, Registry!registryVars, Registry!None
<1>1. Init => Registry!RegistryInit
  BY DEF Init, Registry!RegistryInit
<1>2. ASSUME Inv, [Next]_vars
      PROVE  [Registry!RegistryNext]_(Registry!registryVars)
  <2>0. /\ fd \in [Objs -> ClientFds \cup {-1}] /\ heap \subseteq Objs
        /\ condemned \subseteq heap /\ queue \in Seq(Objs)
    BY <1>2 DEF Inv, TypeInv, TypeOK
  \* A handler that closes the descriptor of c and posts no delete.
  <2>1. ASSUME NEW c \in heap, Closed(c), UNCHANGED <<heap, condemned>>
        PROVE  [Registry!Cut(c)]_(Registry!registryVars)
    <3>1. CASE fd[c] = -1
      BY <2>0, <2>1, <3>1 DEF Closed
    <3>2. CASE fd[c] # -1
      BY <2>0, <2>1, <3>2 DEF Closed, Registry!Cut
    <3> QED
      BY <3>1, <3>2
  <2>2. ASSUME NEW c \in Objs, Accept(c)
        PROVE  Registry!Join(c)
    <3>1. PICK n \in FreeFds : NewClient(c, n)
      BY <2>2 DEF Accept
    <3>2. n \in ClientFds /\ Registry!Unused(n)
      BY <1>2, <3>1 DEF FreeFds, Inv, FdOwnership, Registry!Unused, ClientFds
    <3> QED
      BY <2>2, <3>1, <3>2 DEF Accept, NewClient, Registry!Join, ClientFds
  <2>3. ASSUME NEW c \in Objs, AcceptFails(c)
        PROVE  Registry!Join(c)
    BY <2>3 DEF AcceptFails, NewClient, Registry!Join
  <2>4. ASSUME NEW c \in heap, ClientGone(c)
        PROVE  Registry!Cut(c) \/ Registry!Ask(c)
    <3>1. CASE fd[c] = -1
      BY <2>0, <2>4, <3>1 DEF ClientGone, Closed, Registry!Ask
    <3>2. CASE fd[c] # -1
      BY <2>0, <2>4, <3>2 DEF ClientGone, Closed, Registry!Cut
    <3> QED
      BY <3>1, <3>2
  <2>5. ASSUME NEW c \in heap, ClientGoneMisread(c) \/ ProtocolError(c)
        PROVE  [Registry!Cut(c)]_(Registry!registryVars)
    BY <2>1, <2>5 DEF ClientGoneMisread, ProtocolError
  <2>6. CASE Reply
    <3>1. it \in heap
      BY <1>2, <2>6 DEF Reply, Inv, IteratorInv
    <3>2. UNCHANGED Registry!registryVars \/ (Closed(it) /\ UNCHANGED <<heap, condemned>>)
      BY <2>6 DEF Reply
    <3>3. [Registry!Cut(it)]_(Registry!registryVars)
      BY <2>1, <3>1, <3>2
    <3> QED
      BY <2>0, <3>1, <3>3 DEF Registry!RegistryNext
  <2>7. CASE DeleteHead
    <3>1. 1 \in DOMAIN queue /\ Head(queue) = queue[1]
      BY <2>0, <2>7, EmptySeq, LenProperties DEF DeleteHead
    <3>2. Head(queue) \in condemned /\ fd[Head(queue)] = -1
      BY <1>2, <3>1 DEF Inv, QueueInv, PendingDeletesSafe
    <3>3. fd' = fd
      BY <2>0, <2>7, <3>2 DEF DeleteHead
    <3>4. Registry!Free(Head(queue))
      BY <2>7, <3>2, <3>3 DEF DeleteHead, Registry!Free
    <3> QED
      BY <2>0, <3>2, <3>4 DEF Registry!RegistryNext
  <2>8. CASE \E c \in heap : Request(c)
    BY <2>8 DEF Request
  <2>9. CASE Select \/ EndPass \/ Leave \/ QueueReady \/ Drained \/ BroadcastTo
             \/ BroadcastDone \/ StdinReady \/ ConfigReady
             \/ \E d \in {Mainboard, Meas} : SensorReady(d)
    BY <2>9 DEF Select, EndPass, Leave, QueueReady, Drained, BroadcastTo,
       BroadcastDone, StdinReady, ConfigReady, SensorReady
  <2>10. CASE Environment \/ UNCHANGED vars
    BY <2>10 DEF Environment, vars, PeerConnect, Peer, PeerSend, PeerRead,
       PeerClose, PeerAbort, PeerReset, Network, DeviceInput
  <2> QED
    BY <1>2, <2>0, <2>2, <2>3, <2>4, <2>5, <2>6, <2>7, <2>8, <2>9, <2>10
       DEF Next, Loop, ClientStep, Registry!RegistryNext
<1> QED
  BY <1>1, <1>2, Invariant, PTL
     DEF Spec, RegistryImplemented, Registry!RegistrySpec

=============================================================================
