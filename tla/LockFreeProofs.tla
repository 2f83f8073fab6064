--------------------------- MODULE LockFreeProofs ---------------------------
(***************************************************************************)
(* What workers share without a lock.  The stack of free lists never reads *)
(* a node that was deleted, loses no value and gives none out twice, for   *)
(* any number of workers, values, addresses and retires between two        *)
(* attempts to delete, although addresses are used again as soon as they   *)
(* are free.  The job deque hands each job out once and from its ends, for *)
(* every size of the array and every number of thieves: it implements      *)
(* JobDeque.  Every block of a block allocator, whose workers trade lists  *)
(* over the stack, is in one place, for any number of workers and any list *)
(* length, and clear() frees nothing that is in use.                       *)
(***************************************************************************)
EXTENDS HazptrStack, FiniteSetTheorems, SequenceTheorems, WellFoundedInduction, TLAPS

-----------------------------------------------------------------------------
(* Who has a node. *)

\* The node a call has to itself: the one it pushes until that is linked, the
\* one it popped until the value is moved out.
Mine(w) ==
    IF call[w].op = "push" /\ call[w].at \in {"load", "announce", "check", "next", "cas"}
      THEN {call[w].p}
    ELSE IF call[w].at = "take" THEN {call[w].h}
    ELSE {}

Own(w) == Mine(w) \cup retired[w].list
Owned == UNION {Own(w) : w \in Worker}

\* What is left is in the stack.
Stacked == DOMAIN node \ Owned

\* The nodes whose value has not been moved out.
Dead == UNION {retired[w].list : w \in Worker}
Live == DOMAIN node \ Dead

(***************************************************************************)
(* The inductive invariant.  Every node is with one worker or in the stack *)
(* (OwnInv); the stack is linked by its lengths, from head to the last     *)
(* node (LinkInv); the node a worker has validated is still announced, and *)
(* whoever has retired it either has that announcement already or has yet  *)
(* to look (HazardInv); what was read of it still stands when head is      *)
(* exchanged (CallInv); and every value is held once or lives in one node  *)
(* (ValueInv).                                                             *)
(***************************************************************************)
OwnInv ==
    /\ \A w \in Worker : Own(w) \subseteq DOMAIN node /\ Mine(w) \cap retired[w].list = {}
    /\ \A u, w \in Worker : u # w => Own(u) \cap Own(w) = {}

LinkInv ==
    /\ IsFiniteSet(Stacked)
    /\ IF head = nullptr THEN Stacked = {}
       ELSE head \in Stacked /\ node[head].length = Cardinality(Stacked)
    /\ \A a \in Stacked :
         /\ node[a].length \in 1..node[head].length
         /\ IF node[a].length = 1 THEN node[a].next = nullptr
            ELSE node[a].next \in Stacked /\ node[node[a].next].length = node[a].length - 1
         /\ a # head => \E b \in Stacked : node[b].next = a
    /\ \A a, b \in Stacked : node[a].length = node[b].length => a = b

Protected(w) == call[w].at \in {"next", "cas", "take"} /\ call[w].h # nullptr

\* u does not delete a, or has seen or will see that w announces it.
Spares(u, w, a) ==
    a \in retired[u].list /\ call[u].at = "eject" => w \in call[u].slots \/ a \in call[u].announced

HazardOK(w) ==
    /\ call[w].at \in {"check", "next", "cas", "take"} => announcements[w] = call[w].h
    /\ Protected(w) =>
         /\ call[w].h \in DOMAIN node
         /\ \A u \in Worker : /\ call[w].h \in Mine(u) => call[u].at = "take"
                              /\ Spares(u, w, call[w].h)

HazardInv == \A w \in Worker : HazardOK(w)

CallOK(w) ==
    /\ call[w].at = "idle" => call[w].op = "pop"
    /\ call[w].at # "eject" => retired[w].work < threshold
    /\ call[w].at \in {"take", "eject"} => call[w].op = "pop"
    /\ call[w].op = "pop" /\ call[w].at \in {"next", "cas", "take"} => call[w].h # nullptr
    /\ call[w].op = "pop" /\ call[w].at = "cas" => node[call[w].h].next = call[w].next
    /\ call[w].op = "push" /\ call[w].at = "cas" =>
         /\ node[call[w].p].next = call[w].h
         /\ node[call[w].p].length =
              IF call[w].h = nullptr THEN 1 ELSE node[call[w].h].length + 1

CallInv == \A w \in Worker : CallOK(w)

ValueInv ==
    /\ \A v \in Value : (\E w \in Worker : v \in held[w]) \/ (\E a \in Live : node[a].t = v)
    /\ \A u, w \in Worker : u # w => held[u] \cap held[w] = {}
    /\ \A a, b \in Live : node[a].t = node[b].t => a = b
    /\ \A w \in Worker, a \in Live : node[a].t \notin held[w]

Inv == TypeOK /\ OwnInv /\ LinkInv /\ HazardInv /\ CallInv /\ ValueInv

-----------------------------------------------------------------------------
(* What every step leaves alone. *)

\* The other workers' calls, and the retired nodes they are answerable for.
Others(w) == \A u \in Worker : u # w => call'[u] = call[u]

LEMMA MineSame ==
  ASSUME NEW u, call'[u] = call[u]
  PROVE  Mine(u)' = Mine(u)
BY DEF Mine

LEMMA OwnersSame ==
  ASSUME retired' = retired, DOMAIN node' = DOMAIN node, \A u \in Worker : Mine(u)' = Mine(u)
  PROVE  /\ \A u \in Worker : Own(u)' = Own(u)
         /\ Stacked' = Stacked /\ Live' = Live
<1>1. \A u \in Worker : Own(u)' = Own(u)
  BY DEF Own
<1>2. Owned' = Owned
  BY <1>1 DEF Owned
<1>3. Dead' = Dead
  BY DEF Dead
<1> QED BY <1>1, <1>2, <1>3 DEF Stacked, Live

\* A step of w that touches neither the nodes nor who has them.
LEMMA QuietStep ==
  ASSUME Inv, NEW w \in Worker, Others(w), UNCHANGED <<head, node, retired, held>>,
         Mine(w)' = Mine(w)
  PROVE  /\ OwnInv' /\ LinkInv' /\ ValueInv'
         /\ \A u \in Worker : Mine(u)' = Mine(u)
<1>1. \A u \in Worker : Mine(u)' = Mine(u)
  BY MineSame DEF Others
<1>2. /\ \A u \in Worker : Own(u)' = Own(u)
      /\ Stacked' = Stacked /\ Live' = Live
  BY <1>1, OwnersSame
<1>3. OwnInv'
  BY <1>1, <1>2 DEF OwnInv, Inv
<1>4. LinkInv'
  BY <1>2 DEF LinkInv, Inv
<1>5. ValueInv'
  BY <1>2 DEF ValueInv, Inv
<1> QED BY <1>1, <1>3, <1>4, <1>5

\* The stack is as it was if its nodes are.
LEMMA LinkSame ==
  ASSUME Inv, head' = head, Stacked' = Stacked, \A a \in Stacked : node'[a] = node[a]
  PROVE  LinkInv'
<1>1. PICK S : S = Stacked /\ S = Stacked'
  OBVIOUS
<1>2. /\ IsFiniteSet(S)
      /\ IF head = nullptr THEN S = {}
         ELSE head \in S /\ node'[head].length = Cardinality(S)
  BY <1>1 DEF LinkInv, Inv
<1>3. S # {} => head \in S
  BY <1>2
<1>4. \A a \in S :
        /\ node'[a].length \in 1..node'[head].length
        /\ IF node'[a].length = 1 THEN node'[a].next = nullptr
           ELSE node'[a].next \in S /\ node'[node'[a].next].length = node'[a].length - 1
        /\ a # head => \E b \in S : node'[b].next = a
  BY <1>1, <1>3 DEF LinkInv, Inv
<1>5. \A a, b \in S : node'[a].length = node'[b].length => a = b
  BY <1>1 DEF LinkInv, Inv
<1> QED BY <1>1, <1>2, <1>4, <1>5 DEF LinkInv

\* A step of w leaves u its node if it neither takes that node nor forgets to
\* spare it.
LEMMA KeepHazard ==
  ASSUME Inv, NEW w \in Worker, Others(w),
         \A u \in Worker : u # w => announcements'[u] = announcements[u]
                                    /\ retired'[u] = retired[u],
         \A a \in DOMAIN node : a \in Mine(w)' /\ call'[w].at # "take" =>
                                  a \in Mine(w) /\ call[w].at # "take",
         \A u \in Worker, a \in DOMAIN node :
           u # w /\ Protected(u) /\ call[u].h = a /\ Spares(w, u, a) =>
             Spares(w, u, a)' /\ a \in DOMAIN node',
         NEW u \in Worker, u # w
  PROVE  HazardOK(u)'
<1>1. call'[u] = call[u] /\ announcements'[u] = announcements[u]
  BY DEF Others
<1>2. call[u].at \in {"check", "next", "cas", "take"} => announcements[u] = call[u].h
  BY DEF Inv, HazardInv, HazardOK
<1>3. ASSUME Protected(u)'
      PROVE  /\ call'[u].h \in DOMAIN node'
             /\ \A x \in Worker : /\ call'[u].h \in Mine(x)' => call'[x].at = "take"
                                  /\ Spares(x, u, call[u].h)'
  <2>1. Protected(u)
    BY <1>1, <1>3 DEF Protected
  <2>2. PICK h : h = call[u].h /\ h = call'[u].h
    BY <1>1
  <2>3. /\ h \in DOMAIN node
        /\ \A x \in Worker : /\ h \in Mine(x) => call[x].at = "take"
                             /\ Spares(x, u, h)
    BY <2>1, <2>2 DEF Inv, HazardInv, HazardOK
  <2>4. \A x \in Worker : x # w => Spares(x, u, h)'
    BY <2>3 DEF Others, Spares
  <2>5. Spares(w, u, h)' /\ h \in DOMAIN node'
    BY <2>1, <2>2, <2>3
  <2>6. \A x \in Worker : h \in Mine(x)' => call'[x].at = "take"
    <3> SUFFICES ASSUME NEW x \in Worker, h \in Mine(x)' PROVE call'[x].at = "take"
      OBVIOUS
    <3>1. CASE x = w
      BY <2>3, <3>1
    <3>2. CASE x # w
      <4>1. call'[x] = call[x] /\ Mine(x)' = Mine(x)
        BY <3>2, MineSame DEF Others
      <4> QED BY <2>3, <4>1
    <3> QED BY <3>1, <3>2
  <2>7. \A x \in Worker : Spares(x, u, call[u].h)'
    BY <2>2, <2>4, <2>5
  <2> QED BY <2>2, <2>5, <2>6, <2>7
<1> QED BY <1>1, <1>2, <1>3 DEF HazardOK

\* Nor what u has read, if it changes neither u's own node nor the one u has
\* announced.
LEMMA KeepCall ==
  ASSUME Inv, NEW w \in Worker, Others(w), NEW u \in Worker, u # w, retired'[u] = retired[u],
         \A a \in DOMAIN node : a \in Mine(u) \/ (Protected(u) /\ a = call[u].h) =>
           node'[a].next = node[a].next /\ node'[a].length = node[a].length
  PROVE  CallOK(u)'
<1>1. call'[u] = call[u] /\ CallOK(u)
  BY DEF Others, Inv, CallInv
<1>2. Protected(u) => call[u].h \in DOMAIN node
  BY DEF Inv, HazardInv, HazardOK
<1>3. Mine(u) \subseteq DOMAIN node
  BY DEF Inv, OwnInv, Own
<1>4. Protected(u) => node'[call[u].h].next = node[call[u].h].next
                      /\ node'[call[u].h].length = node[call[u].h].length
  BY <1>2
<1>5. call[u].op = "push" /\ call[u].at = "cas" =>
        /\ node'[call[u].p].next = node[call[u].p].next
        /\ node'[call[u].p].length = node[call[u].p].length
  BY <1>3 DEF Mine
<1> QED BY <1>1, <1>4, <1>5 DEF CallOK, Protected

LEMMA QuietIsSafe ==
  ASSUME Inv, NEW w \in Worker, Others(w), UNCHANGED <<head, node, retired, held>>,
         Mine(w)' = Mine(w), call'[w] \in Call, call' = [call EXCEPT ![w] = call'[w]],
         announcements' \in [Worker -> Pointer],
         \A u \in Worker : u # w => announcements'[u] = announcements[u],
         call'[w].at = "take" <=> call[w].at = "take",
         \A u \in Worker, a \in Address :
           u # w /\ Protected(u) /\ call[u].h = a /\ Spares(w, u, a) => Spares(w, u, a)',
         CallOK(w)', HazardOK(w)'
  PROVE  Inv'
<1>1. OwnInv' /\ LinkInv' /\ ValueInv' /\ \A u \in Worker : Mine(u)' = Mine(u)
  BY QuietStep
<1>2. TypeOK'
  <2>1. call \in [Worker -> Call]
    BY DEF Inv, TypeOK
  <2>2. call' \in [Worker -> Call]
    BY <2>1
  <2>3. TypeOK
    BY DEF Inv
  <2> QED BY <2>2, <2>3 DEF TypeOK
<1>4. ASSUME NEW u \in Worker, u # w PROVE HazardOK(u)'
  <2>1. \A a \in DOMAIN node : a \in Address
    BY DEF Inv, TypeOK
  <2> QED BY <1>1, <1>4, <2>1, KeepHazard
<1>5. ASSUME NEW u \in Worker, u # w PROVE CallOK(u)'
  BY <1>5, KeepCall
<1>6. HazardInv' /\ CallInv'
  BY <1>4, <1>5 DEF HazardInv, CallInv
<1> QED BY <1>1, <1>2, <1>6 DEF Inv

-----------------------------------------------------------------------------
(* The steps that look and announce. *)

LEMMA StartPopStep ==
  ASSUME Inv, NEW w \in Worker, StartPop(w)
  PROVE  Inv'
<1>0. TypeOK /\ CallOK(w) /\ call[w] \in Call
  BY DEF Inv, CallInv, TypeOK
<1>1. call'[w] = [call[w] EXCEPT !.at = "load"] /\ call' = [call EXCEPT ![w] = call'[w]]
  BY <1>0 DEF StartPop, Goto, TypeOK
<1>2. Others(w) /\ call[w].at = "idle"
  BY <1>0 DEF StartPop, Goto, Others, TypeOK
<1>3. UNCHANGED <<head, node, retired, held, announcements>>
  BY DEF StartPop
<1>4. call'[w] \in Call /\ call'[w].at = "load" /\ call'[w].op = call[w].op
  BY <1>0, <1>1 DEF Call
<1>5. call[w].op = "pop"
  BY <1>0, <1>2 DEF CallOK
<1>6. Mine(w)' = Mine(w)
  BY <1>2, <1>4, <1>5 DEF Mine
<1>7. CallOK(w)' /\ HazardOK(w)'
  BY <1>0, <1>2, <1>3, <1>4, <1>5 DEF CallOK, HazardOK, Protected
<1>8. \A u \in Worker, a \in Address : Spares(w, u, a)'
  BY <1>4 DEF Spares
<1>9. announcements' \in [Worker -> Pointer]
  BY <1>0, <1>3 DEF TypeOK
<1> QED BY <1>1, <1>2, <1>3, <1>4, <1>6, <1>7, <1>8, <1>9, QuietIsSafe

LEMMA LoadStep ==
  ASSUME Inv, NEW w \in Worker, Load(w)
  PROVE  Inv'
<1>0. TypeOK /\ CallOK(w) /\ call[w] \in Call /\ head \in Pointer
  BY DEF Inv, CallInv, TypeOK
<1>1. call'[w] = [call[w] EXCEPT !.at = "announce", !.h = head]
  BY <1>0 DEF Load, TypeOK
<1>2. call' = [call EXCEPT ![w] = call'[w]]
  BY <1>0 DEF Load, TypeOK
<1>3. Others(w) /\ call[w].at = "load" /\ UNCHANGED <<head, node, retired, held, announcements>>
  BY <1>0 DEF Load, Others, TypeOK
<1>4. /\ call'[w] \in Call /\ call'[w].at = "announce" /\ call'[w].op = call[w].op
      /\ call'[w].p = call[w].p
  BY <1>0, <1>1 DEF Call
<1>5. Mine(w)' = Mine(w)
  BY <1>3, <1>4 DEF Mine
<1>6. CallOK(w)' /\ HazardOK(w)'
  BY <1>0, <1>3, <1>4 DEF CallOK, HazardOK, Protected
<1>7. \A u \in Worker, a \in Address : Spares(w, u, a)'
  BY <1>4 DEF Spares
<1>8. announcements' \in [Worker -> Pointer]
  BY <1>0, <1>3 DEF TypeOK
<1> QED BY <1>2, <1>3, <1>4, <1>5, <1>6, <1>7, <1>8, QuietIsSafe

LEMMA AnnounceStep ==
  ASSUME Inv, NEW w \in Worker, Announce(w)
  PROVE  Inv'
<1>0. TypeOK /\ CallOK(w) /\ call[w] \in Call
  BY DEF Inv, CallInv, TypeOK
<1>1. call'[w] = [call[w] EXCEPT !.at = "check"]
  BY <1>0 DEF Announce, Goto, TypeOK
<1>2. call' = [call EXCEPT ![w] = call'[w]]
  BY <1>0 DEF Announce, Goto, TypeOK
<1>3. Others(w) /\ call[w].at = "announce" /\ UNCHANGED <<head, node, retired, held>>
  BY <1>0 DEF Announce, Goto, Others, TypeOK
<1>4. /\ call'[w] \in Call /\ call'[w].at = "check" /\ call'[w].op = call[w].op
      /\ call'[w].p = call[w].p /\ call'[w].h = call[w].h /\ call[w].h \in Pointer
  BY <1>0, <1>1 DEF Call
<1>5. Mine(w)' = Mine(w)
  BY <1>3, <1>4 DEF Mine
<1>6. /\ announcements'[w] = call[w].h
      /\ \A u \in Worker : u # w => announcements'[u] = announcements[u]
      /\ announcements' \in [Worker -> Pointer]
  BY <1>0, <1>4 DEF Announce, TypeOK
<1>7. CallOK(w)' /\ HazardOK(w)'
  BY <1>0, <1>3, <1>4, <1>6 DEF CallOK, HazardOK, Protected
<1>8. \A u \in Worker, a \in Address : Spares(w, u, a)'
  BY <1>4 DEF Spares
<1> QED BY <1>2, <1>3, <1>4, <1>5, <1>6, <1>7, <1>8, QuietIsSafe

\* Idle as a call.
LEMMA IdleCall ==
  /\ Idle \in Call /\ Idle.at = "idle" /\ Idle.op = "pop"
BY DEF Idle, Call, Pointer

\* What w loaded is still the top: it is in the stack, so nobody has it.
LEMMA CheckStep ==
  ASSUME Inv, NEW w \in Worker, CheckAgain(w)
  PROVE  Inv'
<1>0. TypeOK /\ CallOK(w) /\ HazardOK(w) /\ call[w] \in Call
  BY DEF Inv, CallInv, HazardInv, TypeOK
<1>1. call'[w] = IF head # call[w].h THEN [call[w] EXCEPT !.at = "load"]
                 ELSE IF call[w].h = nullptr /\ call[w].op = "pop" THEN Idle
                 ELSE [call[w] EXCEPT !.at = "next"]
  BY <1>0 DEF CheckAgain, TypeOK
<1>2. call' = [call EXCEPT ![w] = call'[w]]
  BY <1>0, <1>1 DEF CheckAgain, TypeOK
<1>3. Others(w) /\ call[w].at = "check" /\ UNCHANGED <<head, node, retired, held, announcements>>
  BY <1>0 DEF CheckAgain, Others, TypeOK
<1>4. announcements' \in [Worker -> Pointer]
  BY <1>0, <1>3 DEF TypeOK
<1>5. CASE head # call[w].h
  <2>1. /\ call'[w] \in Call /\ call'[w].at = "load" /\ call'[w].op = call[w].op
        /\ call'[w].p = call[w].p
    BY <1>0, <1>1, <1>5 DEF Call
  <2>2. Mine(w)' = Mine(w)
    BY <1>3, <2>1 DEF Mine
  <2>3. CallOK(w)' /\ HazardOK(w)'
    BY <1>0, <1>3, <2>1 DEF CallOK, HazardOK, Protected
  <2>4. \A u \in Worker, a \in Address : Spares(w, u, a)'
    BY <2>1 DEF Spares
  <2> QED BY <1>2, <1>3, <1>4, <2>1, <2>2, <2>3, <2>4, QuietIsSafe
<1>6. CASE head = call[w].h /\ call[w].h = nullptr /\ call[w].op = "pop"
  <2>1. call'[w] = Idle /\ call'[w] \in Call /\ call'[w].at = "idle" /\ call'[w].op = "pop"
    BY <1>1, <1>6, IdleCall
  <2>2. Mine(w)' = Mine(w)
    BY <1>3, <1>6, <2>1 DEF Mine
  <2>3. CallOK(w)' /\ HazardOK(w)'
    BY <1>0, <1>3, <2>1 DEF CallOK, HazardOK, Protected
  <2>4. \A u \in Worker, a \in Address : Spares(w, u, a)'
    BY <2>1 DEF Spares
  <2> QED BY <1>2, <1>3, <1>4, <2>1, <2>2, <2>3, <2>4, QuietIsSafe
<1>7. CASE head = call[w].h /\ ~ (call[w].h = nullptr /\ call[w].op = "pop")
  <2>1. /\ call'[w] \in Call /\ call'[w].at = "next" /\ call'[w].op = call[w].op
        /\ call'[w].p = call[w].p /\ call'[w].h = call[w].h
    BY <1>0, <1>1, <1>7 DEF Call
  <2>2. Mine(w)' = Mine(w)
    BY <1>3, <2>1 DEF Mine
  <2>3. CallOK(w)'
    BY <1>0, <1>3, <1>7, <2>1 DEF CallOK, Call
  <2>4. \A u \in Worker, a \in Address : Spares(w, u, a)'
    BY <2>1 DEF Spares
  <2>5. HazardOK(w)'
    <3>1. announcements'[w] = call'[w].h
      BY <1>0, <1>3, <2>1 DEF HazardOK
    <3>2. ASSUME call[w].h # nullptr
          PROVE  /\ call'[w].h \in DOMAIN node'
                 /\ \A u \in Worker : /\ call'[w].h \in Mine(u)' => call'[u].at = "take"
                                      /\ Spares(u, w, call[w].h)'
      <4>1. PICK h : h = call[w].h /\ h = call'[w].h
        BY <2>1
      <4>2. h \in Stacked
        BY <1>7, <3>2, <4>1 DEF Inv, LinkInv
      <4>3. h \in DOMAIN node /\ \A u \in Worker : h \notin Own(u)
        BY <4>2 DEF Stacked, Owned
      <4>4. \A u \in Worker : Mine(u)' = Mine(u)
        BY <1>3, <2>2, QuietStep
      <4>5. \A u \in Worker : h \notin Mine(u)' /\ h \notin retired'[u].list
        BY <1>3, <4>3, <4>4 DEF Own
      <4>6. \A u \in Worker : Spares(u, w, call[w].h)'
        BY <4>1, <4>5 DEF Spares
      <4> QED BY <1>3, <4>1, <4>3, <4>5, <4>6
    <3> QED BY <2>1, <3>1, <3>2 DEF HazardOK, Protected
  <2> QED BY <1>2, <1>3, <1>4, <2>1, <2>2, <2>3, <2>4, <2>5, QuietIsSafe
<1> QED BY <1>5, <1>6, <1>7

-----------------------------------------------------------------------------
(* Reading the node after h. *)

LEMMA ReadPopStep ==
  ASSUME Inv, NEW w \in Worker, ReadNode(w), call[w].op = "pop"
  PROVE  Inv'
<1>0. TypeOK /\ CallOK(w) /\ HazardOK(w) /\ call[w] \in Call
  BY DEF Inv, CallInv, HazardInv, TypeOK
<1>1. /\ call[w].at = "next"
      /\ call' = [call EXCEPT ![w].at = "cas", ![w].next = node[call[w].h].next]
      /\ UNCHANGED <<head, node, announcements, retired, held>>
  BY DEF ReadNode
<1>2. /\ call'[w] = [call[w] EXCEPT !.at = "cas", !.next = node[call[w].h].next]
      /\ call' = [call EXCEPT ![w] = call'[w]]
      /\ Others(w)
  BY <1>0, <1>1 DEF TypeOK, Others
<1>3. call[w].h # nullptr /\ Protected(w) /\ call[w].h \in DOMAIN node
  BY <1>0, <1>1 DEF CallOK, HazardOK, Protected
<1>4. node[call[w].h] \in Node
  BY <1>0, <1>3 DEF TypeOK
<1>5. PICK n : n = node[call[w].h].next /\ n \in Pointer
  BY <1>4 DEF Node
<1>6. /\ call'[w] \in Call /\ call'[w].at = "cas" /\ call'[w].op = "pop"
      /\ call'[w].p = call[w].p /\ call'[w].h = call[w].h /\ call'[w].next = n
  BY <1>0, <1>2, <1>5 DEF Call
<1>7. Mine(w)' = Mine(w)
  BY <1>1, <1>6 DEF Mine
<1>8. CallOK(w)'
  BY <1>0, <1>1, <1>3, <1>5, <1>6 DEF CallOK
<1>9. \A u \in Worker, a \in Address : Spares(w, u, a)'
  BY <1>6 DEF Spares
<1>10. announcements' \in [Worker -> Pointer]
  BY <1>0, <1>1 DEF TypeOK
<1>11. HazardOK(w)'
  <2>1. PICK h : h = call[w].h /\ h = call'[w].h
    BY <1>6
  <2>2. \A u \in Worker : /\ h \in Mine(u) => call[u].at = "take"
                          /\ Spares(u, w, h)
    BY <1>0, <1>3, <2>1 DEF HazardOK
  <2>3. \A u \in Worker : Mine(u)' = Mine(u)
    BY <1>1, <1>2, <1>7, QuietStep
  <2>4. \A u \in Worker : Spares(u, w, h)'
    BY <1>1, <1>2, <1>6, <2>2 DEF Spares, Others
  <2>5. \A u \in Worker : h \in Mine(u)' => call'[u].at = "take"
    BY <1>1, <1>2, <2>2, <2>3 DEF Others, Mine
  <2>6. \A u \in Worker : Spares(u, w, call[w].h)'
    BY <2>1, <2>4
  <2> QED BY <1>0, <1>1, <1>3, <1>6, <2>1, <2>5, <2>6 DEF HazardOK
<1> QED BY <1>1, <1>2, <1>6, <1>7, <1>8, <1>9, <1>10, <1>11, QuietIsSafe

\* The new node is linked before h: nobody else knows of it.
LEMMA ReadPushStep ==
  ASSUME Inv, NEW w \in Worker, ReadNode(w), call[w].op = "push"
  PROVE  Inv'
<1>0. TypeOK /\ CallOK(w) /\ HazardOK(w) /\ call[w] \in Call
  BY DEF Inv, CallInv, HazardInv, TypeOK
<1>1. PICK p, h : p = call[w].p /\ h = call[w].h
  OBVIOUS
<1>2. /\ call[w].at = "next"
      /\ node' = [node EXCEPT ![p] = [@ EXCEPT !.next = h,
                                  !.length = IF h = nullptr THEN 1 ELSE node[h].length + 1]]
      /\ call' = [call EXCEPT ![w].at = "cas"]
      /\ UNCHANGED <<head, announcements, retired, held>>
  BY <1>1 DEF ReadNode, Goto
<1>3. /\ call'[w] = [call[w] EXCEPT !.at = "cas"]
      /\ call' = [call EXCEPT ![w] = call'[w]]
      /\ Others(w)
  BY <1>0, <1>2 DEF TypeOK, Others
<1>4. /\ call'[w] \in Call /\ call'[w].at = "cas" /\ call'[w].op = "push"
      /\ call'[w].p = p /\ call'[w].h = h /\ h \in Pointer
  BY <1>0, <1>1, <1>3 DEF Call
<1>5. Mine(w) = {p} /\ Mine(w)' = {p}
  BY <1>1, <1>2, <1>4 DEF Mine
<1>6. p \in DOMAIN node /\ node[p] \in Node /\ p \notin retired[w].list
  BY <1>0, <1>5 DEF Inv, OwnInv, Own, TypeOK
<1>7. h # nullptr => Protected(w) /\ h \in DOMAIN node /\ node[h] \in Node
  BY <1>0, <1>1, <1>2 DEF HazardOK, Protected, TypeOK
<1>8. PICK l : l = (IF h = nullptr THEN 1 ELSE node[h].length + 1) /\ l \in Nat
  BY <1>7 DEF Node
<1>9. /\ DOMAIN node' = DOMAIN node
      /\ node'[p] = [node[p] EXCEPT !.next = h, !.length = l]
      /\ \A a \in DOMAIN node : a # p => node'[a] = node[a]
  BY <1>2, <1>6, <1>8
<1>10. /\ node'[p] \in Node /\ node'[p].t = node[p].t /\ node'[p].next = h
       /\ node'[p].length = l
  BY <1>4, <1>6, <1>8, <1>9 DEF Node
<1>11. \A u \in Worker : Mine(u)' = Mine(u)
  BY <1>3, <1>5, MineSame DEF Others
<1>12. /\ \A u \in Worker : Own(u)' = Own(u)
       /\ Stacked' = Stacked /\ Live' = Live
  BY <1>2, <1>9, <1>11, OwnersSame
<1>13. p \notin Stacked
  BY <1>5 DEF Stacked, Owned, Own
<1>14. Stacked \subseteq DOMAIN node /\ Live \subseteq DOMAIN node
  BY DEF Stacked, Live
<1>15. OwnInv'
  BY <1>2, <1>9, <1>11, <1>12 DEF OwnInv, Inv
<1>16. \A a \in Stacked : node'[a] = node[a]
  BY <1>9, <1>13, <1>14
<1>17. LinkInv'
  BY <1>2, <1>12, <1>16, LinkSame
<1>18. \A a \in DOMAIN node : node'[a].t = node[a].t
  BY <1>9, <1>10
<1>19. ValueInv'
  BY <1>2, <1>12, <1>14, <1>18 DEF ValueInv, Inv
<1>20. TypeOK'
  <2>1. call' \in [Worker -> Call]
    BY <1>0, <1>3, <1>4 DEF TypeOK
  <2>2. \A a \in DOMAIN node' : node'[a] \in Node
    BY <1>0, <1>9, <1>10 DEF TypeOK
  <2> QED BY <1>0, <1>2, <1>9, <2>1, <2>2 DEF TypeOK
<1>21. ASSUME NEW u \in Worker, u # w PROVE HazardOK(u)'
  <2>1. \A x \in Worker, a \in DOMAIN node : Spares(w, x, a)'
    BY <1>4 DEF Spares
  <2> QED BY <1>2, <1>3, <1>4, <1>5, <1>9, <1>21, <2>1, KeepHazard
<1>22. ASSUME NEW u \in Worker, u # w PROVE CallOK(u)'
  <2>1. p \notin Mine(u)
    BY <1>5, <1>22 DEF Inv, OwnInv, Own
  <2>2. Protected(u) => call[u].h # p
    BY <1>2, <1>5 DEF Inv, HazardInv, HazardOK
  <2> QED BY <1>2, <1>3, <1>9, <1>22, <2>1, <2>2, KeepCall
<1>23. CallOK(w)'
  <2>1. h # nullptr => h # p
    BY <1>2, <1>5, <1>7, <1>1, <1>0 DEF HazardOK
  <2>2. l = IF h = nullptr THEN 1 ELSE node'[h].length + 1
    BY <1>7, <1>8, <1>9, <2>1
  <2> QED BY <1>0, <1>2, <1>4, <1>10, <2>2 DEF CallOK
<1>24. HazardOK(w)'
  <2>1. PICK g : g = call[w].h /\ g = call'[w].h /\ g = h
    BY <1>1, <1>4
  <2>2. announcements'[w] = g
    BY <1>0, <1>2, <2>1 DEF HazardOK
  <2>3. ASSUME g # nullptr
        PROVE  /\ g \in DOMAIN node'
               /\ \A u \in Worker : /\ g \in Mine(u)' => call'[u].at = "take"
                                    /\ Spares(u, w, g)'
    <3>1. g \in DOMAIN node /\ \A u \in Worker : /\ g \in Mine(u) => call[u].at = "take"
                                                 /\ Spares(u, w, g)
      BY <1>0, <1>7, <2>1, <2>3 DEF HazardOK
    <3>2. \A u \in Worker : Spares(u, w, g)'
      BY <1>2, <1>3, <1>4, <3>1 DEF Spares, Others
    <3>3. \A u \in Worker : g \in Mine(u)' => call'[u].at = "take"
      BY <1>2, <1>3, <1>11, <3>1 DEF Others
    <3> QED BY <1>9, <3>1, <3>2, <3>3
  <2>4. call'[w].h # nullptr => \A u \in Worker : Spares(u, w, call[w].h)'
    BY <2>1, <2>3
  <2> QED BY <2>1, <2>2, <2>3, <2>4 DEF HazardOK, Protected
<1>25. HazardInv' /\ CallInv'
  BY <1>21, <1>22, <1>23, <1>24 DEF HazardInv, CallInv
<1> QED BY <1>15, <1>17, <1>19, <1>20, <1>25 DEF Inv

-----------------------------------------------------------------------------
(* Exchanging head. *)

LEMMA ExchangeFails ==
  ASSUME Inv, NEW w \in Worker, CompareExchange(w), head # call[w].h
  PROVE  Inv'
<1>0. TypeOK /\ CallOK(w) /\ call[w] \in Call
  BY DEF Inv, CallInv, TypeOK
<1>1. /\ call'[w] = [call[w] EXCEPT !.at = "load"]
      /\ call' = [call EXCEPT ![w] = call'[w]]
      /\ Others(w) /\ call[w].at = "cas"
      /\ UNCHANGED <<head, node, announcements, retired, held>>
  BY <1>0 DEF CompareExchange, Goto, TypeOK, Others
<1>2. /\ call'[w] \in Call /\ call'[w].at = "load" /\ call'[w].op = call[w].op
      /\ call'[w].p = call[w].p
  BY <1>0, <1>1 DEF Call
<1>3. Mine(w)' = Mine(w)
  BY <1>1, <1>2 DEF Mine
<1>4. CallOK(w)' /\ HazardOK(w)'
  BY <1>0, <1>1, <1>2 DEF CallOK, HazardOK, Protected
<1>5. \A u \in Worker, a \in Address : Spares(w, u, a)'
  BY <1>2 DEF Spares
<1>6. announcements' \in [Worker -> Pointer]
  BY <1>0, <1>1 DEF TypeOK
<1> QED BY <1>1, <1>2, <1>3, <1>4, <1>5, <1>6, QuietIsSafe

LEMMA PushExchange ==
  ASSUME HazptrAssumption, Inv, NEW w \in Worker, CompareExchange(w),
         head = call[w].h, call[w].op = "push"
  PROVE  Inv'
<1>0. TypeOK /\ CallOK(w) /\ HazardOK(w) /\ call[w] \in Call
  BY DEF Inv, CallInv, HazardInv, TypeOK
<1>1. PICK p : p = call[w].p
  OBVIOUS
<1>2. /\ call[w].at = "cas" /\ head' = p
      /\ call' = [call EXCEPT ![w].at = "release"]
      /\ UNCHANGED <<node, announcements, retired, held>>
  BY <1>1 DEF CompareExchange, Goto
<1>3. /\ call'[w] = [call[w] EXCEPT !.at = "release"]
      /\ call' = [call EXCEPT ![w] = call'[w]]
      /\ Others(w)
  BY <1>0, <1>2 DEF TypeOK, Others
<1>4. call'[w] \in Call /\ call'[w].at = "release"
  BY <1>0, <1>3 DEF Call
<1>5. Mine(w) = {p} /\ Mine(w)' = {}
  BY <1>1, <1>2, <1>4 DEF Mine
<1>6. p \in DOMAIN node /\ p \in Address /\ p # nullptr
  BY <1>0, <1>5 DEF HazptrAssumption, Inv, OwnInv, Own, TypeOK
<1>7. \A u \in Worker : u # w => Mine(u)' = Mine(u) /\ Own(u)' = Own(u)
  BY <1>2, <1>3, MineSame DEF Others, Own
<1>8. Own(w)' = retired[w].list /\ Own(w) = Own(w)' \cup {p} /\ p \notin Own(w)'
  BY <1>2, <1>5 DEF Own, Inv, OwnInv
<1>9. OwnInv'
  BY <1>2, <1>5, <1>7, <1>8 DEF OwnInv, Inv
<1>10. \A a : a \in Owned <=> a = p \/ a \in Owned'
  BY <1>7, <1>8 DEF Owned
<1>11. p \notin Owned'
  BY <1>7, <1>8 DEF Owned, Inv, OwnInv
<1>12. Stacked' = Stacked \cup {p} /\ p \notin Stacked
  BY <1>2, <1>6, <1>10, <1>11 DEF Stacked
<1>13. Live' = Live
  BY <1>2 DEF Live, Dead
<1>14. ValueInv'
  BY <1>2, <1>13 DEF ValueInv, Inv
<1>15. LinkInv'
  <2>1. PICK S, S1 : S = Stacked /\ S1 = Stacked' /\ S1 = S \cup {p} /\ p \notin S
    BY <1>12
  <2>2. /\ IsFiniteSet(S)
        /\ IF head = nullptr THEN S = {}
           ELSE head \in S /\ node[head].length = Cardinality(S)
    BY <2>1 DEF LinkInv, Inv
  <2>3. Cardinality(S) \in Nat /\ IsFiniteSet(S1) /\ Cardinality(S1) = Cardinality(S) + 1
    BY <2>1, <2>2, FS_AddElement, FS_CardinalityType
  <2>4. head = nullptr => Cardinality(S) = 0
    BY <2>2, FS_EmptySet
  <2>5. node[p].next = head
    BY <1>0, <1>1, <1>2 DEF CallOK
  <2>6. node[p].length = Cardinality(S) + 1
    BY <1>0, <1>1, <1>2, <2>2, <2>4 DEF CallOK
  <2>7. \A a \in S :
          /\ node[a].length \in 1..Cardinality(S)
          /\ IF node[a].length = 1 THEN node[a].next = nullptr
             ELSE node[a].next \in S /\ node[node[a].next].length = node[a].length - 1
          /\ a # head => \E b \in S : node[b].next = a
    BY <2>1, <2>2 DEF LinkInv, Inv
  <2>8. \A a, b \in S : node[a].length = node[b].length => a = b
    BY <2>1 DEF LinkInv, Inv
  <2>9. \A a \in S1 : node[a].length \in 1..node[p].length
    BY <2>1, <2>3, <2>6, <2>7
  <2>10. IF node[p].length = 1 THEN node[p].next = nullptr
         ELSE node[p].next \in S1 /\ node[node[p].next].length = node[p].length - 1
    <3>1. CASE head = nullptr
      BY <2>4, <2>5, <2>6, <3>1
    <3>2. CASE head # nullptr
      <4>1. head \in S /\ node[head].length = Cardinality(S) /\ Cardinality(S) # 0
        BY <2>2, <2>3, <2>7, <3>2
      <4> QED BY <2>1, <2>3, <2>5, <2>6, <4>1
    <3> QED BY <3>1, <3>2
  <2>11. \A a \in S1 :
           IF node[a].length = 1 THEN node[a].next = nullptr
           ELSE node[a].next \in S1 /\ node[node[a].next].length = node[a].length - 1
    BY <2>1, <2>7, <2>10
  <2>12. \A a \in S1 : a # p => \E b \in S1 : node[b].next = a
    BY <2>1, <2>5, <2>7
  <2>13. \A a, b \in S1 : node[a].length = node[b].length => a = b
    <3> SUFFICES ASSUME NEW a \in S1, NEW b \in S1, node[a].length = node[b].length, a # b
                 PROVE  FALSE
      OBVIOUS
    <3>1. ~ (a \in S /\ b \in S)
      BY <2>8
    <3>2. \A c \in S : node[c].length # node[p].length
      BY <2>3, <2>6, <2>7
    <3> QED BY <2>1, <3>1, <3>2
  <2>14. p # nullptr /\ p \in S1 /\ node[p].length = Cardinality(S1)
    BY <1>6, <2>1, <2>3, <2>6
  <2> QED BY <1>2, <2>1, <2>3, <2>9, <2>11, <2>12, <2>13, <2>14 DEF LinkInv
<1>16. TypeOK'
  <2>1. call' \in [Worker -> Call] /\ head' \in Pointer
    BY <1>0, <1>2, <1>3, <1>4, <1>6 DEF TypeOK, Pointer
  <2> QED BY <1>0, <1>2, <2>1 DEF TypeOK
<1>17. ASSUME NEW u \in Worker, u # w PROVE HazardOK(u)'
  <2>1. \A x \in Worker, a \in DOMAIN node : Spares(w, x, a)'
    BY <1>4 DEF Spares
  <2> QED BY <1>2, <1>3, <1>4, <1>5, <1>17, <2>1, KeepHazard
<1>18. ASSUME NEW u \in Worker, u # w PROVE CallOK(u)'
  BY <1>2, <1>3, <1>18, KeepCall
<1>19. CallOK(w)' /\ HazardOK(w)'
  BY <1>0, <1>2, <1>4 DEF CallOK, HazardOK, Protected
<1>20. HazardInv' /\ CallInv'
  BY <1>17, <1>18, <1>19 DEF HazardInv, CallInv
<1> QED BY <1>9, <1>14, <1>15, <1>16, <1>20 DEF Inv

\* The top node goes to w, which has announced it.
LEMMA PopExchange ==
  ASSUME HazptrAssumption, Inv, NEW w \in Worker, CompareExchange(w),
         head = call[w].h, call[w].op = "pop"
  PROVE  Inv'
<1>0. TypeOK /\ CallOK(w) /\ HazardOK(w) /\ call[w] \in Call
  BY DEF Inv, CallInv, HazardInv, TypeOK
<1>1. PICK h, n : h = call[w].h /\ n = call[w].next /\ h = head /\ n \in Pointer
  BY <1>0 DEF Call
<1>2. /\ call[w].at = "cas" /\ head' = n
      /\ call' = [call EXCEPT ![w].at = "take"]
      /\ UNCHANGED <<node, announcements, retired, held>>
  BY <1>1 DEF CompareExchange, Goto
<1>3. /\ call'[w] = [call[w] EXCEPT !.at = "take"]
      /\ call' = [call EXCEPT ![w] = call'[w]]
      /\ Others(w)
  BY <1>0, <1>2 DEF TypeOK, Others
<1>4. call'[w] \in Call /\ call'[w].at = "take" /\ call'[w].op = "pop" /\ call'[w].h = h
  BY <1>0, <1>1, <1>3 DEF Call
<1>5. Mine(w) = {} /\ Mine(w)' = {h}
  BY <1>2, <1>4 DEF Mine
<1>6. h # nullptr /\ h \in Stacked /\ Protected(w) /\ node[h].next = n
  BY <1>0, <1>1, <1>2 DEF CallOK, Protected, Inv, LinkInv
<1>7. h \in DOMAIN node /\ \A u \in Worker : h \notin Own(u)
  BY <1>6 DEF Stacked, Owned
<1>8. \A u \in Worker : u # w => Mine(u)' = Mine(u) /\ Own(u)' = Own(u)
  BY <1>2, <1>3, MineSame DEF Others, Own
<1>9. Own(w)' = Own(w) \cup {h} /\ Own(w) = retired[w].list
  BY <1>2, <1>5 DEF Own
<1>10. OwnInv'
  BY <1>2, <1>5, <1>7, <1>8, <1>9 DEF OwnInv, Inv
<1>11. \A a : a \in Owned' <=> a = h \/ a \in Owned
  BY <1>8, <1>9 DEF Owned
<1>12. Stacked' = Stacked \ {h}
  BY <1>2, <1>11 DEF Stacked
<1>13. Live' = Live
  BY <1>2 DEF Live, Dead
<1>14. ValueInv'
  BY <1>2, <1>13 DEF ValueInv, Inv
<1>15. LinkInv'
  <2>1. PICK S, S1 : S = Stacked /\ S1 = Stacked' /\ S1 = S \ {h} /\ h \in S
    BY <1>6, <1>12
  <2>2. IsFiniteSet(S) /\ node[h].length = Cardinality(S)
    BY <1>1, <1>6, <2>1 DEF LinkInv, Inv
  <2>3. Cardinality(S) \in Nat /\ IsFiniteSet(S1) /\ Cardinality(S1) = Cardinality(S) - 1
    BY <2>1, <2>2, FS_RemoveElement, FS_CardinalityType
  <2>4. \A a \in S :
          /\ node[a].length \in 1..Cardinality(S)
          /\ IF node[a].length = 1 THEN node[a].next = nullptr
             ELSE node[a].next \in S /\ node[node[a].next].length = node[a].length - 1
          /\ a # h => \E b \in S : node[b].next = a
    BY <1>1, <2>1, <2>2 DEF LinkInv, Inv
  <2>5. \A a, b \in S : node[a].length = node[b].length => a = b
    BY <2>1 DEF LinkInv, Inv
  <2>6. \A a \in S1 : node[a].length \in 1..(Cardinality(S) - 1)
    BY <2>1, <2>2, <2>3, <2>4, <2>5
  <2>7. n = nullptr => S1 = {}
    <3>1. n = nullptr => node[h].length = 1
      <4>1. nullptr \notin S
        BY <1>0, <2>1 DEF HazptrAssumption, Stacked, TypeOK
      <4> QED BY <1>6, <2>1, <2>4, <4>1
    <3> QED BY <2>2, <2>3, <2>6, <3>1
  <2>8. n # nullptr => n \in S1 /\ node[n].length = Cardinality(S1)
    <3>1. n # nullptr => n \in S /\ node[n].length = node[h].length - 1
      BY <1>6, <2>1, <2>4
    <3>2. n # nullptr => n # h
      BY <2>2, <2>3, <3>1
    <3> QED BY <2>1, <2>2, <2>3, <3>1, <3>2
  <2>9. S1 # {} => n # nullptr
    BY <2>7
  <2>10. \A a \in S1 : node[a].length \in 1..node[n].length
    BY <2>3, <2>6, <2>8, <2>9
  <2>11. \A a \in S1 :
           IF node[a].length = 1 THEN node[a].next = nullptr
           ELSE node[a].next \in S1 /\ node[node[a].next].length = node[a].length - 1
    <3> SUFFICES ASSUME NEW a \in S1, node[a].length # 1
                 PROVE  node[a].next \in S1 /\ node[node[a].next].length = node[a].length - 1
      BY <2>1, <2>4
    <3>1. node[a].next \in S /\ node[node[a].next].length = node[a].length - 1
      BY <2>1, <2>4
    <3>2. node[a].next # h
      BY <2>2, <2>3, <2>6, <3>1
    <3> QED BY <2>1, <3>1, <3>2
  <2>12. \A a \in S1 : a # n => \E b \in S1 : node[b].next = a
    BY <1>6, <2>1, <2>4
  <2>13. \A a, b \in S1 : node[a].length = node[b].length => a = b
    BY <2>1, <2>5
  <2> QED BY <1>2, <2>1, <2>3, <2>7, <2>8, <2>10, <2>11, <2>12, <2>13 DEF LinkInv
<1>16. TypeOK'
  <2>1. call' \in [Worker -> Call] /\ head' \in Pointer
    BY <1>0, <1>1, <1>2, <1>3, <1>4 DEF TypeOK
  <2> QED BY <1>0, <1>2, <2>1 DEF TypeOK
<1>17. ASSUME NEW u \in Worker, u # w PROVE HazardOK(u)'
  <2>1. \A x \in Worker, a \in DOMAIN node : Spares(w, x, a)'
    BY <1>4 DEF Spares
  <2> QED BY <1>2, <1>3, <1>4, <1>17, <2>1, KeepHazard
<1>18. ASSUME NEW u \in Worker, u # w PROVE CallOK(u)'
  BY <1>2, <1>3, <1>18, KeepCall
<1>19. CallOK(w)'
  BY <1>0, <1>2, <1>4, <1>6 DEF CallOK
<1>20. HazardOK(w)'
  <2>1. announcements'[w] = h
    BY <1>0, <1>1, <1>2 DEF HazardOK
  <2>2. \A u \in Worker : h \in Mine(u)' => call'[u].at = "take"
    BY <1>4, <1>7, <1>8 DEF Own
  <2>3. \A u \in Worker : Spares(u, w, h)'
    BY <1>2, <1>7 DEF Spares, Own
  <2>4. \A u \in Worker : Spares(u, w, call[w].h)'
    BY <1>4, <2>3
  <2> QED BY <1>2, <1>4, <1>7, <2>1, <2>2, <2>4 DEF HazardOK
<1>21. HazardInv' /\ CallInv'
  BY <1>17, <1>18, <1>19, <1>20 DEF HazardInv, CallInv
<1> QED BY <1>10, <1>14, <1>15, <1>16, <1>21 DEF Inv

-----------------------------------------------------------------------------
(* Retiring and deleting. *)

\* The value goes to w and the node is retired: from now on it is w's to delete.
LEMMA TakeStep ==
  ASSUME HazptrAssumption, Inv, NEW w \in Worker, TakeValue(w)
  PROVE  Inv'
<1>0. TypeOK /\ CallOK(w) /\ HazardOK(w) /\ call[w] \in Call
  BY DEF Inv, CallInv, HazardInv, TypeOK
<1>1. PICK h : h = call[w].h
  OBVIOUS
<1>2. call[w].at = "take" /\ call[w].op = "pop" /\ retired[w].work < threshold
  BY <1>0 DEF TakeValue, CallOK
<1>3. Mine(w) = {h}
  BY <1>1, <1>2 DEF Mine
<1>4. h \in DOMAIN node /\ h \in Address /\ node[h] \in Node /\ h \notin retired[w].list
  BY <1>0, <1>3 DEF Inv, OwnInv, Own, TypeOK
<1>5. PICK v : v = node[h].t /\ v \in Value
  BY <1>4 DEF Node
<1>6. /\ held' = [held EXCEPT ![w] = @ \cup {v}]
      /\ retired' = [retired EXCEPT ![w] = [list |-> @.list \cup {h}, work |-> @.work + 1]]
      /\ UNCHANGED <<head, node, announcements>>
  BY <1>1, <1>5 DEF TakeValue
<1>7. /\ retired'[w].list = retired[w].list \cup {h}
      /\ retired'[w].work = retired[w].work + 1
      /\ retired[w].list \in SUBSET Address /\ retired[w].work \in 0..threshold
      /\ \A u \in Worker : u # w => retired'[u] = retired[u]
  BY <1>0, <1>6 DEF TypeOK
<1>8. PICK at : at = IF retired'[w].work >= threshold THEN "eject" ELSE "release"
  OBVIOUS
<1>9. /\ call' = [call EXCEPT ![w].at = at, ![w].slots = Worker]
  BY <1>8 DEF TakeValue, SlotsToScan
<1>10. /\ call'[w] = [call[w] EXCEPT !.at = at, !.slots = Worker]
       /\ call' = [call EXCEPT ![w] = call'[w]]
       /\ Others(w)
  BY <1>0, <1>9 DEF TypeOK, Others
<1>11. /\ call'[w] \in Call /\ call'[w].at = at /\ call'[w].slots = Worker
       /\ call'[w].op = "pop" /\ at \in {"eject", "release"}
  BY <1>0, <1>2, <1>8, <1>10 DEF Call
<1>12. Mine(w)' = {}
  BY <1>11 DEF Mine
<1>13. \A u \in Worker : u # w => Mine(u)' = Mine(u) /\ Own(u)' = Own(u)
  BY <1>7, <1>10, MineSame DEF Others, Own
<1>14. Own(w)' = Own(w)
  BY <1>3, <1>7, <1>12 DEF Own
<1>15. OwnInv'
  BY <1>6, <1>7, <1>12, <1>13, <1>14 DEF OwnInv, Inv
<1>16. Stacked' = Stacked
  <2>1. Owned' = Owned
    BY <1>13, <1>14 DEF Owned
  <2> QED BY <1>6, <2>1 DEF Stacked
<1>17. LinkInv'
  BY <1>6, <1>16, LinkSame
<1>18. \A u \in Worker : h \notin retired[u].list
  BY <1>3, <1>4 DEF Inv, OwnInv, Own
<1>19. h \in Live /\ Live' = Live \ {h} /\ Live \subseteq DOMAIN node
  <2>1. \A a : a \in Dead' <=> a \in Dead \/ a = h
    BY <1>7 DEF Dead
  <2>2. h \notin Dead
    BY <1>18 DEF Dead
  <2> QED BY <1>4, <1>6, <2>1, <2>2 DEF Live
<1>20. /\ held'[w] = held[w] \cup {v} /\ held[w] \in SUBSET Value
       /\ \A u \in Worker : u # w => held'[u] = held[u]
  BY <1>0, <1>6 DEF TypeOK
<1>21. ValueInv'
  <2>1. \A x \in Value : (\E u \in Worker : x \in held[u]) \/ (\E a \in Live : node[a].t = x)
    BY DEF Inv, ValueInv
  <2>2. \A x \in Value : (\E u \in Worker : x \in held'[u]) \/ (\E a \in Live' : node'[a].t = x)
    BY <1>5, <1>6, <1>19, <1>20, <2>1
  <2>3. \A u \in Worker : v \notin held[u]
    BY <1>5, <1>19 DEF Inv, ValueInv
  <2>4. \A x, u \in Worker : x # u => held'[x] \cap held'[u] = {}
    BY <1>20, <2>3 DEF Inv, ValueInv
  <2>5. \A a \in Live' : node[a].t # v
    BY <1>5, <1>19 DEF Inv, ValueInv
  <2>6. \A u \in Worker, a \in Live' : node[a].t \notin held'[u]
    BY <1>19, <1>20, <2>5 DEF Inv, ValueInv
  <2>7. \A a, b \in Live' : node[a].t = node[b].t => a = b
    BY <1>19 DEF Inv, ValueInv
  <2> QED BY <1>6, <2>2, <2>4, <2>6, <2>7 DEF ValueInv
<1>22. TypeOK'
  <2>1. call' \in [Worker -> Call]
    BY <1>0, <1>10, <1>11 DEF TypeOK
  <2>2. held' \in [Worker -> SUBSET Value]
    BY <1>0, <1>5, <1>6 DEF TypeOK
  <2>3. retired[w].work + 1 \in 0..threshold
    BY <1>2, <1>7 DEF HazptrAssumption
  <2>4. retired' \in [Worker -> [list : SUBSET Address, work : 0..threshold]]
    <3>1. [list |-> retired[w].list \cup {h}, work |-> retired[w].work + 1]
             \in [list : SUBSET Address, work : 0..threshold]
      BY <1>4, <1>7, <2>3
    <3> QED BY <1>0, <1>6, <3>1 DEF TypeOK
  <2> QED BY <1>0, <1>6, <2>1, <2>2, <2>4 DEF TypeOK
<1>23. ASSUME NEW u \in Worker, u # w PROVE HazardOK(u)'
  <2>1. \A x \in Worker, a \in DOMAIN node : x # w => Spares(w, x, a)'
    BY <1>11 DEF Spares
  <2> QED BY <1>6, <1>7, <1>10, <1>12, <1>23, <2>1, KeepHazard
<1>24. ASSUME NEW u \in Worker, u # w PROVE CallOK(u)'
  BY <1>6, <1>7, <1>10, <1>24, KeepCall
<1>25. CallOK(w)' /\ HazardOK(w)'
  <2>1. at # "eject" => retired'[w].work < threshold
    BY <1>2, <1>7, <1>8 DEF HazptrAssumption
  <2> QED BY <1>11, <2>1 DEF CallOK, HazardOK, Protected
<1>26. HazardInv' /\ CallInv'
  BY <1>23, <1>24, <1>25 DEF HazardInv, CallInv
<1> QED BY <1>15, <1>17, <1>21, <1>22, <1>26 DEF Inv

\* Whoever is still announced is seen when its slot is scanned.
LEMMA ScanStep ==
  ASSUME Inv, NEW w \in Worker, ScanSlot(w)
  PROVE  Inv'
<1>0. TypeOK /\ CallOK(w) /\ call[w] \in Call
  BY DEF Inv, CallInv, TypeOK
<1>1. PICK v \in call[w].slots :
        call' = [call EXCEPT ![w].slots = @ \ {v}, ![w].announced = @ \cup {announcements[v]}]
  BY DEF ScanSlot
<1>2. call[w].at = "eject" /\ UNCHANGED <<head, node, announcements, retired, held>>
  BY DEF ScanSlot
<1>3. v \in Worker /\ announcements[v] \in Pointer
  BY <1>0 DEF TypeOK, Call
<1>4. /\ call'[w] = [call[w] EXCEPT !.slots = @ \ {v}, !.announced = @ \cup {announcements[v]}]
      /\ call' = [call EXCEPT ![w] = call'[w]]
      /\ Others(w)
  BY <1>0, <1>1 DEF TypeOK, Others
<1>5. /\ call'[w] \in Call /\ call'[w].at = "eject" /\ call'[w].op = call[w].op
      /\ call'[w].slots = call[w].slots \ {v}
      /\ call'[w].announced = call[w].announced \cup {announcements[v]}
  <2>1. PICK X, Y : X = call[w].slots \ {v} /\ Y = call[w].announced \cup {announcements[v]}
    OBVIOUS
  <2>2. X \in SUBSET Worker /\ Y \in SUBSET Pointer
    BY <1>0, <1>3, <2>1 DEF Call
  <2>3. call'[w] = [call[w] EXCEPT !.slots = X, !.announced = Y]
    BY <1>4, <2>1
  <2>4. /\ call'[w] \in Call /\ call'[w].at = "eject" /\ call'[w].op = call[w].op
        /\ call'[w].slots = X /\ call'[w].announced = Y
    BY <1>0, <1>2, <2>2, <2>3 DEF Call
  <2> QED BY <2>1, <2>4
<1>6. Mine(w)' = Mine(w)
  BY <1>2, <1>5 DEF Mine
<1>7. CallOK(w)' /\ HazardOK(w)'
  BY <1>0, <1>2, <1>5 DEF CallOK, HazardOK, Protected
<1>8. ASSUME NEW u \in Worker, NEW a \in Address, Protected(u), call[u].h = a, Spares(w, u, a)
      PROVE  Spares(w, u, a)'
  <2>1. announcements[u] = a
    BY <1>8 DEF Inv, HazardInv, HazardOK, Protected
  <2> QED BY <1>2, <1>5, <1>8, <2>1 DEF Spares
<1>9. announcements' \in [Worker -> Pointer]
  BY <1>0, <1>2 DEF TypeOK
<1> QED BY <1>2, <1>4, <1>5, <1>6, <1>7, <1>8, <1>9, QuietIsSafe

LEMMA ReleaseStep ==
  ASSUME Inv, NEW w \in Worker, Release(w)
  PROVE  Inv'
<1>0. TypeOK /\ CallOK(w) /\ call[w] \in Call
  BY DEF Inv, CallInv, TypeOK
<1>1. /\ call'[w] = Idle /\ call' = [call EXCEPT ![w] = call'[w]] /\ Others(w)
      /\ call[w].at = "release" /\ UNCHANGED <<head, node, retired, held>>
  BY <1>0 DEF Release, TypeOK, Others
<1>2. /\ \A u \in Worker : u # w => announcements'[u] = announcements[u]
      /\ announcements' \in [Worker -> Pointer]
  BY <1>0 DEF Release, TypeOK, Pointer
<1>3. call'[w] \in Call /\ call'[w].at = "idle" /\ call'[w].op = "pop"
  BY <1>1, IdleCall
<1>4. Mine(w)' = Mine(w)
  BY <1>1, <1>3 DEF Mine
<1>5. CallOK(w)' /\ HazardOK(w)'
  BY <1>0, <1>1, <1>3 DEF CallOK, HazardOK, Protected
<1>6. \A u \in Worker, a \in Address : Spares(w, u, a)'
  BY <1>3 DEF Spares
<1> QED BY <1>1, <1>2, <1>3, <1>4, <1>5, <1>6, QuietIsSafe

\* What w deletes is retired, and announced by nobody who relies on it.
LEMMA EjectStep ==
  ASSUME HazptrAssumption, Inv, NEW w \in Worker, Eject(w)
  PROVE  Inv'
<1>0. TypeOK /\ CallOK(w) /\ call[w] \in Call
  BY DEF Inv, CallInv, TypeOK
<1>1. PICK keep, gone : /\ keep = retired[w].list \cap call[w].announced
                        /\ gone = retired[w].list \ keep
  OBVIOUS
<1>2. /\ call[w].at = "eject" /\ call[w].slots = {} /\ call[w].op = "pop"
      /\ node' = [a \in DOMAIN node \ gone |-> node[a]]
      /\ retired' = [retired EXCEPT ![w] = [list |-> keep, work |-> 0]]
      /\ call' = [call EXCEPT ![w].at = "release"]
      /\ UNCHANGED <<head, announcements, held>>
  BY <1>0, <1>1 DEF Eject, Goto, CallOK
<1>3. /\ call'[w] = [call[w] EXCEPT !.at = "release"]
      /\ call' = [call EXCEPT ![w] = call'[w]]
      /\ Others(w)
  BY <1>0, <1>2 DEF TypeOK, Others
<1>4. call'[w] \in Call /\ call'[w].at = "release" /\ call'[w].op = "pop"
  BY <1>0, <1>2, <1>3 DEF Call
<1>5. /\ retired'[w].list = keep /\ retired'[w].work = 0
      /\ \A u \in Worker : u # w => retired'[u] = retired[u]
  BY <1>0, <1>2 DEF TypeOK
<1>6. DOMAIN node' = DOMAIN node \ gone /\ \A a \in DOMAIN node' : node'[a] = node[a]
  BY <1>2
<1>7. Mine(w) = {} /\ Mine(w)' = {}
  BY <1>2, <1>4 DEF Mine
<1>8. \A u \in Worker : u # w => Mine(u)' = Mine(u) /\ Own(u)' = Own(u)
  BY <1>3, <1>5, MineSame DEF Others, Own
<1>9. Own(w) = keep \cup gone /\ Own(w)' = keep /\ keep \cap gone = {}
  BY <1>1, <1>5, <1>7 DEF Own
<1>10. \A u \in Worker : u # w => Own(u) \cap gone = {}
  BY <1>9 DEF Inv, OwnInv
<1>11. OwnInv'
  <2>1. \A u \in Worker : Own(u)' \subseteq DOMAIN node'
    BY <1>6, <1>8, <1>9, <1>10 DEF Inv, OwnInv
  <2>2. \A u \in Worker : Mine(u)' \cap retired'[u].list = {}
    BY <1>5, <1>7, <1>8 DEF Inv, OwnInv
  <2>3. \A u, x \in Worker : u # x => Own(u)' \cap Own(x)' = {}
    BY <1>8, <1>9 DEF Inv, OwnInv
  <2> QED BY <2>1, <2>2, <2>3 DEF OwnInv
<1>12. \A a : a \in Owned' <=> a \in Owned /\ a \notin gone
  BY <1>8, <1>9, <1>10 DEF Owned
<1>13. gone \subseteq Owned
  BY <1>9 DEF Owned
<1>14. Stacked' = Stacked /\ \A a \in Stacked : node'[a] = node[a]
  BY <1>6, <1>12, <1>13 DEF Stacked
<1>15. LinkInv'
  BY <1>2, <1>14, LinkSame
<1>16. Live' = Live /\ \A a \in Live : node'[a] = node[a]
  <2>1. \A u \in Worker : u # w => retired[u].list \cap gone = {}
    BY <1>10 DEF Own
  <2>2. \A a : a \in Dead' <=> a \in Dead /\ a \notin gone
    BY <1>1, <1>5, <2>1 DEF Dead
  <2>3. gone \subseteq Dead
    BY <1>1 DEF Dead
  <2> QED BY <1>6, <2>2, <2>3 DEF Live
<1>17. ValueInv'
  <2>1. PICK L : L = Live /\ L = Live'
    BY <1>16
  <2>2. \A x \in Value : (\E u \in Worker : x \in held[u]) \/ (\E a \in L : node'[a].t = x)
    BY <1>16, <2>1 DEF ValueInv, Inv
  <2>3. \A a, b \in L : node'[a].t = node'[b].t => a = b
    BY <1>16, <2>1 DEF ValueInv, Inv
  <2>4. \A u \in Worker, a \in L : node'[a].t \notin held[u]
    BY <1>16, <2>1 DEF ValueInv, Inv
  <2>5. \A u, x \in Worker : u # x => held[u] \cap held[x] = {}
    BY DEF ValueInv, Inv
  <2> QED BY <1>2, <2>1, <2>2, <2>3, <2>4, <2>5 DEF ValueInv
<1>18. TypeOK'
  <2>1. call' \in [Worker -> Call]
    BY <1>0, <1>3, <1>4 DEF TypeOK
  <2>2. retired' \in [Worker -> [list : SUBSET Address, work : 0..threshold]]
    <3>1. keep \in SUBSET Address /\ 0 \in 0..threshold
      BY <1>0, <1>1 DEF TypeOK, HazptrAssumption
    <3>2. [list |-> keep, work |-> 0] \in [list : SUBSET Address, work : 0..threshold]
      BY <3>1
    <3> QED BY <1>0, <1>2, <3>2 DEF TypeOK
  <2>3. DOMAIN node' \subseteq Address /\ \A a \in DOMAIN node' : node'[a] \in Node
    BY <1>0, <1>6 DEF TypeOK
  <2> QED BY <1>0, <1>2, <2>1, <2>2, <2>3 DEF TypeOK
<1>19. ASSUME NEW a \in DOMAIN node, NEW u \in Worker, Spares(w, u, a) PROVE a \in DOMAIN node'
  BY <1>1, <1>2, <1>6, <1>19 DEF Spares
<1>20. ASSUME NEW u \in Worker, u # w PROVE HazardOK(u)'
  <2>1. \A x \in Worker, a \in DOMAIN node : Spares(w, x, a)'
    BY <1>4 DEF Spares
  <2> QED BY <1>2, <1>3, <1>5, <1>7, <1>19, <1>20, <2>1, KeepHazard
<1>21. ASSUME NEW u \in Worker, u # w PROVE CallOK(u)'
  <2>1. \A a \in Mine(u) : a \in DOMAIN node'
    BY <1>6, <1>8, <1>11, <1>21 DEF Inv, OwnInv, Own
  <2>2. Protected(u) => call[u].h \in DOMAIN node'
    BY <1>19 DEF Inv, HazardInv, HazardOK
  <2> QED BY <1>3, <1>5, <1>6, <1>21, <2>1, <2>2, KeepCall
<1>22. CallOK(w)' /\ HazardOK(w)'
  BY <1>4, <1>5 DEF CallOK, HazardOK, Protected, HazptrAssumption
<1>23. HazardInv' /\ CallInv'
  BY <1>20, <1>21, <1>22 DEF HazardInv, CallInv
<1> QED BY <1>11, <1>15, <1>17, <1>18, <1>23 DEF Inv

-----------------------------------------------------------------------------
(* A new node: where no node is. *)

LEMMA StartPushStep ==
  ASSUME Inv, NEW w \in Worker, StartPush(w)
  PROVE  Inv'
<1>0. TypeOK /\ CallOK(w) /\ call[w] \in Call
  BY DEF Inv, CallInv, TypeOK
<1>1. PICK v \in held[w], p \in Address \ DOMAIN node :
        /\ held' = [held EXCEPT ![w] = @ \ {v}]
        /\ node' = [a \in DOMAIN node \cup {p} |->
                      IF a = p THEN [t |-> v, next |-> nullptr, length |-> 1] ELSE node[a]]
        /\ call' = [call EXCEPT ![w] = [Idle EXCEPT !.at = "load", !.op = "push", !.p = p]]
  BY DEF StartPush
<1>2. call[w].at = "idle" /\ call[w].op = "pop" /\ UNCHANGED <<head, announcements, retired>>
  BY <1>0 DEF StartPush, CallOK
<1>3. /\ call'[w] = [Idle EXCEPT !.at = "load", !.op = "push", !.p = p]
      /\ call' = [call EXCEPT ![w] = call'[w]]
      /\ Others(w)
  BY <1>0, <1>1 DEF TypeOK, Others
<1>4. /\ call'[w] \in Call /\ call'[w].at = "load" /\ call'[w].op = "push"
      /\ call'[w].p = p
  BY <1>3 DEF Call, Idle, Pointer
<1>5. v \in Value /\ held[w] \in SUBSET Value
  BY <1>0 DEF TypeOK
<1>6. /\ DOMAIN node' = DOMAIN node \cup {p}
      /\ \A a \in DOMAIN node : node'[a] = node[a]
      /\ node'[p] \in Node /\ node'[p].t = v
  BY <1>1, <1>5 DEF Node, Pointer
<1>7. Mine(w) = {} /\ Mine(w)' = {p}
  BY <1>2, <1>4 DEF Mine
<1>8. \A u \in Worker : p \notin Own(u) /\ p \notin retired[u].list
  BY DEF Inv, OwnInv, Own
<1>9. \A u \in Worker : u # w => Mine(u)' = Mine(u) /\ Own(u)' = Own(u)
  BY <1>2, <1>3, MineSame DEF Others, Own
<1>10. Own(w)' = Own(w) \cup {p}
  BY <1>2, <1>7 DEF Own
<1>11. OwnInv'
  <2>1. \A u \in Worker : Own(u)' \subseteq DOMAIN node'
    BY <1>6, <1>9, <1>10 DEF Inv, OwnInv
  <2>2. \A u \in Worker : Mine(u)' \cap retired'[u].list = {}
    BY <1>2, <1>7, <1>8, <1>9 DEF Inv, OwnInv
  <2>3. \A u, x \in Worker : u # x => Own(u)' \cap Own(x)' = {}
    BY <1>8, <1>9, <1>10 DEF Inv, OwnInv
  <2> QED BY <2>1, <2>2, <2>3 DEF OwnInv
<1>12. \A a : a \in Owned' <=> a \in Owned \/ a = p
  BY <1>9, <1>10 DEF Owned
<1>13. Stacked' = Stacked /\ \A a \in Stacked : node'[a] = node[a]
  BY <1>6, <1>12 DEF Stacked
<1>14. LinkInv'
  BY <1>2, <1>13, LinkSame
<1>15. Live' = Live \cup {p} /\ Live \subseteq DOMAIN node
  <2>1. Dead' = Dead /\ p \notin Dead
    BY <1>2, <1>8 DEF Dead
  <2> QED BY <1>6, <2>1 DEF Live
<1>16. \A a \in Live : node'[a] = node[a]
  BY <1>6, <1>15
<1>17. /\ held'[w] = held[w] \ {v}
       /\ \A u \in Worker : u # w => held'[u] = held[u]
  BY <1>0, <1>1 DEF TypeOK
<1>18. ValueInv'
  <2>1. \A x \in Value : (\E u \in Worker : x \in held[u]) \/ (\E a \in Live : node[a].t = x)
    BY DEF Inv, ValueInv
  <2>2. \A x \in Value : (\E u \in Worker : x \in held'[u]) \/ (\E a \in Live' : node'[a].t = x)
    BY <1>6, <1>15, <1>16, <1>17, <2>1
  <2>3. \A x, u \in Worker : x # u => held'[x] \cap held'[u] = {}
    BY <1>17 DEF Inv, ValueInv
  <2>4. \A a \in Live : node[a].t # v
    BY DEF Inv, ValueInv
  <2>5. \A a, b \in Live' : node'[a].t = node'[b].t => a = b
    BY <1>6, <1>15, <1>16, <2>4 DEF Inv, ValueInv
  <2>6. \A u \in Worker : u # w => v \notin held[u]
    BY DEF Inv, ValueInv
  <2>7. \A u \in Worker : v \notin held'[u]
    BY <1>17, <2>6
  <2>8. \A u \in Worker : held'[u] \subseteq held[u]
    BY <1>17
  <2>9. \A u \in Worker, a \in Live : node[a].t \notin held[u]
    BY DEF Inv, ValueInv
  <2>10. \A u \in Worker, a \in Live' : node'[a].t \notin held'[u]
    BY <1>6, <1>15, <1>16, <2>7, <2>8, <2>9
  <2> QED BY <2>2, <2>3, <2>5, <2>10 DEF ValueInv
<1>19. TypeOK'
  <2>1. call' \in [Worker -> Call]
    BY <1>0, <1>3, <1>4 DEF TypeOK
  <2>2. held' \in [Worker -> SUBSET Value]
    BY <1>0, <1>1, <1>5 DEF TypeOK
  <2>3. DOMAIN node' \subseteq Address /\ \A a \in DOMAIN node' : node'[a] \in Node
    BY <1>0, <1>6 DEF TypeOK
  <2> QED BY <1>0, <1>2, <2>1, <2>2, <2>3 DEF TypeOK
<1>20. ASSUME NEW u \in Worker, u # w PROVE HazardOK(u)'
  <2>1. \A x \in Worker, a \in DOMAIN node : Spares(w, x, a)'
    BY <1>4 DEF Spares
  <2> QED BY <1>2, <1>3, <1>6, <1>7, <1>20, <2>1, KeepHazard
<1>21. ASSUME NEW u \in Worker, u # w PROVE CallOK(u)'
  BY <1>2, <1>3, <1>6, <1>21, KeepCall
<1>22. CallOK(w)' /\ HazardOK(w)'
  BY <1>0, <1>2, <1>4 DEF CallOK, HazardOK, Protected
<1>23. HazardInv' /\ CallInv'
  BY <1>20, <1>21, <1>22 DEF HazardInv, CallInv
<1> QED BY <1>11, <1>14, <1>18, <1>19, <1>23 DEF Inv

-----------------------------------------------------------------------------
(* The invariant holds at first and is kept. *)

LEMMA InitInv ==
  ASSUME HazptrAssumption, Init
  PROVE  Inv
<1>1. /\ head = nullptr /\ DOMAIN node = {}
      /\ \A w \in Worker : /\ retired[w] = [list |-> {}, work |-> 0]
                           /\ announcements[w] = nullptr /\ call[w] = Idle
  BY DEF Init
<1>2. TypeOK
  <2>1. call \in [Worker -> Call] /\ announcements \in [Worker -> Pointer] /\ head \in Pointer
    BY IdleCall DEF Init, Pointer
  <2>2. retired \in [Worker -> [list : SUBSET Address, work : 0..threshold]]
    BY DEF Init, HazptrAssumption
  <2>3. held \in [Worker -> SUBSET Value]
    BY DEF Init
  <2> QED BY <1>1, <2>1, <2>2, <2>3 DEF TypeOK
<1>3. \A w \in Worker : Mine(w) = {} /\ Own(w) = {}
  BY <1>1, IdleCall DEF Mine, Own
<1>4. OwnInv
  BY <1>1, <1>3 DEF OwnInv
<1>5. Stacked = {} /\ Live = {}
  BY <1>1 DEF Stacked, Live
<1>6. LinkInv
  BY <1>1, <1>5, FS_EmptySet DEF LinkInv
<1>7. HazardInv
  BY <1>1, IdleCall DEF HazardInv, HazardOK, Protected
<1>8. CallInv
  BY <1>1, IdleCall DEF CallInv, CallOK, HazptrAssumption
<1>9. ValueInv
  <2>1. /\ UNION {held[w] : w \in Worker} = Value
        /\ \A u, w \in Worker : u # w => held[u] \cap held[w] = {}
    BY DEF Init
  <2>2. \A v \in Value : \E w \in Worker : v \in held[w]
    BY <2>1
  <2> QED BY <1>5, <2>1, <2>2 DEF ValueInv
<1> QED BY <1>2, <1>4, <1>6, <1>7, <1>8, <1>9 DEF Inv

LEMMA StepInv ==
  ASSUME HazptrAssumption, Inv, [Next]_vars
  PROVE  Inv'
<1>1. ASSUME Next PROVE Inv'
  <2>1. PICK w \in Worker :
          \/ StartPush(w) \/ StartPop(w) \/ Load(w) \/ Announce(w) \/ CheckAgain(w)
          \/ ReadNode(w) \/ CompareExchange(w) \/ TakeValue(w) \/ ScanSlot(w) \/ Eject(w)
          \/ Release(w)
    BY <1>1 DEF Next
  <2>2. call[w].op = "push" \/ call[w].op = "pop"
    <3>1. call[w] \in Call
      BY DEF Inv, TypeOK
    <3> QED BY <3>1 DEF Call
  <2>3. CASE StartPush(w) \/ StartPop(w)
    BY <2>3, StartPushStep, StartPopStep
  <2>4. CASE Load(w) \/ Announce(w) \/ CheckAgain(w)
    BY <2>4, LoadStep, AnnounceStep, CheckStep
  <2>5. CASE ReadNode(w)
    BY <2>2, <2>5, ReadPopStep, ReadPushStep
  <2>6. CASE CompareExchange(w)
    BY <2>2, <2>6, ExchangeFails, PushExchange, PopExchange
  <2>7. CASE TakeValue(w) \/ ScanSlot(w)
    BY <2>7, TakeStep, ScanStep
  <2>8. CASE Eject(w) \/ Release(w)
    BY <2>8, EjectStep, ReleaseStep
  <2> QED BY <2>1, <2>3, <2>4, <2>5, <2>6, <2>7, <2>8
<1>2. ASSUME UNCHANGED vars PROVE Inv'
  <2>1. UNCHANGED <<head, node, announcements, retired, call, held>>
    BY <1>2 DEF vars
  <2>2. \A u : Mine(u)' = Mine(u)
    BY <2>1 DEF Mine
  <2>3. /\ \A u \in Worker : Own(u)' = Own(u)
        /\ Stacked' = Stacked /\ Live' = Live
    BY <2>1, <2>2, OwnersSame
  <2>4. OwnInv' /\ LinkInv'
    BY <2>1, <2>2, <2>3, LinkSame DEF OwnInv, Inv
  <2>5. ValueInv'
    BY <2>1, <2>3 DEF ValueInv, Inv
  <2>6. HazardInv' /\ CallInv'
    BY <2>1, <2>2 DEF Inv, HazardInv, HazardOK, CallInv, CallOK, Protected, Spares
  <2>7. TypeOK'
    BY <2>1 DEF Inv, TypeOK
  <2> QED BY <2>4, <2>5, <2>6, <2>7 DEF Inv
<1> QED BY <1>1, <1>2

LEMMA Invariance == ASSUME HazptrAssumption PROVE Spec => []Inv
BY InitInv, StepInv, PTL DEF Spec

LEMMA InvIsSafe ==
  ASSUME Inv
  PROVE  NoUseAfterDelete
<1>1. \A w \in Worker : call[w].at \in {"next", "take"} /\ call[w].h # nullptr =>
                          call[w].h \in DOMAIN node
  BY DEF Inv, HazardInv, HazardOK, Protected
<1>2. head # nullptr => head \in DOMAIN node
  BY DEF Inv, LinkInv, Stacked
<1>3. \A w \in Worker : retired[w].list \subseteq DOMAIN node
  BY DEF Inv, OwnInv, Own
<1> QED BY <1>1, <1>2, <1>3 DEF NoUseAfterDelete

(***************************************************************************)
(* NoUseAfterDelete (hazptr_stack.h, acquire_retire.h): where a worker     *)
(* reads the node it acquired, and all along the stack, the node has not   *)
(* been deleted.                                                           *)
(***************************************************************************)
THEOREM NodesAreSafe == ASSUME HazptrAssumption PROVE Spec => []NoUseAfterDelete
BY InvIsSafe, Invariance, PTL

-----------------------------------------------------------------------------
(* What can be reached from head is what no worker has. *)

\* A set of numbers has a least one.
LEMMA Least ==
  ASSUME NEW T \in SUBSET Nat, T # {}
  PROVE  \E x \in T : \A y \in T : x <= y
<1>1. PICK F : F = {1..n : n \in T}
  OBVIOUS
<1>2. F \subseteq FiniteSubsetsOf(Nat) /\ F # {}
  <2>1. \A n \in T : IsFiniteSet(1..n) /\ 1..n \in SUBSET Nat
    <3> TAKE n \in T
    <3>1. IsFiniteSet(1..n)
      BY FS_Interval
    <3> QED BY <3>1
  <2> QED BY <1>1, <2>1 DEF FiniteSubsetsOf
<1>3. PICK A \in F : \A B \in F : ~ (<<B, A>> \in StrictSubsetOrdering(Nat))
  BY <1>2, FS_StrictSubsetOrderingWellFounded, WFMin
<1>4. PICK x \in T : A = 1..x
  BY <1>1, <1>3
<1>5. ASSUME NEW y \in T, y < x PROVE FALSE
  <2>1. 1..y \in F /\ 1..y \in SUBSET Nat /\ A \in SUBSET Nat
    BY <1>1, <1>4
  <2>2. 1..y \subseteq A
    BY <1>4, <1>5
  <2>3. x \in A /\ x \notin 1..y
    BY <1>4, <1>5
  <2> QED BY <1>3, <2>1, <2>2, <2>3 DEF StrictSubsetOrdering
<1> QED BY <1>5

LEMMA StackIsStacked ==
  ASSUME HazptrAssumption, Inv
  PROVE  Stack = Stacked
<1>1. Stacked \in SUBSET Address /\ nullptr \notin Address /\ Stacked \subseteq DOMAIN node
  BY DEF Stacked, Inv, TypeOK, HazptrAssumption
<1>2. \A a \in Stack : a \in Stacked
  <2>1. head \in Stacked \cup {nullptr}
    BY DEF Inv, LinkInv
  <2>2. \A b \in Stacked \cap DOMAIN node : node[b].next \in Stacked \cup {nullptr}
    BY DEF Inv, LinkInv
  <2> QED BY <1>1, <2>1, <2>2 DEF Stack
<1>3. ASSUME NEW S \in SUBSET Address, head \in S \cup {nullptr},
             \A b \in S \cap DOMAIN node : node[b].next \in S \cup {nullptr}
      PROVE  Stacked \subseteq S
  <2> SUFFICES ASSUME NEW a \in Stacked, a \notin S PROVE FALSE
    OBVIOUS
  <2>1. PICK n : n = node[head].length
    OBVIOUS
  <2>2. head \in Stacked /\ head \in S
    <3>1. head # nullptr
      BY DEF Inv, LinkInv
    <3> QED BY <1>3, <3>1 DEF Inv, LinkInv
  <2>3. n \in Nat
    BY <1>1, <2>1, <2>2 DEF Inv, TypeOK, Node
  <2>4. \A b \in Stacked : node[b].length \in 1..n
    BY <2>1 DEF Inv, LinkInv
  <2>5. PICK T : T = {n - node[b].length : b \in Stacked \ S}
    OBVIOUS
  <2>6. T \in SUBSET Nat /\ T # {}
    BY <2>3, <2>4, <2>5
  <2>7. PICK x \in T : \A y \in T : x <= y
    BY <2>6, Least
  <2>8. PICK b \in Stacked \ S : x = n - node[b].length
    BY <2>5, <2>7
  <2>9. b # head /\ b # nullptr
    BY <1>1, <2>2, <2>8
  <2>10. PICK c \in Stacked : node[c].next = b
    BY <2>8, <2>9 DEF Inv, LinkInv
  <2>11. node[b].length = node[c].length - 1
    BY <2>9, <2>10 DEF Inv, LinkInv
  <2>12. CASE c \in S
    BY <1>1, <1>3, <2>8, <2>9, <2>10, <2>12
  <2>13. CASE c \notin S
    <3>1. x <= n - node[c].length
      BY <2>5, <2>7, <2>10, <2>13
    <3> QED BY <2>3, <2>4, <2>8, <2>10, <2>11, <3>1
  <2> QED BY <2>12, <2>13
<1>4. \A a \in Stacked : a \in Stack
  BY <1>1, <1>3 DEF Stack
<1> QED BY <1>2, <1>4

\* A value that is in a node is in a node of the stack or of one worker's call.
LEMMA LiveNodes ==
  ASSUME Inv
  PROVE  /\ \A a \in Live : a \in Stacked \/ \E w \in Worker : a \in Mine(w)
         /\ Stacked \subseteq Live
         /\ \A w \in Worker : Mine(w) \subseteq Live /\ Mine(w) \cap Stacked = {}
         /\ \A u, w \in Worker : u # w => Mine(u) \cap Mine(w) = {}
<1>1. \A u, w \in Worker : Mine(u) \cap retired[w].list = {}
  BY DEF Inv, OwnInv, Own
<1>2. \A w \in Worker : Mine(w) \subseteq DOMAIN node
  BY DEF Inv, OwnInv, Own
<1>3. \A a : a \in Dead <=> \E w \in Worker : a \in retired[w].list
  BY DEF Dead
<1>4. \A a : a \in Owned <=> \E w \in Worker : a \in Mine(w) \/ a \in retired[w].list
  BY DEF Owned, Own
<1>5. \A u, w \in Worker : u # w => Mine(u) \cap Mine(w) = {}
  BY DEF Inv, OwnInv, Own
<1> QED BY <1>1, <1>2, <1>3, <1>4, <1>5 DEF Live, Stacked

LEMMA InvIsTraded ==
  ASSUME HazptrAssumption, Inv
  PROVE  Traded
<1> DEFINE InCall(w) == {a \in DOMAIN node :
             \/ call[w].op = "push" /\ call[w].p = a /\ call[w].at # "release"
             \/ call[w].at = "take" /\ call[w].h = a}
           places(v) == {<<w, "held">> : w \in {u \in Worker : v \in held[u]}}
            \cup {<<w, "call">> : w \in {u \in Worker : \E a \in InCall(u) : node[a].t = v}}
            \cup {<<a, "stack">> : a \in {b \in Stack : node[b].t = v}}
<1>1. \A w \in Worker : InCall(w) = Mine(w)
  <2> SUFFICES ASSUME NEW w \in Worker PROVE InCall(w) = Mine(w)
    OBVIOUS
  <2>1. CallOK(w) /\ call[w] \in Call /\ Mine(w) \subseteq DOMAIN node
    BY DEF Inv, CallInv, TypeOK, OwnInv, Own
  <2>2. call[w].op = "push" => call[w].at \in {"load", "announce", "check", "next", "cas", "release"}
    BY <2>1 DEF CallOK, Call
  <2> QED BY <2>1, <2>2 DEF Mine
<1>2. Stack = Stacked
  BY StackIsStacked
<1>3. /\ \A a \in Live : a \in Stacked \/ \E w \in Worker : a \in Mine(w)
      /\ Stacked \subseteq Live
      /\ \A w \in Worker : Mine(w) \subseteq Live /\ Mine(w) \cap Stacked = {}
      /\ \A u, w \in Worker : u # w => Mine(u) \cap Mine(w) = {}
  BY LiveNodes
<1>4. ASSUME NEW v \in Value PROVE Cardinality(places(v)) = 1
  <2>1. PICK P : P = places(v)
    OBVIOUS
  <2>2. \A x : x \in P <=> \/ \E w \in Worker : x = <<w, "held">> /\ v \in held[w]
                           \/ \E w \in Worker : x = <<w, "call">>
                                                /\ \E a \in Mine(w) : node[a].t = v
                           \/ \E a \in Stacked : x = <<a, "stack">> /\ node[a].t = v
    BY <1>1, <1>2, <2>1
  <2> HIDE DEF InCall, places
  <2>3. /\ (\E w \in Worker : v \in held[w]) \/ (\E a \in Live : node[a].t = v)
        /\ \A u, w \in Worker : u # w => held[u] \cap held[w] = {}
        /\ \A a, b \in Live : node[a].t = node[b].t => a = b
        /\ \A w \in Worker, a \in Live : node[a].t \notin held[w]
    BY DEF Inv, ValueInv
  <2>4. CASE \E w \in Worker : v \in held[w]
    <3>1. PICK w \in Worker : v \in held[w]
      BY <2>4
    <3>2. P = {<<w, "held">>}
      BY <1>3, <2>2, <2>3, <3>1
    <3> QED BY <2>1, <3>2, FS_Singleton
  <2>5. CASE \E a \in Live : node[a].t = v
    <3>1. PICK a \in Live : node[a].t = v
      BY <2>5
    <3>2. \A w \in Worker : v \notin held[w]
      BY <2>3, <3>1
    <3>3. \A b \in Live : node[b].t = v <=> b = a
      BY <2>3, <3>1
    <3>4. \A x : x \in P <=> \/ \E w \in Worker : x = <<w, "call">> /\ a \in Mine(w)
                             \/ x = <<a, "stack">> /\ a \in Stacked
      BY <1>3, <2>2, <3>2, <3>3
    <3>5. \E x : P = {x}
      <4>1. CASE a \in Stacked
        <5>1. \A w \in Worker : a \notin Mine(w)
          BY <1>3, <4>1
        <5>2. P = {<<a, "stack">>}
          BY <3>4, <4>1, <5>1
        <5> QED BY <5>2
      <4>2. CASE a \notin Stacked
        <5>1. PICK w \in Worker : a \in Mine(w)
          BY <1>3, <3>1, <4>2
        <5>2. \A u \in Worker : a \in Mine(u) => u = w
          BY <1>3, <5>1
        <5>3. P = {<<w, "call">>}
          BY <3>4, <4>2, <5>1, <5>2
        <5> QED BY <5>3
      <4> QED BY <4>1, <4>2
    <3> QED BY <2>1, <3>5, FS_Singleton
  <2> QED BY <2>3, <2>4, <2>5
<1>5. head # nullptr => node[head].length = Cardinality(Stack)
  BY <1>2 DEF Inv, LinkInv
<1> QED BY <1>4, <1>5 DEF Traded

(***************************************************************************)
(* Traded (hazptr_stack.h, used by block_allocator.h:77-140): each value   *)
(* is held by one worker, or in the one node that is being pushed, is in   *)
(* the stack or is being taken; and size() is the length of the stack.     *)
(***************************************************************************)
THEOREM ValuesAreTraded == ASSUME HazptrAssumption PROVE Spec => []Traded
BY InvIsTraded, Invariance, PTL

-----------------------------------------------------------------------------
(* The job deque. *)

CONSTANTS q_size, MaxJobs
VARIABLES bot, age, deq, pushed, owner, thief, handed

D == INSTANCE WorkStealingDeque WITH Thief <- Worker

(* The jobs between two positions of the array, as a sequence. *)

Segment(d, lo, hi) == SubSeq([i \in 1..q_size |-> d[i - 1]], lo + 1, hi)

LEMMA SegmentFacts ==
  ASSUME q_size \in Nat, NEW d \in [0..q_size - 1 -> Nat], NEW lo \in Nat, NEW hi \in 0..q_size,
         lo <= hi
  PROVE  /\ Segment(d, lo, hi) \in Seq(Nat)
         /\ Len(Segment(d, lo, hi)) = hi - lo
         /\ \A i \in 1..hi - lo : Segment(d, lo, hi)[i] = d[lo + i - 1]
<1> DEFINE s == [i \in 1..q_size |-> d[i - 1]]
<1>1. \A i \in lo + 1..hi : s[i] \in Nat /\ s[i] = d[i - 1]
  OBVIOUS
<1> HIDE DEF s
<1>2. lo + 1 \in Int /\ hi \in Int /\ \A i \in lo + 1..hi : s[i] \in Nat
  BY <1>1
<1>3. /\ SubSeq(s, lo + 1, hi) \in Seq(Nat)
      /\ Len(SubSeq(s, lo + 1, hi)) = IF lo + 1 <= hi THEN hi - (lo + 1) + 1 ELSE 0
      /\ \A i \in 1..hi - (lo + 1) + 1 : SubSeq(s, lo + 1, hi)[i] = s[lo + 1 + i - 1]
  BY <1>2, SubSeqProperties
<1>4. hi - (lo + 1) + 1 = hi - lo /\ (lo + 1 <= hi <=> lo # hi)
  OBVIOUS
<1>5. \A i \in 1..hi - lo : s[lo + 1 + i - 1] = d[lo + i - 1]
  <2> SUFFICES ASSUME NEW i \in 1..hi - lo PROVE s[lo + 1 + i - 1] = d[lo + i - 1]
    OBVIOUS
  <2>1. lo + i \in lo + 1..hi /\ lo + 1 + i - 1 = lo + i
    OBVIOUS
  <2> QED BY <1>1, <2>1
<1>6. Len(SubSeq(s, lo + 1, hi)) = hi - lo
  BY <1>3, <1>4
<1>7. \A i \in 1..hi - lo : SubSeq(s, lo + 1, hi)[i] = d[lo + i - 1]
  BY <1>3, <1>4, <1>5
<1>8. SubSeq(s, lo + 1, hi) = Segment(d, lo, hi)
  BY DEF Segment, s
<1> QED BY <1>3, <1>6, <1>7, <1>8

LEMMA SegmentEmpty ==
  ASSUME q_size \in Nat, NEW d \in [0..q_size - 1 -> Nat], NEW lo \in Nat, NEW hi \in 0..q_size,
         hi <= lo
  PROVE  Segment(d, lo, hi) = << >>
BY SubSeqEmpty DEF Segment

LEMMA SegmentSame ==
  ASSUME q_size \in Nat, NEW d \in [0..q_size - 1 -> Nat], NEW e \in [0..q_size - 1 -> Nat],
         NEW lo \in Nat, NEW hi \in 0..q_size,
         \A i \in lo..hi - 1 : d[i] = e[i]
  PROVE  Segment(d, lo, hi) = Segment(e, lo, hi)
<1>1. CASE hi <= lo
  BY <1>1, SegmentEmpty
<1>2. CASE lo < hi
  <2> DEFINE s == Segment(d, lo, hi)
             t == Segment(e, lo, hi)
  <2>0. lo <= hi
    BY <1>2
  <2>1. /\ s \in Seq(Nat) /\ Len(s) = hi - lo
        /\ \A i \in 1..hi - lo : s[i] = d[lo + i - 1]
    BY <2>0, SegmentFacts
  <2>2. /\ t \in Seq(Nat) /\ Len(t) = hi - lo
        /\ \A i \in 1..hi - lo : t[i] = e[lo + i - 1]
    BY <2>0, SegmentFacts
  <2>3. \A i \in 1..hi - lo : d[lo + i - 1] = e[lo + i - 1]
    OBVIOUS
  <2> HIDE DEF s, t
  <2>4. s = t
    BY <2>1, <2>2, <2>3, SeqEqual
  <2> QED BY <2>4 DEF s, t
<1> QED BY <1>1, <1>2

LEMMA SegmentAppend ==
  ASSUME q_size \in Nat, NEW d \in [0..q_size - 1 -> Nat], NEW lo \in Nat, NEW hi \in 0..q_size,
         hi < q_size, lo <= hi
  PROVE  Segment(d, lo, hi + 1) = Append(Segment(d, lo, hi), d[hi])
<1> DEFINE s == Segment(d, lo, hi)
           t == Segment(d, lo, hi + 1)
<1>1. /\ s \in Seq(Nat) /\ Len(s) = hi - lo
      /\ \A i \in 1..hi - lo : s[i] = d[lo + i - 1]
  BY SegmentFacts
<1>2. /\ t \in Seq(Nat) /\ Len(t) = hi - lo + 1
      /\ \A i \in 1..hi - lo + 1 : t[i] = d[lo + i - 1]
  <2>1. hi + 1 \in 0..q_size /\ lo <= hi + 1 /\ (hi + 1) - lo = hi - lo + 1
    OBVIOUS
  <2>2. /\ t \in Seq(Nat) /\ Len(t) = (hi + 1) - lo
        /\ \A i \in 1..(hi + 1) - lo : t[i] = d[lo + i - 1]
    BY <2>1, SegmentFacts
  <2> HIDE DEF t
  <2> QED BY <2>1, <2>2
<1>3. d[hi] \in Nat
  OBVIOUS
<1> HIDE DEF s, t
<1>4. /\ Append(s, d[hi]) \in Seq(Nat)
      /\ Len(Append(s, d[hi])) = Len(s) + 1
      /\ \A i \in 1..Len(s) : Append(s, d[hi])[i] = s[i]
      /\ Append(s, d[hi])[Len(s) + 1] = d[hi]
  BY <1>1, <1>3, AppendProperties, SMTT(30)
<1>5. \A i \in 1..Len(t) : t[i] = Append(s, d[hi])[i]
  <2> SUFFICES ASSUME NEW i \in 1..Len(t) PROVE t[i] = Append(s, d[hi])[i]
    OBVIOUS
  <2>1. CASE i <= hi - lo
    BY <1>1, <1>2, <1>4, <2>1
  <2>2. CASE i = hi - lo + 1
    BY <1>1, <1>2, <1>4, <2>2
  <2>3. i \in 1..hi - lo + 1
    BY <1>2
  <2>4. i <= hi - lo \/ i = hi - lo + 1
    BY <2>3
  <2> QED BY <2>1, <2>2, <2>4
<1>6. t = Append(s, d[hi])
  BY <1>1, <1>2, <1>4, <1>5, SeqEqual
<1> QED BY <1>6 DEF s, t

\* What the owner takes.
LEMMA SegmentFront ==
  ASSUME q_size \in Nat, NEW d \in [0..q_size - 1 -> Nat], NEW lo \in Nat, NEW hi \in 0..q_size,
         lo < hi
  PROVE  /\ Segment(d, lo, hi) # << >>
         /\ D!Front(Segment(d, lo, hi)) = Segment(d, lo, hi - 1)
         /\ D!Last(Segment(d, lo, hi)) = d[hi - 1]
<1> DEFINE s == Segment(d, lo, hi)
           t == Segment(d, lo, hi - 1)
<1>0. lo <= hi
  OBVIOUS
<1>1. /\ s \in Seq(Nat) /\ Len(s) = hi - lo
      /\ \A i \in 1..hi - lo : s[i] = d[lo + i - 1]
  BY <1>0, SegmentFacts
<1>2. /\ t \in Seq(Nat) /\ Len(t) = hi - lo - 1
      /\ \A i \in 1..hi - lo - 1 : t[i] = d[lo + i - 1]
  <2>1. hi - 1 \in 0..q_size /\ lo <= hi - 1 /\ (hi - 1) - lo = hi - lo - 1
    OBVIOUS
  <2>2. /\ t \in Seq(Nat) /\ Len(t) = (hi - 1) - lo
        /\ \A i \in 1..(hi - 1) - lo : t[i] = d[lo + i - 1]
    BY <2>1, SegmentFacts
  <2> HIDE DEF t
  <2> QED BY <2>1, <2>2
<1> HIDE DEF s, t
<1>3. s # << >>
  BY <1>1
<1>4. D!Last(s) = d[hi - 1]
  BY <1>1 DEF D!Last
<1>5. \A i \in 1..Len(s) - 1 : s[i] \in Nat
  BY <1>1, ElementOfSeq
<1>6. /\ SubSeq(s, 1, Len(s) - 1) \in Seq(Nat)
      /\ Len(SubSeq(s, 1, Len(s) - 1)) =
           IF 1 <= Len(s) - 1 THEN (Len(s) - 1) - 1 + 1 ELSE 0
      /\ \A i \in 1..(Len(s) - 1) - 1 + 1 : SubSeq(s, 1, Len(s) - 1)[i] = s[1 + i - 1]
  <2>1. Len(s) - 1 \in Int
    BY <1>1
  <2> QED BY <1>5, <2>1, SubSeqProperties
<1>7. D!Front(s) = t
  <2>1. D!Front(s) \in Seq(Nat) /\ Len(D!Front(s)) = Len(t)
    BY <1>1, <1>2, <1>6, SMTT(30) DEF D!Front
  <2>2. \A i \in 1..Len(t) : D!Front(s)[i] = t[i]
    BY <1>1, <1>2, <1>6 DEF D!Front
  <2> QED BY <1>2, <2>1, <2>2, SeqEqual
<1> QED BY <1>3, <1>4, <1>7 DEF s, t

\* What a thief takes.
LEMMA SegmentTail ==
  ASSUME q_size \in Nat, NEW d \in [0..q_size - 1 -> Nat], NEW lo \in Nat, NEW hi \in 0..q_size,
         lo < hi
  PROVE  /\ Segment(d, lo, hi) # << >>
         /\ Tail(Segment(d, lo, hi)) = Segment(d, lo + 1, hi)
         /\ Head(Segment(d, lo, hi)) = d[lo]
<1> DEFINE s == Segment(d, lo, hi)
           t == Segment(d, lo + 1, hi)
<1>0. lo <= hi
  OBVIOUS
<1>1. /\ s \in Seq(Nat) /\ Len(s) = hi - lo
      /\ \A i \in 1..hi - lo : s[i] = d[lo + i - 1]
  BY <1>0, SegmentFacts
<1>2. /\ t \in Seq(Nat) /\ Len(t) = hi - lo - 1
      /\ \A i \in 1..hi - lo - 1 : t[i] = d[lo + i]
  <2>1. lo + 1 \in Nat /\ lo + 1 <= hi /\ hi - (lo + 1) = hi - lo - 1
    OBVIOUS
  <2>2. /\ t \in Seq(Nat) /\ Len(t) = hi - (lo + 1)
        /\ \A i \in 1..hi - (lo + 1) : t[i] = d[(lo + 1) + i - 1]
    BY <2>1, SegmentFacts
  <2>3. \A i \in 1..hi - lo - 1 : (lo + 1) + i - 1 = lo + i
    OBVIOUS
  <2> HIDE DEF t
  <2> QED BY <2>1, <2>2, <2>3
<1> HIDE DEF s, t
<1>3. s # << >>
  BY <1>1
<1>4. Head(s) = d[lo]
  BY <1>1, <1>3
<1>5. /\ Tail(s) \in Seq(Nat) /\ Len(Tail(s)) = Len(s) - 1
      /\ \A i \in 1..Len(Tail(s)) : Tail(s)[i] = s[i + 1]
  BY <1>1, <1>3, HeadTailProperties
<1>6. \A i \in 1..Len(t) : Tail(s)[i] = t[i]
  <2> SUFFICES ASSUME NEW i \in 1..Len(t) PROVE Tail(s)[i] = t[i]
    OBVIOUS
  <2>1. i \in 1..Len(Tail(s)) /\ i + 1 \in 1..hi - lo /\ i \in 1..hi - lo - 1
    BY <1>1, <1>2, <1>5
  <2>2. Tail(s)[i] = s[i + 1] /\ s[i + 1] = d[lo + (i + 1) - 1] /\ t[i] = d[lo + i]
    BY <1>1, <1>2, <1>5, <2>1
  <2>3. lo + (i + 1) - 1 = lo + i
    BY <1>2
  <2> QED BY <2>2, <2>3
<1>7. Tail(s) = t
  BY <1>1, <1>2, <1>5, <1>6, SeqEqual
<1> QED BY <1>3, <1>4, <1>7 DEF s, t
-----------------------------------------------------------------------------
(* The inductive invariant. An age is not after another when it was read no   *)
(* later: the tag only grows, and top only grows while the tag stays.         *)

AnyAge == [tag : Nat, top : 0..q_size]

NotAfter(a, b) == a.tag < b.tag \/ (a.tag = b.tag /\ a.top <= b.top)

DequeTypes ==
    /\ bot \in 0..q_size - 1
    /\ age \in AnyAge
    /\ deq \in [0..q_size - 1 -> Nat]
    /\ pushed \in 0..MaxJobs
    /\ owner \in [at : {"idle", "publish", "age", "reset", "cas", "store", "aborted"},
                  local_bot : 0..q_size - 1, old_age : AnyAge]
    /\ thief \in [Worker -> [at : {"idle", "bot", "job", "cas"},
                            old_age : AnyAge, job : Nat]]
    /\ handed \in Seq(Nat)

\* What the owner knows of age at each step of its call.
OwnerInv ==
    /\ owner.at \in {"idle", "publish", "aborted"} => age.top <= bot
    /\ owner.at = "age" => bot = owner.local_bot /\ age.top <= owner.local_bot + 1
    /\ owner.at \in {"reset", "cas"} =>
         /\ owner.old_age.tag = age.tag
         /\ owner.local_bot <= owner.old_age.top
         /\ owner.old_age.top <= age.top
         /\ age.top <= owner.local_bot + 1
    /\ owner.at = "reset" => bot = owner.local_bot
    /\ owner.at = "cas" => bot = 0 /\ owner.local_bot = owner.old_age.top
    /\ owner.at = "store" => bot = 0 /\ owner.old_age.tag = age.tag

\* A job counts from the moment bot makes it visible.
Known == IF owner.at \in {"publish", "aborted"} THEN pushed - 1 ELSE pushed

SlotInv ==
    /\ \A i \in age.top..D!Bottom - 1 : deq[i] \in 1..Known
    /\ \A i \in 1..Len(handed) : handed[i] \in 1..Known
    /\ owner.at \in {"publish", "aborted"} => pushed > 0
    /\ owner.at = "publish" => deq[bot] = pushed

\* A thief whose age is still the present one has a job to take.
ThiefInv ==
    \A t \in Worker :
        /\ NotAfter(thief[t].old_age, age)
        /\ thief[t].at = "job" => thief[t].old_age.top < q_size
        /\ thief[t].at \in {"job", "cas"} /\ thief[t].old_age = age => age.top < D!Bottom
        /\ thief[t].at = "cas" /\ thief[t].old_age = age => thief[t].job = deq[age.top]

DequeInv == DequeTypes /\ OwnerInv /\ SlotInv /\ ThiefInv
-----------------------------------------------------------------------------
LEMMA DequeInitInv ==
  ASSUME D!DequeAssumption, D!Init
  PROVE  DequeInv
<1>1. DequeTypes
  BY DEF D!DequeAssumption, D!Init, DequeTypes, AnyAge, D!NoJob
<1>2. bot = 0 /\ age.top = 0 /\ D!Bottom = 0
  BY DEF D!Init, D!Bottom
<1>3. SlotInv
  BY <1>2 DEF D!Init, SlotInv
<1>4. OwnerInv
  BY <1>2 DEF D!Init, OwnerInv
<1>5. ThiefInv
  BY <1>2 DEF D!Init, ThiefInv, NotAfter
<1> QED BY <1>1, <1>3, <1>4, <1>5 DEF DequeInv

LEMMA BottomType ==
  ASSUME D!DequeAssumption, DequeInv
  PROVE  D!Bottom \in 0..q_size
BY DEF D!DequeAssumption, DequeInv, DequeTypes, D!Bottom

LEMMA InsideIsSegment == D!Inside = Segment(deq, age.top, D!Bottom)
BY DEF D!Inside, Segment

LEMMA NewAgeIsLater ==
  ASSUME D!DequeAssumption, DequeTypes
  PROVE  D!NewAge \in AnyAge /\ D!NewAge.tag = owner.old_age.tag + 1 /\ D!NewAge.top = 0
<1>1. owner.old_age.tag + 1 \in Nat /\ 0 \in 0..q_size
  BY DEF D!DequeAssumption, DequeTypes, AnyAge
<1> QED BY <1>1 DEF D!NewAge, AnyAge

LEMMA AgeOrder ==
  ASSUME NEW a \in AnyAge, NEW b \in AnyAge
  PROVE  a = b <=> a.tag = b.tag /\ a.top = b.top
BY DEF AnyAge

\* No thief holds the age that is about to be set.
LEMMA ThievesBehind ==
  ASSUME D!DequeAssumption, DequeTypes, DequeTypes', ThiefInv, thief' = thief,
         age.tag < age'.tag \/ (age.tag = age'.tag /\ age.top < age'.top)
  PROVE  ThiefInv'
<1> SUFFICES ASSUME NEW t \in Worker
             PROVE  /\ NotAfter(thief[t].old_age, age')
                    /\ thief[t].at = "job" => thief[t].old_age.top < q_size
                    /\ thief[t].old_age # age'
  BY DEF ThiefInv
<1>1. /\ thief[t].old_age \in AnyAge /\ age \in AnyAge /\ age' \in AnyAge
      /\ NotAfter(thief[t].old_age, age)
      /\ thief[t].at = "job" => thief[t].old_age.top < q_size
  BY DEF DequeTypes, ThiefInv
<1>2. \A x \in AnyAge : x.tag \in Nat /\ x.top \in Nat
  BY DEF AnyAge, D!DequeAssumption
<1> QED BY <1>1, <1>2 DEF NotAfter

-----------------------------------------------------------------------------
(* One lemma per step: it keeps the invariant, and is a step of JobDeque or   *)
(* leaves the jobs and what was handed out alone.                             *)

LEMMA StoreJobStep ==
  ASSUME D!DequeAssumption, DequeInv, D!StoreJob
  PROVE  DequeInv' /\ UNCHANGED <<D!Inside, handed>>
<1>0. DequeTypes /\ OwnerInv /\ SlotInv /\ ThiefInv
  BY DEF DequeInv
<1>1. /\ owner.at = "idle" /\ owner'.at = "publish"
      /\ UNCHANGED <<bot, age, thief, handed>> /\ pushed' = pushed + 1
      /\ deq' \in [0..q_size - 1 -> Nat] /\ deq'[bot] = pushed + 1
      /\ \A i \in 0..q_size - 1 : i # bot => deq'[i] = deq[i]
  BY <1>0 DEF D!StoreJob, DequeTypes
<1>2. DequeTypes'
  <2>1. pushed' \in 0..MaxJobs
    BY <1>0, <1>1 DEF D!StoreJob, DequeTypes, D!DequeAssumption
  <2>2. owner' = [owner EXCEPT !.at = "publish"]
    BY DEF D!StoreJob
  <2> QED BY <1>0, <1>1, <2>1, <2>2 DEF DequeTypes
<1>3. /\ D!Bottom = bot /\ D!Bottom' = bot /\ bot \in 0..q_size - 1
      /\ pushed \in Nat /\ Known = pushed /\ Known' = pushed /\ age.top \in Nat
      /\ age.top <= bot
  BY <1>0, <1>1, <1>2 DEF D!Bottom, Known, DequeTypes, AnyAge, OwnerInv, D!DequeAssumption
<1>4. OwnerInv'
  BY <1>1, <1>3 DEF OwnerInv
<1>5. \A i \in age.top..bot - 1 : deq'[i] = deq[i]
  BY <1>1, <1>3 DEF D!DequeAssumption
<1>6. SlotInv'
  BY <1>0, <1>1, <1>3, <1>5 DEF SlotInv
<1>7. ThiefInv'
  BY <1>0, <1>1, <1>3, <1>5 DEF ThiefInv, NotAfter
<1>8. Segment(deq, age.top, bot) = Segment(deq', age.top, bot)
  <2>1. bot \in 0..q_size /\ q_size \in Nat /\ deq \in [0..q_size - 1 -> Nat]
    BY <1>0, <1>3 DEF DequeTypes, D!DequeAssumption
  <2> QED BY <1>1, <1>3, <1>5, <2>1, SegmentSame
<1>9. D!Inside' = D!Inside
  BY <1>1, <1>3, <1>8 DEF D!Inside, Segment
<1> QED BY <1>1, <1>2, <1>4, <1>6, <1>7, <1>9 DEF DequeInv

LEMMA LowerBotStep ==
  ASSUME D!DequeAssumption, DequeInv, D!LowerBot
  PROVE  DequeInv' /\ UNCHANGED <<D!Inside, handed>>
<1>0. DequeTypes /\ OwnerInv /\ SlotInv /\ ThiefInv
  BY DEF DequeInv
<1>1. /\ owner.at = "idle" /\ owner'.at = "age"
      /\ owner'.local_bot = bot - 1 /\ bot' = bot - 1
      /\ UNCHANGED <<age, deq, pushed, thief, handed>>
  BY <1>0 DEF D!LowerBot, DequeTypes
<1>2. DequeTypes'
  <2>1. bot - 1 \in 0..q_size - 1
    BY <1>0 DEF D!LowerBot, DequeTypes, D!DequeAssumption
  <2> DEFINE low == bot - 1
  <2>2. owner' = [owner EXCEPT !.at = "age", !.local_bot = low] /\ bot' = low
    BY DEF D!LowerBot
  <2> HIDE DEF low
  <2> QED BY <1>0, <1>1, <2>1, <2>2 DEF DequeTypes, low
<1>3. /\ D!Bottom = bot /\ D!Bottom' = bot /\ Known = pushed /\ Known' = pushed
      /\ bot \in 0..q_size - 1 /\ age.top \in Nat /\ age.top <= bot
  BY <1>0, <1>1 DEF D!Bottom, Known, DequeTypes, AnyAge, OwnerInv, D!DequeAssumption
<1>4. OwnerInv'
  BY <1>1, <1>3 DEF OwnerInv, D!DequeAssumption
<1>5. SlotInv' /\ ThiefInv'
  BY <1>0, <1>1, <1>3 DEF SlotInv, ThiefInv, NotAfter
<1>6. D!Inside' = D!Inside
  BY <1>1, <1>3 DEF D!Inside
<1> QED BY <1>1, <1>2, <1>4, <1>5, <1>6 DEF DequeInv

\* The new bottom is a slot lower only when that slot was already taken.
LEMMA ResetBotStep ==
  ASSUME D!DequeAssumption, DequeInv, D!ResetBot
  PROVE  DequeInv' /\ UNCHANGED <<D!Inside, handed>>
<1>0. DequeTypes /\ OwnerInv /\ SlotInv /\ ThiefInv
  BY DEF DequeInv
<1> DEFINE later == IF owner.local_bot = owner.old_age.top THEN "cas" ELSE "store"
<1>1. /\ owner.at = "reset" /\ owner'.at = later /\ bot' = 0
      /\ owner'.local_bot = owner.local_bot /\ owner'.old_age = owner.old_age
      /\ UNCHANGED <<age, deq, pushed, thief, handed>>
  BY <1>0 DEF D!ResetBot, DequeTypes
<1>2. DequeTypes'
  <2>1. owner' = [owner EXCEPT !.at = later] /\ later \in {"cas", "store"}
    BY DEF D!ResetBot
  <2> HIDE DEF later
  <2> QED BY <1>0, <1>1, <2>1, SMTT(30) DEF DequeTypes, D!DequeAssumption
<1>3. /\ owner.old_age.tag = age.tag /\ owner.local_bot <= owner.old_age.top
      /\ owner.old_age.top <= age.top /\ age.top <= owner.local_bot + 1
      /\ owner.local_bot \in 0..q_size - 1 /\ age.top \in 0..q_size
      /\ owner.old_age.top \in 0..q_size
      /\ D!Bottom = owner.local_bot + 1 /\ Known = pushed /\ Known' = pushed
  BY <1>0, <1>1 DEF OwnerInv, DequeTypes, AnyAge, D!Bottom, Known
<1>4. OwnerInv'
  BY <1>1, <1>3 DEF OwnerInv
<1>5. CASE owner.local_bot = owner.old_age.top
  <2>1. D!Bottom' = D!Bottom /\ later = "cas"
    BY <1>1, <1>3, <1>5 DEF D!Bottom
  <2>2. SlotInv' /\ ThiefInv'
    BY <1>0, <1>1, <1>3, <2>1 DEF SlotInv, ThiefInv, NotAfter
  <2>3. D!Inside' = D!Inside
    BY <1>1, <2>1 DEF D!Inside
  <2> QED BY <1>1, <1>2, <1>4, <2>2, <2>3 DEF DequeInv
<1>6. CASE owner.local_bot # owner.old_age.top
  <2>1. D!Bottom' = 0 /\ later = "store"
    BY <1>1, <1>6 DEF D!Bottom
  <2>2. age.top = D!Bottom
    BY <1>3, <1>6 DEF D!DequeAssumption
  <2>3. SlotInv' /\ ThiefInv'
    BY <1>0, <1>1, <1>3, <2>1, <2>2 DEF SlotInv, ThiefInv, NotAfter, D!DequeAssumption
  <2>4. Segment(deq, age.top, D!Bottom) = << >> /\ Segment(deq, age.top, 0) = << >>
    <3>1. /\ q_size \in Nat /\ deq \in [0..q_size - 1 -> Nat] /\ age.top \in Nat
          /\ D!Bottom \in 0..q_size /\ 0 \in 0..q_size /\ D!Bottom <= age.top /\ 0 <= age.top
      BY <1>0, <1>3, <2>2 DEF DequeTypes, D!DequeAssumption
    <3> QED BY <3>1, SegmentEmpty
  <2>5. D!Inside' = D!Inside
    BY <1>1, <2>1, <2>4 DEF D!Inside, Segment
  <2> QED BY <1>1, <1>2, <1>4, <2>3, <2>5 DEF DequeInv
<1> QED BY <1>5, <1>6

LEMMA StoreAgeStep ==
  ASSUME D!DequeAssumption, DequeInv, D!StoreAge
  PROVE  DequeInv' /\ UNCHANGED <<D!Inside, handed>>
<1>0. DequeTypes /\ OwnerInv /\ SlotInv /\ ThiefInv
  BY DEF DequeInv
<1>1. /\ owner.at = "store" /\ owner'.at = "idle" /\ age' = D!NewAge
      /\ UNCHANGED <<bot, deq, pushed, thief, handed>>
  BY <1>0 DEF D!StoreAge, DequeTypes
<1>2. D!NewAge \in AnyAge /\ D!NewAge.tag = owner.old_age.tag + 1 /\ D!NewAge.top = 0
  BY <1>0, NewAgeIsLater
<1>3. DequeTypes'
  BY <1>0, <1>1, <1>2 DEF D!StoreAge, DequeTypes
<1>4. /\ D!Bottom = 0 /\ D!Bottom' = 0 /\ bot = 0 /\ Known = pushed /\ Known' = pushed
      /\ age'.tag = age.tag + 1 /\ age'.top = 0 /\ age.tag \in Nat /\ age.top \in 0..q_size
  BY <1>0, <1>1, <1>2 DEF D!Bottom, Known, OwnerInv, DequeTypes, AnyAge
<1>5. OwnerInv' /\ SlotInv'
  BY <1>0, <1>1, <1>4 DEF OwnerInv, SlotInv
<1>6. ThiefInv'
  BY <1>0, <1>1, <1>3, <1>4, ThievesBehind
<1>7. Segment(deq, age.top, 0) = << >> /\ Segment(deq, 0, 0) = << >>
  <2>1. /\ q_size \in Nat /\ deq \in [0..q_size - 1 -> Nat] /\ age.top \in Nat
        /\ 0 \in Nat /\ 0 \in 0..q_size /\ 0 <= age.top
    BY <1>0, <1>4 DEF DequeTypes, D!DequeAssumption
  <2> QED BY <2>1, SegmentEmpty
<1>8. D!Inside' = D!Inside
  BY <1>1, <1>4, <1>7 DEF D!Inside, Segment
<1> QED BY <1>1, <1>3, <1>5, <1>6, <1>8 DEF DequeInv

\* A thief that only looks.
LEMMA ThiefLooksStep ==
  ASSUME D!DequeAssumption, DequeInv, NEW t \in Worker, D!ReadAge(t) \/ D!ReadBot(t) \/ D!ReadJob(t)
  PROVE  DequeInv' /\ UNCHANGED <<D!Inside, handed>>
<1>0. DequeTypes /\ OwnerInv /\ SlotInv /\ ThiefInv
  BY DEF DequeInv
<1>1. UNCHANGED <<bot, age, deq, pushed, owner, handed>>
  BY DEF D!ReadAge, D!ReadBot, D!ReadJob
<1>2. D!Bottom' = D!Bottom /\ Known' = Known /\ D!Inside' = D!Inside
  BY <1>1 DEF D!Bottom, Known, D!Inside
<1>3. OwnerInv' /\ SlotInv'
  BY <1>0, <1>1, <1>2 DEF OwnerInv, SlotInv
<1>4. DequeTypes' /\ ThiefInv'
  <2>0. \A u \in Worker : u # t => thief'[u] = thief[u]
    BY <1>0 DEF D!ReadAge, D!ReadBot, D!ReadJob, DequeTypes
  <2>1. CASE D!ReadAge(t)
    <3>1. DequeTypes'
      BY <1>0, <2>1 DEF D!ReadAge, DequeTypes
    <3>2. thief'[t].at = "bot" /\ thief'[t].old_age = age
      BY <1>0, <2>1 DEF D!ReadAge, DequeTypes
    <3>3. age.tag \in Nat /\ age.top \in 0..q_size
      BY <1>0 DEF DequeTypes, AnyAge
    <3> QED BY <1>0, <1>1, <1>2, <2>0, <3>1, <3>2, <3>3 DEF ThiefInv, NotAfter, D!DequeAssumption
  <2>2. CASE D!ReadBot(t)
    <3>1. DequeTypes'
      BY <1>0, <2>2 DEF D!ReadBot, DequeTypes
    <3>2. /\ thief'[t].old_age = thief[t].old_age
          /\ thief'[t].at = IF bot > thief[t].old_age.top THEN "job" ELSE "idle"
      BY <1>0, <2>2 DEF D!ReadBot, DequeTypes
    <3>3. /\ bot \in 0..q_size - 1 /\ q_size \in Nat /\ thief[t].old_age \in AnyAge
          /\ \A x \in AnyAge : x.top \in Nat
      BY <1>0 DEF DequeTypes, AnyAge, D!DequeAssumption
    <3>4. bot <= D!Bottom
      BY <1>0 DEF D!Bottom, OwnerInv, DequeTypes, D!DequeAssumption
    <3>5. D!Bottom \in Nat
      BY BottomType DEF D!DequeAssumption
    <3>6. CASE bot > thief[t].old_age.top
      <4>1. thief[t].old_age.top < q_size /\ thief[t].old_age.top < D!Bottom
        BY <3>3, <3>4, <3>5, <3>6
      <4>2. thief'[t].at = "job"
        BY <3>2, <3>6
      <4> QED BY <1>0, <1>1, <1>2, <2>0, <3>1, <3>2, <4>1, <4>2 DEF ThiefInv
    <3>7. CASE ~(bot > thief[t].old_age.top)
      BY <1>0, <1>1, <1>2, <2>0, <3>1, <3>2, <3>7 DEF ThiefInv
    <3> QED BY <3>6, <3>7
  <2>3. CASE D!ReadJob(t)
    <3>1. /\ thief[t].at = "job" /\ thief'[t].at = "cas"
          /\ thief'[t].old_age = thief[t].old_age
          /\ thief'[t].job = deq[thief[t].old_age.top]
      BY <1>0, <2>3 DEF D!ReadJob, DequeTypes
    <3>2. thief[t].old_age.top \in 0..q_size - 1
      BY <1>0, <3>1 DEF ThiefInv, DequeTypes, AnyAge, D!DequeAssumption
    <3>3. DequeTypes'
      <4>1. deq[thief[t].old_age.top] \in Nat
        BY <1>0, <3>2 DEF DequeTypes
      <4>2. thief' \in [Worker -> [at : {"idle", "bot", "job", "cas"}, old_age : AnyAge, job : Nat]]
        <5>1. thief \in [Worker -> [at : {"idle", "bot", "job", "cas"}, old_age : AnyAge, job : Nat]]
          BY <1>0 DEF DequeTypes
        <5>2. thief' = [thief EXCEPT ![t].at = "cas", ![t].job = deq[thief[t].old_age.top]]
          BY <2>3 DEF D!ReadJob
        <5> QED BY <4>1, <5>1, <5>2
      <4>3. UNCHANGED <<bot, age, deq, pushed, owner, handed>>
        BY <2>3 DEF D!ReadJob
      <4> QED BY <1>0, <4>2, <4>3 DEF DequeTypes
    <3> QED BY <1>0, <1>1, <1>2, <2>0, <3>1, <3>3 DEF ThiefInv
  <2> QED BY <2>1, <2>2, <2>3
<1> QED BY <1>1, <1>2, <1>3, <1>4 DEF DequeInv

LEMMA PublishJobStep ==
  ASSUME D!DequeAssumption, DequeInv, D!PublishJob
  PROVE  DequeInv' /\ (D!Abstract!Push \/ UNCHANGED <<D!Inside, handed>>)
<1>0. DequeTypes /\ OwnerInv /\ SlotInv /\ ThiefInv
  BY DEF DequeInv
<1>1. owner.at = "publish" /\ UNCHANGED <<age, deq, pushed, thief, handed>>
  BY DEF D!PublishJob
<1>2. /\ q_size \in Nat /\ bot \in 0..q_size - 1 /\ age.top \in Nat /\ age.top <= bot
      /\ pushed \in 1..MaxJobs /\ Known = pushed - 1 /\ D!Bottom = bot /\ deq[bot] = pushed
      /\ deq \in [0..q_size - 1 -> Nat]
  BY <1>0, <1>1 DEF DequeTypes, AnyAge, OwnerInv, SlotInv, Known, D!Bottom, D!DequeAssumption
<1>3. CASE bot + 1 = q_size
  <2>1. owner'.at = "aborted" /\ bot' = bot
    BY <1>0, <1>3 DEF D!PublishJob, DequeTypes
  <2>2. DequeTypes'
    BY <1>0, <1>3 DEF D!PublishJob, DequeTypes
  <2>3. Known' = Known /\ D!Bottom' = D!Bottom
    BY <1>1, <1>2, <2>1 DEF Known, D!Bottom
  <2>4. OwnerInv' /\ SlotInv' /\ ThiefInv'
    BY <1>0, <1>1, <1>2, <2>1, <2>3 DEF OwnerInv, SlotInv, ThiefInv, NotAfter
  <2>5. D!Inside' = D!Inside
    BY <1>1, <2>3 DEF D!Inside
  <2> QED BY <1>1, <2>2, <2>4, <2>5 DEF DequeInv
<1>4. CASE bot + 1 # q_size
  <2>1. owner'.at = "idle" /\ bot' = bot + 1 /\ bot + 1 \in 0..q_size - 1
    BY <1>0, <1>2, <1>4 DEF D!PublishJob, DequeTypes
  <2>2. DequeTypes'
    <3>1. owner' = [owner EXCEPT !.at = "idle"]
      BY <1>4 DEF D!PublishJob
    <3> QED BY <1>0, <1>1, <2>1, <3>1 DEF DequeTypes
  <2>3. Known' = pushed /\ D!Bottom' = bot + 1
    BY <1>1, <2>1 DEF Known, D!Bottom
  <2>4. OwnerInv'
    BY <1>1, <1>2, <2>1 DEF OwnerInv
  <2>5. SlotInv'
    <3>1. ASSUME NEW i \in age.top..bot PROVE deq[i] \in 1..pushed
      <4>1. CASE i = bot
        BY <1>2, <4>1
      <4>2. CASE i # bot
        <5>1. i \in age.top..D!Bottom - 1
          BY <1>2, <4>2
        <5>2. deq[i] \in 1..pushed - 1
          BY <1>0, <1>2, <5>1 DEF SlotInv
        <5> QED BY <1>2, <5>2
      <4> QED BY <4>1, <4>2
    <3>2. \A i \in 1..Len(handed) : handed[i] \in 1..pushed
      BY <1>0, <1>2 DEF SlotInv
    <3>3. D!Bottom' - 1 = bot
      BY <1>2, <2>3
    <3>4. \A i \in (age.top)'..D!Bottom' - 1 : deq'[i] \in 1..Known'
      BY <1>1, <2>3, <3>1, <3>3
    <3>5. \A i \in 1..Len(handed') : handed'[i] \in 1..Known'
      BY <1>1, <2>3, <3>2
    <3> QED BY <2>1, <3>4, <3>5 DEF SlotInv
  <2>6. ThiefInv'
    <3>1. D!Bottom < D!Bottom'
      BY <1>2, <2>3
    <3>2. D!Bottom \in Nat /\ D!Bottom' \in Nat
      BY <1>2, <2>3
    <3> QED BY <1>0, <1>1, <1>2, <3>1, <3>2 DEF ThiefInv, NotAfter
  <2>7. D!Abstract!Push
    <3>1. D!Inside' = Append(D!Inside, pushed)
      <4>1. Segment(deq, age.top, bot + 1) = Append(Segment(deq, age.top, bot), deq[bot])
        <5>1. bot \in 0..q_size /\ bot < q_size
          BY <1>2
        <5> QED BY <1>2, <5>1, SegmentAppend
      <4> QED BY <1>1, <1>2, <2>3, <4>1 DEF D!Inside, Segment
    <3>2. pushed \notin D!ToSet(D!Inside)
      <4> SUFFICES ASSUME pushed \in D!ToSet(D!Inside) PROVE FALSE
        OBVIOUS
      <4>1. D!Inside = Segment(deq, age.top, bot)
        BY <1>2, InsideIsSegment
      <4>2. /\ D!Inside \in Seq(Nat) /\ Len(D!Inside) = bot - age.top
            /\ \A i \in 1..bot - age.top : D!Inside[i] = deq[age.top + i - 1]
        <5>1. bot \in 0..q_size
          BY <1>2
        <5> QED BY <1>2, <4>1, <5>1, SegmentFacts
      <4>3. PICK i \in 1..bot - age.top : pushed = D!Inside[i]
        <5>1. DOMAIN D!Inside = 1..bot - age.top
          BY <4>2, LenProperties
        <5> QED BY <5>1 DEF D!ToSet
      <4>4. age.top + i - 1 \in age.top..D!Bottom - 1
        BY <1>2, SMTT(30)
      <4>5. deq[age.top + i - 1] \in 1..pushed - 1
        BY <1>0, <1>2, <4>4 DEF SlotInv
      <4>6. D!Inside[i] = deq[age.top + i - 1]
        BY <4>2
      <4>7. pushed \in 1..pushed - 1
        BY <4>3, <4>5, <4>6
      <4> QED BY <1>2, <4>7
    <3>3. pushed \notin D!ToSet(handed)
      <4>1. DOMAIN handed = 1..Len(handed)
        BY <1>0, LenProperties DEF DequeTypes
      <4>2. \A i \in 1..Len(handed) : handed[i] # pushed
        BY <1>0, <1>2 DEF SlotInv
      <4> QED BY <4>1, <4>2 DEF D!ToSet
    <3>4. pushed \in D!Job
      BY <1>2 DEF D!Job
    <3>5. /\ D!Abstract!ToSet(D!Inside) = D!ToSet(D!Inside)
          /\ D!Abstract!ToSet(handed) = D!ToSet(handed)
      BY DEF D!ToSet, D!Abstract!ToSet
    <3>6. UNCHANGED handed
      BY <1>1
    <3> QED BY <3>1, <3>2, <3>3, <3>4, <3>5, <3>6 DEF D!Abstract!Push
  <2> QED BY <2>2, <2>4, <2>5, <2>6, <2>7 DEF DequeInv
<1> QED BY <1>3, <1>4

LEMMA HandOut ==
  ASSUME D!DequeAssumption, DequeTypes, SlotInv, NEW j \in 1..Known
  PROVE  /\ Append(handed, j) \in Seq(Nat)
         /\ \A i \in 1..Len(Append(handed, j)) : Append(handed, j)[i] \in 1..Known
<1>1. j \in Nat /\ handed \in Seq(Nat) /\ Len(handed) \in Nat
  BY LenProperties DEF DequeTypes
<1>2. /\ Append(handed, j) \in Seq(Nat)
      /\ Len(Append(handed, j)) = Len(handed) + 1
      /\ \A i \in 1..Len(handed) : Append(handed, j)[i] = handed[i]
      /\ Append(handed, j)[Len(handed) + 1] = j
  BY <1>1, AppendProperties
<1>3. ASSUME NEW i \in 1..Len(Append(handed, j)) PROVE Append(handed, j)[i] \in 1..Known
  <2>1. CASE i = Len(handed) + 1
    BY <1>2, <2>1
  <2>2. CASE i # Len(handed) + 1
    <3>1. i \in 1..Len(handed)
      BY <1>1, <1>2, <2>2
    <3> QED BY <1>2, <3>1 DEF SlotInv
  <2> QED BY <2>1, <2>2
<1> QED BY <1>2, <1>3

LEMMA TakeAtBottom ==
  ASSUME D!DequeAssumption, DequeInv, age.top < D!Bottom,
         D!Inside' = Segment(deq, age.top, D!Bottom - 1),
         handed' = Append(handed, deq[D!Bottom - 1])
  PROVE  D!Abstract!Take
<1>1. /\ q_size \in Nat /\ deq \in [0..q_size - 1 -> Nat] /\ age.top \in Nat
      /\ D!Bottom \in 0..q_size
  <2>1. D!Bottom \in 0..q_size
    BY BottomType
  <2>2. q_size \in Nat /\ deq \in [0..q_size - 1 -> Nat] /\ age \in AnyAge
    BY DEF DequeInv, DequeTypes, D!DequeAssumption
  <2> QED BY <2>1, <2>2 DEF AnyAge
<1>2. /\ D!Inside # << >>
      /\ D!Front(D!Inside) = Segment(deq, age.top, D!Bottom - 1)
      /\ D!Last(D!Inside) = deq[D!Bottom - 1]
  BY <1>1, SegmentFront, InsideIsSegment
<1>3. D!Abstract!Front(D!Inside) = D!Front(D!Inside) /\ D!Abstract!Last(D!Inside) = D!Last(D!Inside)
  BY DEF D!Front, D!Last, D!Abstract!Front, D!Abstract!Last
<1> QED BY <1>2, <1>3 DEF D!Abstract!Take

LEMMA TakeAtTop ==
  ASSUME D!DequeAssumption, DequeInv, age.top < D!Bottom,
         D!Inside' = Segment(deq, age.top + 1, D!Bottom),
         handed' = Append(handed, deq[age.top])
  PROVE  D!Abstract!Take
<1>1. /\ q_size \in Nat /\ deq \in [0..q_size - 1 -> Nat] /\ age.top \in Nat
      /\ D!Bottom \in 0..q_size
  <2>1. D!Bottom \in 0..q_size
    BY BottomType
  <2>2. q_size \in Nat /\ deq \in [0..q_size - 1 -> Nat] /\ age \in AnyAge
    BY DEF DequeInv, DequeTypes, D!DequeAssumption
  <2> QED BY <2>1, <2>2 DEF AnyAge
<1>2. /\ D!Inside # << >>
      /\ Tail(D!Inside) = Segment(deq, age.top + 1, D!Bottom)
      /\ Head(D!Inside) = deq[age.top]
  BY <1>1, SegmentTail, InsideIsSegment
<1> QED BY <1>2 DEF D!Abstract!Take

LEMMA LoadAgeStep ==
  ASSUME D!DequeAssumption, DequeInv, D!LoadAge
  PROVE  DequeInv' /\ (D!Abstract!Take \/ UNCHANGED <<D!Inside, handed>>)
<1>0. DequeTypes /\ OwnerInv /\ SlotInv /\ ThiefInv
  BY DEF DequeInv
<1>1. owner.at = "age" /\ UNCHANGED <<bot, age, deq, pushed, thief>>
  BY DEF D!LoadAge
<1>2. /\ q_size \in Nat /\ bot \in 0..q_size - 1 /\ age \in AnyAge /\ age.top \in Nat
      /\ bot = owner.local_bot /\ age.top <= bot + 1
      /\ D!Bottom = bot + 1 /\ Known = pushed /\ deq \in [0..q_size - 1 -> Nat]
      /\ owner \in [at : {"idle", "publish", "age", "reset", "cas", "store", "aborted"},
                    local_bot : 0..q_size - 1, old_age : AnyAge]
  BY <1>0, <1>1 DEF DequeTypes, AnyAge, OwnerInv, Known, D!Bottom, D!DequeAssumption
<1>3. CASE owner.local_bot > age.top
  <2>1. /\ owner' = [owner EXCEPT !.at = "idle"] /\ handed' = Append(handed, deq[bot])
        /\ owner'.at = "idle"
    BY <1>2, <1>3 DEF D!LoadAge
  <2>2. deq[bot] \in 1..Known
    <3>1. bot \in age.top..D!Bottom - 1
      BY <1>2, <1>3
    <3> QED BY <1>0, <3>1 DEF SlotInv
  <2>3. Known' = Known /\ D!Bottom' = bot /\ D!Bottom - 1 = bot
    BY <1>1, <1>2, <2>1 DEF Known, D!Bottom
  <2>4. /\ handed' \in Seq(Nat)
        /\ \A i \in 1..Len(handed') : handed'[i] \in 1..Known'
    BY <1>0, <2>1, <2>2, <2>3, HandOut
  <2>5. DequeTypes'
    BY <1>0, <1>1, <2>1, <2>4 DEF DequeTypes
  <2>6. OwnerInv'
    BY <1>1, <1>2, <1>3, <2>1 DEF OwnerInv
  <2>7. SlotInv'
    <3>1. \A i \in age.top..bot - 1 : i \in age.top..D!Bottom - 1
      BY <1>2
    <3>2. \A i \in age.top..bot - 1 : deq[i] \in 1..Known
      BY <1>0, <3>1 DEF SlotInv
    <3> QED BY <1>1, <2>1, <2>3, <2>4, <3>2 DEF SlotInv
  <2>8. ThiefInv'
    BY <1>0, <1>1, <1>2, <1>3, <2>3 DEF ThiefInv, NotAfter
  <2>9. D!Abstract!Take
    <3>1. D!Inside' = Segment(deq, age.top, D!Bottom - 1)
      BY <1>1, <2>3 DEF D!Inside, Segment
    <3> QED BY <1>2, <1>3, <2>1, <2>3, <3>1, TakeAtBottom
  <2> QED BY <2>5, <2>6, <2>7, <2>8, <2>9 DEF DequeInv
<1>4. CASE ~(owner.local_bot > age.top)
  <2>1. /\ owner' = [owner EXCEPT !.at = "reset", !.old_age = age]
        /\ handed' = handed
    BY <1>4 DEF D!LoadAge
  <2>2. owner'.at = "reset" /\ owner'.local_bot = bot /\ owner'.old_age = age
    BY <1>2, <2>1
  <2>3. DequeTypes'
    BY <1>0, <1>1, <1>2, <2>1 DEF DequeTypes
  <2>4. Known' = Known /\ D!Bottom' = D!Bottom
    BY <1>1, <1>2, <2>2 DEF Known, D!Bottom
  <2>5. OwnerInv'
    BY <1>1, <1>2, <1>4, <2>2 DEF OwnerInv
  <2>6. SlotInv' /\ ThiefInv'
    BY <1>0, <1>1, <2>1, <2>2, <2>4 DEF SlotInv, ThiefInv, NotAfter
  <2>7. D!Inside' = D!Inside
    BY <1>1, <2>4 DEF D!Inside
  <2> QED BY <2>1, <2>3, <2>5, <2>6, <2>7 DEF DequeInv
<1> QED BY <1>3, <1>4

\* The compare-and-swap succeeds when no thief took the last job; when it
\* fails one did, since only top can have moved.
LEMMA RaceForLastStep ==
  ASSUME D!DequeAssumption, DequeInv, D!RaceForLast
  PROVE  DequeInv' /\ (D!Abstract!Take \/ UNCHANGED <<D!Inside, handed>>)
<1>0. DequeTypes /\ OwnerInv /\ SlotInv /\ ThiefInv
  BY DEF DequeInv
<1>1. owner.at = "cas" /\ UNCHANGED <<bot, deq, pushed, thief>>
  BY DEF D!RaceForLast
<1>2. /\ q_size \in Nat /\ bot = 0 /\ age \in AnyAge /\ owner.old_age \in AnyAge
      /\ owner.local_bot \in 0..q_size - 1 /\ age.tag \in Nat /\ age.top \in 0..q_size
      /\ owner.local_bot = owner.old_age.top /\ owner.old_age.tag = age.tag
      /\ owner.local_bot <= age.top /\ age.top <= owner.local_bot + 1
      /\ D!Bottom = owner.local_bot + 1 /\ Known = pushed /\ deq \in [0..q_size - 1 -> Nat]
      /\ owner \in [at : {"idle", "publish", "age", "reset", "cas", "store", "aborted"},
                    local_bot : 0..q_size - 1, old_age : AnyAge]
  BY <1>0, <1>1 DEF DequeTypes, AnyAge, OwnerInv, Known, D!Bottom, D!DequeAssumption
<1>3. CASE age = owner.old_age
  <2>1. /\ age' = D!NewAge /\ handed' = Append(handed, deq[owner.local_bot])
        /\ owner' = [owner EXCEPT !.at = "idle"] /\ owner'.at = "idle"
    BY <1>2, <1>3 DEF D!RaceForLast
  <2>2. age' \in AnyAge /\ age'.tag = age.tag + 1 /\ age'.top = 0
    BY <1>0, <1>2, <2>1, NewAgeIsLater
  <2>3. age.top = owner.local_bot /\ D!Bottom - 1 = owner.local_bot /\ age.top < D!Bottom
    BY <1>2, <1>3
  <2>4. deq[owner.local_bot] \in 1..Known
    <3>1. owner.local_bot \in age.top..D!Bottom - 1
      BY <1>2, <2>3
    <3> QED BY <1>0, <3>1 DEF SlotInv
  <2>5. Known' = Known /\ D!Bottom' = 0
    BY <1>1, <1>2, <2>1 DEF Known, D!Bottom
  <2>6. /\ handed' \in Seq(Nat)
        /\ \A i \in 1..Len(handed') : handed'[i] \in 1..Known'
    BY <1>0, <2>1, <2>4, <2>5, HandOut
  <2>7. DequeTypes'
    BY <1>0, <1>1, <2>1, <2>2, <2>6 DEF DequeTypes
  <2>8. OwnerInv'
    BY <1>1, <1>2, <2>1, <2>2 DEF OwnerInv
  <2>9. SlotInv'
    BY <1>1, <2>1, <2>2, <2>5, <2>6 DEF SlotInv
  <2>10. ThiefInv'
    <3>1. age.tag < age'.tag
      BY <1>2, <2>2
    <3> QED BY <1>0, <1>1, <2>7, <3>1, ThievesBehind
  <2>11. D!Abstract!Take
    <3>1. /\ Segment(deq, age.top, D!Bottom - 1) = << >>
          /\ Segment(deq, 0, 0) = << >>
      <4>1. /\ 0 \in Nat /\ 0 \in 0..q_size /\ D!Bottom - 1 \in 0..q_size
            /\ age.top \in Nat /\ D!Bottom - 1 <= age.top /\ 0 <= 0
        BY <1>2, <2>3
      <4> QED BY <1>2, <4>1, SegmentEmpty
    <3>2. D!Inside' = Segment(deq, 0, 0)
      BY <1>1, <2>2, <2>5 DEF D!Inside, Segment
    <3>3. D!Inside' = Segment(deq, age.top, D!Bottom - 1)
      BY <3>1, <3>2
    <3>4. handed' = Append(handed, deq[D!Bottom - 1])
      BY <2>1, <2>3
    <3> QED BY <2>3, <3>3, <3>4, TakeAtBottom
  <2> QED BY <2>7, <2>8, <2>9, <2>10, <2>11 DEF DequeInv
<1>4. CASE age # owner.old_age
  <2>1. /\ owner' = [owner EXCEPT !.at = "store"] /\ owner'.at = "store"
        /\ owner'.old_age = owner.old_age /\ UNCHANGED <<age, handed>>
    BY <1>2, <1>4 DEF D!RaceForLast
  <2>2. age.top = D!Bottom
    <3>1. age.top # owner.old_age.top
      BY <1>2, <1>4, AgeOrder
    <3> QED BY <1>2, <3>1, SMTT(30)
  <2>3. Known' = Known /\ D!Bottom' = 0
    BY <1>1, <1>2, <2>1 DEF Known, D!Bottom
  <2>4. DequeTypes'
    BY <1>0, <1>1, <2>1 DEF DequeTypes
  <2>5. OwnerInv'
    BY <1>1, <1>2, <2>1 DEF OwnerInv
  <2>6. SlotInv'
    <3>1. \A i \in age.top..0 - 1 : FALSE
      BY <1>2
    <3> QED BY <1>0, <1>1, <2>1, <2>3, <3>1 DEF SlotInv
  <2>7. ThiefInv'
    <3>1. ~(age.top < D!Bottom)
      BY <1>2, <2>2
    <3> QED BY <1>0, <1>1, <2>1, <3>1 DEF ThiefInv, NotAfter
  <2>8. D!Inside' = D!Inside
    <3>1. /\ Segment(deq, age.top, D!Bottom) = << >>
          /\ Segment(deq, age.top, 0) = << >>
      <4>1. /\ age.top \in Nat /\ 0 \in 0..q_size /\ D!Bottom \in 0..q_size
            /\ D!Bottom <= age.top /\ 0 <= age.top
        BY <1>2, <2>2
      <4> QED BY <1>2, <4>1, SegmentEmpty
    <3> QED BY <1>1, <2>1, <2>3, <3>1 DEF D!Inside, Segment
  <2> QED BY <2>1, <2>4, <2>5, <2>6, <2>7, <2>8 DEF DequeInv
<1> QED BY <1>3, <1>4

LEMMA StealStep ==
  ASSUME D!DequeAssumption, DequeInv, NEW t \in Worker, D!Steal(t)
  PROVE  DequeInv' /\ (D!Abstract!Take \/ UNCHANGED <<D!Inside, handed>>)
<1>0. DequeTypes /\ OwnerInv /\ SlotInv /\ ThiefInv
  BY DEF DequeInv
<1>1. /\ thief[t].at = "cas" /\ thief' = [thief EXCEPT ![t].at = "idle"]
      /\ UNCHANGED <<bot, deq, pushed, owner>>
  BY DEF D!Steal
<1>2. /\ thief'[t].at = "idle" /\ thief'[t].old_age = thief[t].old_age
      /\ \A u \in Worker : u # t => thief'[u] = thief[u]
      /\ \A u \in Worker : thief'[u].old_age = thief[u].old_age
      /\ thief' \in [Worker -> [at : {"idle", "bot", "job", "cas"},
                               old_age : AnyAge, job : Nat]]
  BY <1>0, <1>1 DEF DequeTypes
<1>3. Known' = Known /\ D!Bottom' = D!Bottom
  BY <1>1 DEF Known, D!Bottom
<1>4. CASE age = thief[t].old_age
  <2>1. age' = [age EXCEPT !.top = @ + 1] /\ handed' = Append(handed, thief[t].job)
    BY <1>4 DEF D!Steal
  <2>2. /\ q_size \in Nat /\ D!Bottom \in 0..q_size /\ age \in AnyAge /\ age.tag \in Nat
        /\ age.top \in Nat /\ age.top < D!Bottom /\ thief[t].job = deq[age.top]
    <3>1. age \in AnyAge /\ D!Bottom \in 0..q_size
      BY <1>0, BottomType DEF DequeTypes
    <3>2. age.top < D!Bottom /\ thief[t].job = deq[age.top]
      BY <1>0, <1>1, <1>4 DEF ThiefInv
    <3>3. age.tag \in Nat /\ age.top \in Nat
      BY <3>1 DEF AnyAge
    <3> QED BY <3>1, <3>2, <3>3 DEF D!DequeAssumption
  <2>3. age' \in AnyAge /\ age'.tag = age.tag /\ age'.top = age.top + 1
    BY <2>1, <2>2 DEF AnyAge
  <2>4. deq[age.top] \in 1..Known
    <3>1. age.top \in age.top..D!Bottom - 1
      BY <2>2
    <3> QED BY <1>0, <3>1 DEF SlotInv
  <2>5. /\ handed' \in Seq(Nat)
        /\ \A i \in 1..Len(handed') : handed'[i] \in 1..Known'
    BY <1>0, <1>3, <2>1, <2>2, <2>4, HandOut
  <2>6. DequeTypes'
    BY <1>0, <1>1, <1>2, <2>3, <2>5 DEF DequeTypes
  <2>7. OwnerInv'
    <3>1. /\ bot \in Nat /\ owner.local_bot \in Nat /\ owner.old_age.top \in Nat
          /\ owner.at \in {"idle", "publish", "age", "reset", "cas", "store", "aborted"}
      BY <1>0 DEF DequeTypes, AnyAge, D!DequeAssumption
    <3>2. CASE owner.at \in {"idle", "publish", "aborted"}
      <4>1. D!Bottom = bot
        BY <3>2 DEF D!Bottom
      <4> QED BY <1>1, <2>2, <2>3, <3>1, <3>2, <4>1 DEF OwnerInv
    <3>3. CASE owner.at \in {"age", "reset", "cas"}
      <4>1. D!Bottom = owner.local_bot + 1
        BY <3>3 DEF D!Bottom
      <4>2. age'.top <= owner.local_bot + 1 /\ age.top <= age'.top
        BY <2>2, <2>3, <3>1, <4>1
      <4> QED BY <1>0, <1>1, <2>2, <2>3, <3>1, <3>3, <4>2 DEF OwnerInv
    <3>4. CASE owner.at = "store"
      BY <2>2, <3>4 DEF D!Bottom
    <3> QED BY <3>1, <3>2, <3>3, <3>4
  <2>8. SlotInv'
    <3>1. \A i \in age.top + 1..D!Bottom - 1 : deq[i] \in 1..Known
      BY <1>0, <2>2 DEF SlotInv
    <3> QED BY <1>0, <1>1, <1>3, <2>3, <2>5, <3>1 DEF SlotInv
  <2>9. ThiefInv'
    <3> SUFFICES ASSUME NEW u \in Worker
                 PROVE  /\ NotAfter(thief[u].old_age, age')
                        /\ thief'[u].at = "job" => thief[u].old_age.top < q_size
                        /\ thief[u].old_age # age'
      BY <1>2 DEF ThiefInv
    <3>1. /\ thief[u].old_age \in AnyAge /\ NotAfter(thief[u].old_age, age)
          /\ thief'[u].at = "job" => thief[u].old_age.top < q_size
      BY <1>0, <1>2 DEF DequeTypes, ThiefInv
    <3>2. \A x \in AnyAge : x.tag \in Nat /\ x.top \in Nat
      BY <2>2 DEF AnyAge
    <3> QED BY <2>2, <2>3, <3>1, <3>2 DEF NotAfter
  <2>10. D!Abstract!Take
    <3>1. D!Inside' = Segment(deq, age.top + 1, D!Bottom)
      BY <1>1, <1>3, <2>3 DEF D!Inside, Segment
    <3> QED BY <2>1, <2>2, <3>1, TakeAtTop
  <2> QED BY <2>6, <2>7, <2>8, <2>9, <2>10 DEF DequeInv
<1>5. CASE age # thief[t].old_age
  <2>1. UNCHANGED <<age, handed>>
    BY <1>5 DEF D!Steal
  <2>2. DequeTypes'
    BY <1>0, <1>1, <1>2, <2>1 DEF DequeTypes
  <2>3. OwnerInv' /\ SlotInv'
    BY <1>0, <1>1, <1>3, <2>1 DEF OwnerInv, SlotInv
  <2>4. ThiefInv'
    BY <1>0, <1>1, <1>2, <1>3, <2>1 DEF ThiefInv
  <2>5. D!Inside' = D!Inside
    BY <1>1, <1>3, <2>1 DEF D!Inside
  <2> QED BY <2>1, <2>2, <2>3, <2>4, <2>5 DEF DequeInv
<1> QED BY <1>4, <1>5

-----------------------------------------------------------------------------
(* The refinement, step by step. *)

LEMMA DequeInitImplements ==
  ASSUME D!DequeAssumption, D!Init
  PROVE  DequeInv /\ D!Abstract!Init
<1>1. DequeInv
  BY DequeInitInv
<1>2. age.top = 0 /\ D!Bottom = 0 /\ handed = << >>
  BY DEF D!Init, D!Bottom
<1>3. D!Inside = << >>
  <2>1. q_size \in Nat /\ deq \in [0..q_size - 1 -> Nat] /\ 0 \in 0..q_size
    BY <1>1 DEF DequeInv, DequeTypes, D!DequeAssumption
  <2> QED BY <1>2, <2>1, SegmentEmpty, InsideIsSegment
<1> QED BY <1>1, <1>2, <1>3 DEF D!Abstract!Init

LEMMA DequeStepImplements ==
  ASSUME D!DequeAssumption, DequeInv, [D!Next]_D!vars
  PROVE  DequeInv' /\ [D!Abstract!Next]_<<D!Inside, handed>>
<1>1. CASE D!Owner
  BY <1>1, StoreJobStep, PublishJobStep, LowerBotStep, LoadAgeStep, ResetBotStep,
     RaceForLastStep, StoreAgeStep
  DEF D!Owner, D!Abstract!Next
<1>2. ASSUME NEW t \in Worker, D!ReadAge(t) \/ D!ReadBot(t) \/ D!ReadJob(t) \/ D!Steal(t)
      PROVE  DequeInv' /\ [D!Abstract!Next]_<<D!Inside, handed>>
  BY <1>2, ThiefLooksStep, StealStep DEF D!Abstract!Next
<1>3. CASE UNCHANGED D!vars
  BY <1>3 DEF D!vars, DequeInv, DequeTypes, OwnerInv, SlotInv, ThiefInv, NotAfter, Known, D!Bottom, D!Inside
<1> QED BY <1>1, <1>2, <1>3 DEF D!Next

(***************************************************************************)
(* push_bottom, pop_bottom and pop_top implement JobDeque: whatever steps  *)
(* the owner and the thieves interleave, a job is handed out once, to the  *)
(* owner from the bottom or to a thief from the top.                       *)
(***************************************************************************)
THEOREM DequeImplementsJobDeque ==
  ASSUME D!DequeAssumption
  PROVE  D!Spec => D!ImplementsJobDeque
BY DequeInitImplements, DequeStepImplements, PTL DEF D!Spec, D!ImplementsJobDeque, D!Abstract!Spec

-----------------------------------------------------------------------------
(* The block allocator. *)

CONSTANTS list_length, max_blocks
VARIABLES next, local_lists, global_stack, allocated, used

BA == INSTANCE BlockAllocator

\* The instance's own cardinalities.
LEMMA SameSizes ==
  \A X : /\ BA!IsFiniteSet(X) <=> IsFiniteSet(X)
         /\ BA!Cardinality(X) = Cardinality(X)
<1>1. \A X : BA!IsFiniteSet(X) <=> IsFiniteSet(X)
  BY DEF BA!IsFiniteSet, IsFiniteSet
<1>2. \A X : BA!Cardinality(X) = Cardinality(X)
  BY DEF BA!Cardinality, Cardinality
<1> QED BY <1>1, <1>2

(***************************************************************************)
(* The inductive invariant gives every free list a name, a number, and     *)
(* numbers its blocks from its end to its head, so that what a push or a   *)
(* pop leaves alone keeps its place: F[s][k] is the k-th of the len[s]     *)
(* blocks of list s.  The links follow that order and no block has two     *)
(* places (Chained).  Which lists there are, how long they are, where they *)
(* begin and where a long one will be cut is what the workers and the      *)
(* global stack have noted (Named); M[w] and N[i] are the names.           *)
(***************************************************************************)
Held(F, len, al, us) == \A s \in Nat : \A k \in 1..len[s] : F[s][k] \in al \ us

Follow(F, len, nx) == \A s \in Nat : \A k \in 2..len[s] : nx[F[s][k]] = F[s][k - 1]

Once(F, len) == \A s, t \in Nat : \A k \in 1..len[s], l \in 1..len[t] :
                  F[s][k] = F[t][l] => s = t /\ k = l

Covers(F, len, al, us) == \A b \in al \ us : \E s \in Nat : \E k \in 1..len[s] : F[s][k] = b

Chained(F, len, nx, al, us) ==
  /\ len \in [Nat -> Nat]
  /\ Held(F, len, al, us) /\ Follow(F, len, nx) /\ Once(F, len) /\ Covers(F, len, al, us)

Noted(F, len, s, l) ==
  /\ l.sz = len[s]
  /\ len[s] > 0 => l.head = F[s][len[s]]
  /\ len[s] >= list_length + 2 => l.mid = F[s][list_length + 1]

Distinct(M, N, m, n) ==
  /\ \A w \in Worker : M[w] \in 1..m
  /\ \A i \in 1..n : N[i] \in 1..m
  /\ \A v, w \in Worker : M[v] = M[w] => v = w
  /\ \A i, j \in 1..n : N[i] = N[j] => i = j
  /\ \A w \in Worker : \A i \in 1..n : M[w] # N[i]

Named(M, N, m, F, len, ll, gs) ==
  /\ m \in Nat /\ Len(gs) \in Nat /\ Distinct(M, N, m, Len(gs))
  /\ \A s \in Nat : len[s] # 0 => \/ \E w \in Worker : s = M[w]
                                  \/ \E i \in 1..Len(gs) : s = N[i]
  /\ \A w \in Worker : Noted(F, len, M[w], ll[w])
  /\ \A i \in 1..Len(gs) : len[N[i]] = list_length /\ gs[i] = F[N[i]][list_length]

Shape(nx, ll, gs, al, us) ==
  /\ nx \in [BA!Block -> BA!Pointer]
  /\ ll \in [Worker -> [sz : 0..2 * list_length, head : BA!Pointer, mid : BA!Pointer]]
  /\ gs \in Seq(BA!Block)
  /\ us \subseteq al
  /\ \E n \in 0..max_blocks : al = 1..n

Arranged(nx, ll, gs, al, us) ==
  \E F, len, M, N, m : Chained(F, len, nx, al, us) /\ Named(M, N, m, F, len, ll, gs)

AllocInv ==
  /\ Shape(next, local_lists, global_stack, allocated, used)
  /\ Arranged(next, local_lists, global_stack, allocated, used)

\* The links of the blocks S, and the lists of the workers but w, stay.
SameLinks(nx, nx2, S) == \A b \in S : nx2[b] = nx[b]
SameLists(ll, ll2, w) == \A v \in Worker : v # w => ll2[v] = ll[v]

\* New blocks: each of the n after c is linked to the next.
Row(nx, c, n) == \A j \in 1..n - 1 : nx[c + j] = c + j + 1

LEMMA Lengths == ASSUME BA!BlockAssumption
  PROVE  /\ list_length \in Nat /\ list_length >= 2 /\ max_blocks \in Nat
         /\ IsFiniteSet(Worker)
BY SameSizes DEF BA!BlockAssumption

-----------------------------------------------------------------------------
(* What alloc and free do to one list, as far as the blocks go. *)

\* The list s with block p at its head.
Pushed(F, len, s, p) ==
  [t \in Nat |-> IF t = s THEN [k \in 1..len[s] + 1 |-> IF k > len[s] THEN p ELSE F[s][k]]
                 ELSE F[t]]

\* A block is in one place of one list.
LEMMA Apart ==
  ASSUME NEW F, NEW len, Once(F, len), NEW s \in Nat, NEW t \in Nat,
         NEW k \in 1..len[s], NEW l \in 1..len[t], F[s][k] = F[t][l]
  PROVE  s = t /\ k = l
BY Zenon DEF Once

LEMMA PushChain ==
  ASSUME NEW F, NEW len, NEW nx, NEW al, NEW us, Chained(F, len, nx, al, us),
         NEW s \in Nat, NEW p \in us, us \subseteq al, NEW nx2,
         SameLinks(nx, nx2, al \ us),
         len[s] > 0 => nx2[p] = F[s][len[s]],
         NEW len2, len2 = [len EXCEPT ![s] = @ + 1]
  PROVE  Chained(Pushed(F, len, s, p), len2, nx2, al, us \ {p})
<1> DEFINE F2 == Pushed(F, len, s, p)
<1> HIDE DEF F2
<1>0. /\ len \in [Nat -> Nat] /\ len[s] \in Nat
      /\ Held(F, len, al, us) /\ Follow(F, len, nx) /\ Once(F, len) /\ Covers(F, len, al, us)
  BY DEF Chained
<1>1. /\ len2 \in [Nat -> Nat] /\ len2[s] = len[s] + 1
      /\ \A t \in Nat : t # s => len2[t] = len[t]
  BY <1>0
<1>2. /\ \A t \in Nat : t # s => F2[t] = F[t]
      /\ F2[s][len[s] + 1] = p
      /\ \A k \in 1..len[s] : F2[s][k] = F[s][k]
  <2>1. F2[s] = [k \in 1..len[s] + 1 |-> IF k > len[s] THEN p ELSE F[s][k]]
    BY DEF F2, Pushed
  <2>2. \A k \in 1..len[s] : k \in 1..len[s] + 1 /\ ~ (k > len[s])
    BY <1>0
  <2>3. len[s] + 1 \in 1..len[s] + 1 /\ len[s] + 1 > len[s]
    BY <1>0
  <2>4. \A t \in Nat : t # s => F2[t] = F[t]
    BY DEF F2, Pushed
  <2> QED BY <2>1, <2>2, <2>3, <2>4
<1>3. \A k : k \in 1..len2[s] <=> k \in 1..len[s] \/ k = len[s] + 1
  BY <1>0, <1>1
<1>4. \A t \in Nat : \A k \in 1..len2[t] :
        \/ k \in 1..len[t] /\ F2[t][k] = F[t][k]
        \/ t = s /\ k = len[s] + 1 /\ F2[t][k] = p
  BY <1>0, <1>1, <1>2, <1>3
<1>5. \A t \in Nat : \A k \in 1..len[t] : F2[t][k] = F[t][k] /\ k \in 1..len2[t]
  <2> TAKE t \in Nat
  <2>1. CASE t = s
    BY <1>2, <1>3, <2>1
  <2>2. CASE t # s
    BY <1>1, <1>2, <2>2
  <2> QED BY <2>1, <2>2
<1>6. \A t \in Nat : \A k \in 1..len2[t] : F2[t][k] \in al \ (us \ {p})
  <2> TAKE t \in Nat
  <2> TAKE k \in 1..len2[t]
  <2>1. CASE k \in 1..len[t] /\ F2[t][k] = F[t][k]
    BY <1>0, <2>1 DEF Held
  <2>2. CASE F2[t][k] = p
    BY <2>2
  <2> QED BY <1>4, <2>1, <2>2
<1>7. ASSUME NEW t \in Nat, NEW k \in 2..len2[t] PROVE nx2[F2[t][k]] = F2[t][k - 1]
  <2>1. CASE k \in 2..len[t]
    <3>1. k \in 1..len[t] /\ k - 1 \in 1..len[t]
      BY <1>0, <2>1
    <3>2. nx[F[t][k]] = F[t][k - 1] /\ F[t][k] \in al \ us
      BY <1>0, <2>1, <3>1 DEF Held, Follow
    <3> QED BY <1>5, <3>1, <3>2 DEF SameLinks
  <2>2. CASE t = s /\ k = len[s] + 1
    <3>1. len[s] \in 1..len[s] /\ k - 1 = len[s] /\ len[s] > 0
      BY <1>0, <2>2
    <3> QED BY <1>2, <2>2, <3>1
  <2>3. t # s => k \in 2..len[t]
    BY <1>1
  <2>4. t = s => k \in 2..len[s] \/ k = len[s] + 1
    BY <1>0, <1>1
  <2> QED BY <2>1, <2>2, <2>3, <2>4
<1>8. \A t, u \in Nat : \A k \in 1..len2[t], l \in 1..len2[u] :
        F2[t][k] = F2[u][l] => t = u /\ k = l
  <2> SUFFICES ASSUME NEW t \in Nat, NEW u \in Nat, NEW k \in 1..len2[t], NEW l \in 1..len2[u],
                      F2[t][k] = F2[u][l]
               PROVE  t = u /\ k = l
    OBVIOUS
  <2>1. \A v \in Nat : \A i \in 1..len[v] : F[v][i] # p
    BY <1>0 DEF Held
  <2>2. CASE k \in 1..len[t] /\ F2[t][k] = F[t][k]
    <3>1. F2[t][k] # p
      BY <2>1, <2>2
    <3>2. l \in 1..len[u] /\ F2[u][l] = F[u][l]
      BY <1>4, <3>1
    <3>3. F[t][k] = F[u][l]
      BY <2>2, <3>2
    <3> QED BY <1>0, <2>2, <3>2, <3>3 DEF Once
  <2>3. CASE t = s /\ k = len[s] + 1 /\ F2[t][k] = p
    BY <1>4, <2>1, <2>3
  <2> QED BY <1>4, <2>2, <2>3
<1>9. ASSUME NEW b \in al \ (us \ {p})
      PROVE  \E t \in Nat : \E k \in 1..len2[t] : F2[t][k] = b
  <2>1. CASE b = p
    BY <1>2, <1>3, <2>1
  <2>2. CASE b # p
    BY <1>0, <1>5, <2>2 DEF Covers
  <2> QED BY <2>1, <2>2
<1>10. /\ Held(F2, len2, al, us \ {p}) /\ Follow(F2, len2, nx2)
       /\ Once(F2, len2) /\ Covers(F2, len2, al, us \ {p})
  BY <1>6, <1>7, <1>8, <1>9 DEF Held, Follow, Once, Covers
<1> QED BY <1>1, <1>10 DEF Chained, F2

\* The head of s leaves it.
LEMMA PopChain ==
  ASSUME NEW F, NEW len, NEW nx, NEW al, NEW us, Chained(F, len, nx, al, us),
         NEW s \in Nat, len[s] > 0, NEW nx2,
         SameLinks(nx, nx2, (al \ us) \ {F[s][len[s]]}),
         NEW len2, len2 = [len EXCEPT ![s] = @ - 1]
  PROVE  Chained(F, len2, nx2, al, us \cup {F[s][len[s]]})
<1> DEFINE p == F[s][len[s]]
<1>0. /\ len \in [Nat -> Nat] /\ len[s] \in Nat
      /\ Held(F, len, al, us) /\ Follow(F, len, nx) /\ Once(F, len) /\ Covers(F, len, al, us)
  BY DEF Chained
<1>1. /\ len2 \in [Nat -> Nat] /\ len2[s] = len[s] - 1
      /\ \A t \in Nat : t # s => len2[t] = len[t]
  BY <1>0
<1>2. \A t \in Nat : \A k : k \in 1..len2[t] <=> k \in 1..len[t] /\ ~ (t = s /\ k = len[s])
  BY <1>0, <1>1
<1>3. \A t \in Nat : \A k \in 1..len2[t] : F[t][k] # F[s][len[s]]
  <2>1. \A t \in Nat : \A k \in 1..len2[t] : k \in 1..len[t] /\ ~ (t = s /\ k = len[s])
    BY <1>2
  <2>2. len[s] \in 1..len[s]
    BY <1>0
  <2> QED BY <1>0, <2>1, <2>2 DEF Once
<1>4. \A t \in Nat : \A k \in 1..len2[t] : F[t][k] \in al \ (us \cup {p})
  BY <1>0, <1>2, <1>3 DEF Held
<1>5. ASSUME NEW t \in Nat, NEW k \in 2..len2[t] PROVE nx2[F[t][k]] = F[t][k - 1]
  <2>1. k \in 1..len2[t] /\ k >= 2
    BY <1>1
  <2>2. k \in 1..len[t] /\ k \in 2..len[t]
    BY <1>0, <1>2, <2>1
  <2>3. nx[F[t][k]] = F[t][k - 1] /\ F[t][k] \in al \ us /\ F[t][k] # p
    BY <1>0, <1>3, <2>1, <2>2 DEF Held, Follow
  <2> QED BY <2>3 DEF SameLinks
<1>6. \A t, u \in Nat : \A k \in 1..len2[t], l \in 1..len2[u] :
        F[t][k] = F[u][l] => t = u /\ k = l
  <2> SUFFICES ASSUME NEW t \in Nat, NEW u \in Nat, NEW k \in 1..len2[t], NEW l \in 1..len2[u],
                      F[t][k] = F[u][l]
               PROVE  t = u /\ k = l
    OBVIOUS
  <2>1. k \in 1..len[t] /\ l \in 1..len[u]
    BY <1>2
  <2>2. Once(F, len)
    BY <1>0
  <2> QED BY <2>1, <2>2, Apart
<1>7. \A b \in al \ (us \cup {p}) : \E t \in Nat : \E k \in 1..len2[t] : F[t][k] = b
  BY <1>0, <1>2 DEF Covers
<1>8. /\ Held(F, len2, al, us \cup {p}) /\ Follow(F, len2, nx2)
      /\ Once(F, len2) /\ Covers(F, len2, al, us \cup {p})
  BY <1>4, <1>5, <1>6, <1>7 DEF Held, Follow, Once, Covers
<1> QED BY <1>1, <1>8 DEF Chained

\* The half of s below the middle becomes the list t.
Halved(F, s, t) ==
  [u \in Nat |-> IF u = s THEN [k \in 1..list_length |-> F[s][k + list_length]]
                 ELSE IF u = t THEN F[s] ELSE F[u]]

LEMMA CutChain ==
  ASSUME BA!BlockAssumption,
         NEW F, NEW len, NEW nx, NEW al, NEW us, Chained(F, len, nx, al, us),
         NEW s \in Nat, NEW t \in Nat, s # t, len[s] = 2 * list_length, len[t] = 0,
         NEW nx2, SameLinks(nx, nx2, (al \ us) \ {F[s][list_length + 1]})
  PROVE  Chained(Halved(F, s, t), [len EXCEPT ![s] = list_length, ![t] = list_length],
                 nx2, al, us)
<1> DEFINE L == list_length
           F2 == Halved(F, s, t)
           len2 == [len EXCEPT ![s] = L, ![t] = L]
           \* where the k-th block of list u was
           list(u) == IF u = t THEN s ELSE u
           at(u, k) == IF u = s THEN k + L ELSE k
<1> HIDE DEF F2, len2
<1>0. /\ len \in [Nat -> Nat] /\ L \in Nat /\ L >= 2
      /\ Held(F, len, al, us) /\ Follow(F, len, nx) /\ Once(F, len) /\ Covers(F, len, al, us)
  BY Lengths DEF Chained
<1>1. /\ len2 \in [Nat -> Nat] /\ len2[s] = L /\ len2[t] = L
      /\ \A u \in Nat : u # s /\ u # t => len2[u] = len[u]
  BY <1>0 DEF len2
<1>2. /\ \A u \in Nat : u # s /\ u # t => F2[u] = F[u]
      /\ F2[t] = F[s]
      /\ \A k \in 1..L : F2[s][k] = F[s][k + L]
  <2>1. F2[s] = [k \in 1..L |-> F[s][k + L]]
    BY DEF F2, Halved
  <2>2. F2[t] = F[s] /\ \A u \in Nat : u # s /\ u # t => F2[u] = F[u]
    BY DEF F2, Halved
  <2> QED BY <2>1, <2>2
<1>o. ASSUME NEW u \in Nat, NEW v \in Nat, NEW k \in 1..len[u], NEW l \in 1..len[v],
             F[u][k] = F[v][l]
      PROVE  u = v /\ k = l
  <2>1. Once(F, len)
    BY <1>0
  <2> QED BY <1>o, <2>1 DEF Once
<1>3. ASSUME NEW u \in Nat, NEW k \in 1..len2[u]
      PROVE  list(u) \in Nat /\ at(u, k) \in 1..len[list(u)] /\ F2[u][k] = F[list(u)][at(u, k)]
  <2>1. CASE u = s
    <3>1. k \in 1..L /\ k + L \in 1..2 * L
      BY <1>0, <1>1, <2>1
    <3> QED BY <1>2, <2>1, <3>1
  <2>2. CASE u = t
    <3>1. k \in 1..2 * L
      BY <1>0, <1>1, <2>2
    <3> QED BY <1>2, <2>2, <3>1
  <2>3. CASE u # s /\ u # t
    BY <1>1, <1>2, <2>3
  <2> QED BY <2>1, <2>2, <2>3
<1>4. Held(F2, len2, al, us)
  <2> SUFFICES ASSUME NEW u \in Nat, NEW k \in 1..len2[u] PROVE F2[u][k] \in al \ us
    BY DEF Held
  <2>1. list(u) \in Nat /\ at(u, k) \in 1..len[list(u)] /\ F2[u][k] = F[list(u)][at(u, k)]
    BY <1>3
  <2> HIDE DEF list, at
  <2> QED BY <1>0, <2>1 DEF Held
<1>5. ASSUME NEW u \in Nat, NEW v \in Nat, NEW k \in 1..len2[u], NEW l \in 1..len2[v],
             list(u) = list(v), at(u, k) = at(v, l)
      PROVE  u = v /\ k = l
  <2>1. k \in Int /\ l \in Int
    OBVIOUS
  <2>2. \A x \in {s, t} : len2[x] = L
    BY <1>1
  <2>3. CASE u = v
    BY <1>0, <1>5, <2>1, <2>3
  <2>4. CASE u = s /\ v = t
    BY <1>0, <1>5, <2>1, <2>2, <2>4
  <2>5. CASE u = t /\ v = s
    BY <1>0, <1>5, <2>1, <2>2, <2>5
  <2> QED BY <1>5, <2>3, <2>4, <2>5
<1>6. Once(F2, len2)
  <2> SUFFICES ASSUME NEW u \in Nat, NEW v \in Nat, NEW k \in 1..len2[u], NEW l \in 1..len2[v],
                      F2[u][k] = F2[v][l]
               PROVE  u = v /\ k = l
    BY DEF Once
  <2>1. list(u) \in Nat /\ at(u, k) \in 1..len[list(u)] /\ F2[u][k] = F[list(u)][at(u, k)]
    BY <1>3
  <2>2. list(v) \in Nat /\ at(v, l) \in 1..len[list(v)] /\ F2[v][l] = F[list(v)][at(v, l)]
    BY <1>3
  <2>3. list(u) = list(v) /\ at(u, k) = at(v, l)
    <3> HIDE DEF list, at
    <3>1. F[list(u)][at(u, k)] = F[list(v)][at(v, l)]
      BY <2>1, <2>2
    <3> QED BY <1>o, <2>1, <2>2, <3>1
  <2> QED BY <1>5, <2>3
<1>7. Follow(F2, len2, nx2)
  <2> SUFFICES ASSUME NEW u \in Nat, NEW k \in 2..len2[u] PROVE nx2[F2[u][k]] = F2[u][k - 1]
    BY DEF Follow
  <2>1. k \in 1..len2[u] /\ k - 1 \in 1..len2[u] /\ k \in Int /\ k >= 2
    BY <1>0, <1>1
  <2>2. /\ list(u) \in Nat /\ at(u, k) \in 1..len[list(u)] /\ F2[u][k] = F[list(u)][at(u, k)]
        /\ at(u, k - 1) \in 1..len[list(u)] /\ F2[u][k - 1] = F[list(u)][at(u, k - 1)]
    BY <1>3, <2>1
  <2>3. at(u, k - 1) = at(u, k) - 1 /\ at(u, k) \in Int
    BY <1>0, <2>1
  <2>4. ~ (list(u) = s /\ at(u, k) = L + 1)
    BY <1>0, <1>1, <2>1
  <2>5. L + 1 \in 1..len[s]
    BY <1>0
  <2> HIDE DEF list, at
  <2>6. at(u, k) \in 2..len[list(u)]
    BY <1>0, <2>2, <2>3
  <2>7. F[list(u)][at(u, k)] # F[s][L + 1]
    <3> SUFFICES ASSUME F[list(u)][at(u, k)] = F[s][L + 1] PROVE FALSE
      OBVIOUS
    <3>1. list(u) = s /\ at(u, k) = L + 1
      BY <1>o, <2>2, <2>5
    <3> QED BY <2>4, <3>1
  <2>8. nx2[F[list(u)][at(u, k)]] = nx[F[list(u)][at(u, k)]]
    BY <1>0, <2>2, <2>7 DEF Held, SameLinks
  <2> QED BY <1>0, <2>2, <2>3, <2>6, <2>8 DEF Follow
<1>8. Covers(F2, len2, al, us)
  <2> SUFFICES ASSUME NEW b \in al \ us
               PROVE  \E u \in Nat : \E k \in 1..len2[u] : F2[u][k] = b
    BY DEF Covers
  <2>1. PICK u \in Nat : \E k \in 1..len[u] : F[u][k] = b
    BY <1>0 DEF Covers
  <2>0. PICK k \in 1..len[u] : F[u][k] = b
    BY <2>1
  <2>2. CASE u # s
    <3>1. u # t
      BY <2>0
    <3> QED BY <1>1, <1>2, <2>0, <2>2, <3>1
  <2>3. CASE u = s /\ k <= L
    <3>1. k \in 1..len2[t] /\ F2[t][k] = b
      BY <1>0, <1>1, <1>2, <2>0, <2>3
    <3> QED BY <3>1
  <2>4. CASE u = s /\ ~ (k <= L)
    <3>1. k - L \in 1..L /\ k - L + L = k
      BY <1>0, <2>0, <2>4
    <3>2. k - L \in 1..len2[s] /\ F2[s][k - L] = b
      BY <1>1, <1>2, <2>0, <2>4, <3>1
    <3> QED BY <3>2
  <2> QED BY <2>2, <2>3, <2>4
<1> QED BY <1>1, <1>4, <1>6, <1>7, <1>8 DEF Chained, F2, len2

\* The list s of new blocks.
Filled(F, s, c) ==
  [u \in Nat |-> IF u = s THEN [k \in 1..list_length |-> c + list_length + 1 - k] ELSE F[u]]

LEMMA NewChain ==
  ASSUME BA!BlockAssumption,
         NEW F, NEW len, NEW nx, NEW al, NEW us, Chained(F, len, nx, al, us),
         NEW s \in Nat, len[s] = 0, NEW c \in Nat, al = 1..c, us \subseteq al, NEW nx2,
         SameLinks(nx, nx2, al),
         Row(nx2, c, list_length)
  PROVE  Chained(Filled(F, s, c), [len EXCEPT ![s] = list_length],
                 nx2, 1..c + list_length, us)
<1> DEFINE L == list_length
           F2 == Filled(F, s, c)
           len2 == [len EXCEPT ![s] = L]
<1> HIDE DEF F2, len2
<1>0. /\ len \in [Nat -> Nat] /\ L \in Nat /\ L >= 2
      /\ Held(F, len, al, us) /\ Follow(F, len, nx) /\ Once(F, len) /\ Covers(F, len, al, us)
  BY Lengths DEF Chained
<1>1. /\ len2 \in [Nat -> Nat] /\ len2[s] = L
      /\ \A u \in Nat : u # s => len2[u] = len[u]
  BY <1>0 DEF len2
<1>2. /\ \A u \in Nat : u # s => F2[u] = F[u]
      /\ \A k \in 1..L : F2[s][k] = c + L + 1 - k
  BY DEF F2, Filled
<1>3. \A k \in 1..L : /\ F2[s][k] \in (1..c + L) \ us /\ F2[s][k] \notin 1..c
                      /\ F2[s][k] = c + L + 1 - k
  <2> SUFFICES ASSUME NEW k \in 1..L
               PROVE  c + L + 1 - k \in 1..c + L /\ c + L + 1 - k \notin 1..c
    BY <1>2
  <2> QED BY <1>0
<1>4. \A u \in Nat : u # s => \A k \in 1..len2[u] :
        /\ F2[u][k] = F[u][k] /\ k \in 1..len[u] /\ F[u][k] \in 1..c
        /\ F2[u][k] \in (1..c + L) \ us
  <2>1. 1..c \subseteq 1..c + L
    BY <1>0
  <2> QED BY <1>0, <1>1, <1>2, <2>1 DEF Held
<1>5. Held(F2, len2, 1..c + L, us)
  BY <1>1, <1>3, <1>4 DEF Held
<1>6. Follow(F2, len2, nx2)
  <2> SUFFICES ASSUME NEW u \in Nat, NEW k \in 2..len2[u] PROVE nx2[F2[u][k]] = F2[u][k - 1]
    BY DEF Follow
  <2>1. CASE u = s
    <3>1. /\ k \in 1..L /\ k - 1 \in 1..L /\ L + 1 - k \in 1..L - 1
          /\ c + L + 1 - k = c + (L + 1 - k) /\ c + (L + 1 - k) + 1 = c + L + 1 - (k - 1)
      BY <1>0, <1>1, <2>1
    <3> QED BY <1>2, <2>1, <3>1 DEF Row
  <2>2. CASE u # s
    <3>1. k \in 2..len[u] /\ k \in 1..len[u] /\ k - 1 \in 1..len[u]
      <4>1. len2[u] = len[u] /\ len[u] \in Nat
        BY <1>0, <1>1, <2>2
      <4> QED BY <4>1
    <3>2. nx[F[u][k]] = F[u][k - 1] /\ F[u][k] \in al
      BY <1>0, <3>1 DEF Follow, Held
    <3> QED BY <1>2, <2>2, <3>1, <3>2 DEF SameLinks
  <2> QED BY <2>1, <2>2
<1>7. Once(F2, len2)
  <2> SUFFICES ASSUME NEW u \in Nat, NEW v \in Nat, NEW k \in 1..len2[u], NEW l \in 1..len2[v],
                      F2[u][k] = F2[v][l]
               PROVE  u = v /\ k = l
    BY DEF Once
  <2>1. CASE u = s /\ v = s
    <3>1. k \in 1..L /\ l \in 1..L /\ c + L + 1 - k = c + L + 1 - l
      <4>1. k \in 1..L /\ l \in 1..L /\ F2[s][k] = F2[s][l]
        BY <1>1, <2>1
      <4> QED BY <1>2, <4>1
    <3>2. k \in Int /\ l \in Int
      OBVIOUS
    <3>3. c \in Int /\ L \in Int
      BY <1>0
    <3>4. k = l
      BY <3>1, <3>2, <3>3
    <3> QED BY <2>1, <3>4
  <2>2. CASE u # s /\ v # s
    <3>1. k \in 1..len[u] /\ l \in 1..len[v] /\ F[u][k] = F[v][l]
      BY <1>4, <2>2
    <3>2. Once(F, len)
      BY <1>0
    <3> QED BY <3>1, <3>2, Apart
  <2>3. CASE u = s /\ v # s
    <3>1. F2[u][k] \notin 1..c
      BY <1>1, <1>3, <2>3
    <3>2. F2[v][l] \in 1..c
      BY <1>4, <2>3
    <3> QED BY <3>1, <3>2
  <2>4. CASE u # s /\ v = s
    <3>1. F2[u][k] \in 1..c
      BY <1>4, <2>4
    <3>2. F2[v][l] \notin 1..c
      BY <1>1, <1>3, <2>4
    <3> QED BY <3>1, <3>2
  <2> QED BY <2>1, <2>2, <2>3, <2>4
<1>8. Covers(F2, len2, 1..c + L, us)
  <2> SUFFICES ASSUME NEW b \in (1..c + L) \ us
               PROVE  \E u \in Nat : \E k \in 1..len2[u] : F2[u][k] = b
    BY DEF Covers
  <2>1. CASE b <= c
    <3>0. b \in al \ us
      BY <1>0, <2>1
    <3>1. PICK u \in Nat : \E k \in 1..len[u] : F[u][k] = b
      BY <1>0, <3>0 DEF Covers
    <3>2. PICK k \in 1..len[u] : F[u][k] = b
      BY <3>1
    <3>3. u # s
      BY <3>2
    <3> QED BY <1>1, <1>2, <3>2, <3>3
  <2>2. CASE ~ (b <= c)
    <3>1. c + L + 1 - b \in 1..L /\ c + L + 1 - (c + L + 1 - b) = b
      BY <1>0, <2>2
    <3>2. c + L + 1 - b \in 1..len2[s] /\ F2[s][c + L + 1 - b] = b
      BY <1>1, <1>2, <3>1
    <3> QED BY <3>2
  <2> QED BY <2>1, <2>2
<1> QED BY <1>1, <1>5, <1>6, <1>7, <1>8 DEF Chained, F2, len2

-----------------------------------------------------------------------------
(* The same for what the worker and the stack have noted. *)

\* A change to the list of worker w leaves the others as they are.
LEMMA OthersKeepNames ==
  ASSUME NEW M, NEW N, NEW m, NEW F, NEW len, NEW ll, NEW gs, Named(M, N, m, F, len, ll, gs),
         NEW w \in Worker, NEW F2, NEW len2, NEW ll2,
         \A t \in Nat : t # M[w] => F2[t] = F[t] /\ len2[t] = len[t],
         SameLists(ll, ll2, w),
         Noted(F2, len2, M[w], ll2[w])
  PROVE  Named(M, N, m, F2, len2, ll2, gs)
<1>1. /\ m \in Nat /\ Len(gs) \in Nat /\ Distinct(M, N, m, Len(gs))
  BY DEF Named
<1>2. /\ \A v \in Worker : M[v] \in Nat
      /\ \A i \in 1..Len(gs) : N[i] \in Nat /\ N[i] # M[w]
      /\ \A v \in Worker : v # w => M[v] # M[w]
  BY <1>1 DEF Distinct
<1>3. ASSUME NEW s \in Nat, len2[s] # 0
      PROVE  (\E v \in Worker : s = M[v]) \/ \E i \in 1..Len(gs) : s = N[i]
  <2>1. CASE s = M[w]
    BY <2>1
  <2>2. CASE s # M[w]
    <3>1. len[s] # 0
      BY <1>3, <2>2
    <3> QED BY <3>1 DEF Named
  <2> QED BY <2>1, <2>2
<1>4. ASSUME NEW v \in Worker PROVE Noted(F2, len2, M[v], ll2[v])
  <2>1. CASE v # w
    <3>1. Noted(F, len, M[v], ll[v])
      BY DEF Named
    <3>2. F2[M[v]] = F[M[v]] /\ len2[M[v]] = len[M[v]] /\ ll2[v] = ll[v]
      BY <1>2, <2>1 DEF SameLists
    <3> QED BY <3>1, <3>2 DEF Noted
  <2> QED BY <2>1
<1>5. ASSUME NEW i \in 1..Len(gs)
      PROVE  len2[N[i]] = list_length /\ gs[i] = F2[N[i]][list_length]
  <2>1. len[N[i]] = list_length /\ gs[i] = F[N[i]][list_length]
    BY DEF Named
  <2>2. F2[N[i]] = F[N[i]] /\ len2[N[i]] = len[N[i]]
    BY <1>2
  <2> QED BY <2>1, <2>2
<1> QED BY <1>1, <1>3, <1>4, <1>5 DEF Named

\* The free list of a worker whose own is given.
LEMMA OwnList ==
  ASSUME BA!BlockAssumption,
         NEW M, NEW N, NEW m, NEW F, NEW len, NEW nx, NEW ll, NEW gs, NEW al, NEW us,
         Chained(F, len, nx, al, us), Named(M, N, m, F, len, ll, gs), NEW w \in Worker
  PROVE  /\ M[w] \in Nat /\ M[w] <= m /\ m \in Nat
         /\ len[M[w]] \in Nat /\ ll[w].sz = len[M[w]]
         /\ len[M[w]] > 0 => ll[w].head = F[M[w]][len[M[w]]] /\ ll[w].head \in al \ us
         /\ len[M[w]] >= list_length + 2 => ll[w].mid = F[M[w]][list_length + 1]
         /\ len \in [Nat -> Nat]
<1>1. m \in Nat /\ Distinct(M, N, m, Len(gs)) /\ Noted(F, len, M[w], ll[w])
  BY DEF Named
<1>2. M[w] \in Nat /\ M[w] <= m
  BY <1>1 DEF Distinct
<1>3. len \in [Nat -> Nat] /\ Held(F, len, al, us)
  BY DEF Chained
<1>4. len[M[w]] \in Nat
  BY <1>2, <1>3
<1>5. len[M[w]] > 0 => F[M[w]][len[M[w]]] \in al \ us
  <2>1. len[M[w]] > 0 => len[M[w]] \in 1..len[M[w]]
    BY <1>4
  <2> QED BY <1>2, <1>3, <2>1 DEF Held
<1> QED BY <1>1, <1>2, <1>3, <1>4, <1>5 DEF Noted

LEMMA PushKeeps ==
  ASSUME BA!BlockAssumption, NEW nx, NEW ll, NEW gs, NEW al, NEW us, Arranged(nx, ll, gs, al, us),
         NEW w \in Worker, NEW p \in us, us \subseteq al, NEW nx2, NEW ll2,
         SameLinks(nx, nx2, al \ us),
         nx2[p] = ll[w].head,
         SameLists(ll, ll2, w),
         ll2[w].sz = ll[w].sz + 1, ll2[w].head = p,
         ll2[w].mid = IF ll[w].sz = list_length + 1 THEN ll[w].head ELSE ll[w].mid
  PROVE  Arranged(nx2, ll2, gs, al, us \ {p})
<1>1. PICK F, len, M, N, m : Chained(F, len, nx, al, us) /\ Named(M, N, m, F, len, ll, gs)
  BY DEF Arranged
<1>2. PICK s : s = M[w]
  OBVIOUS
<1>3. PICK F2, len2 : F2 = Pushed(F, len, s, p) /\ len2 = [len EXCEPT ![s] = @ + 1]
  OBVIOUS
<1>4. /\ s \in Nat /\ len[s] \in Nat /\ ll[w].sz = len[s] /\ len \in [Nat -> Nat]
      /\ len[s] > 0 => ll[w].head = F[s][len[s]]
      /\ len[s] >= list_length + 2 => ll[w].mid = F[s][list_length + 1]
  BY <1>1, <1>2, OwnList
<1>5. Chained(F2, len2, nx2, al, us \ {p})
  <2>1. len[s] > 0 => nx2[p] = F[s][len[s]]
    BY <1>4
  <2>2. Chained(Pushed(F, len, s, p), len2, nx2, al, us \ {p})
    BY <1>1, <1>3, <1>4, <2>1, PushChain
  <2> QED BY <1>3, <2>2
<1>6. /\ \A t \in Nat : t # s => F2[t] = F[t] /\ len2[t] = len[t]
      /\ len2[s] = len[s] + 1
      /\ F2[s] = [k \in 1..len[s] + 1 |-> IF k > len[s] THEN p ELSE F[s][k]]
  BY <1>3, <1>4 DEF Pushed
<1>7. Noted(F2, len2, s, ll2[w])
  <2>1. F2[s][len[s] + 1] = p
    <3>1. len[s] + 1 \in 1..len[s] + 1 /\ len[s] + 1 > len[s]
      BY <1>4
    <3> QED BY <1>6, <3>1
  <2>2. CASE len[s] + 1 >= list_length + 2
    <3>1. list_length + 1 \in 1..len[s] + 1 /\ ~ (list_length + 1 > len[s]) /\ len[s] > 0
      BY <1>4, <2>2, Lengths
    <3>2. F2[s][list_length + 1] = F[s][list_length + 1]
      BY <1>6, <3>1
    <3>3. len[s] = list_length + 1 \/ len[s] >= list_length + 2
      BY <1>4, <2>2, Lengths
    <3>4. ll2[w].mid = F[s][list_length + 1]
      BY <1>4, <3>1, <3>3, Lengths
    <3> QED BY <1>4, <1>6, <2>1, <3>2, <3>4 DEF Noted
  <2>3. CASE ~ (len[s] + 1 >= list_length + 2)
    BY <1>4, <1>6, <2>1, <2>3 DEF Noted
  <2> QED BY <2>2, <2>3
<1>8. Named(M, N, m, F2, len2, ll2, gs)
  BY <1>1, <1>2, <1>6, <1>7, OthersKeepNames
<1> QED BY <1>5, <1>8 DEF Arranged

LEMMA PopKeeps ==
  ASSUME BA!BlockAssumption, NEW nx, NEW ll, NEW gs, NEW al, NEW us, Arranged(nx, ll, gs, al, us),
         NEW w \in Worker, ll[w].sz > 0, NEW nx2, NEW ll2,
         SameLinks(nx, nx2, (al \ us) \ {ll[w].head}),
         SameLists(ll, ll2, w),
         ll2[w].sz = ll[w].sz - 1,
         ll2[w].sz > 0 => ll2[w].head = nx[ll[w].head],
         ll[w].mid # ll[w].head => ll2[w].mid = ll[w].mid
  PROVE  /\ ll[w].head \in al \ us
         /\ Arranged(nx2, ll2, gs, al, us \cup {ll[w].head})
<1>1. PICK F, len, M, N, m : Chained(F, len, nx, al, us) /\ Named(M, N, m, F, len, ll, gs)
  BY DEF Arranged
<1>2. PICK s : s = M[w]
  OBVIOUS
<1>3. PICK len2 : len2 = [len EXCEPT ![s] = @ - 1]
  OBVIOUS
<1>4. /\ s \in Nat /\ len[s] \in Nat /\ ll[w].sz = len[s] /\ len \in [Nat -> Nat]
      /\ len[s] > 0
      /\ ll[w].head = F[s][len[s]] /\ ll[w].head \in al \ us
      /\ len[s] >= list_length + 2 => ll[w].mid = F[s][list_length + 1]
  BY <1>1, <1>2, OwnList
<1>5. Chained(F, len2, nx2, al, us \cup {ll[w].head})
  <2>1. SameLinks(nx, nx2, (al \ us) \ {F[s][len[s]]})
    BY <1>4
  <2>2. Chained(F, len2, nx2, al, us \cup {F[s][len[s]]})
    BY <1>1, <1>3, <1>4, <2>1, PopChain
  <2> QED BY <1>4, <2>2
<1>6. /\ \A t \in Nat : t # s => len2[t] = len[t]
      /\ len2[s] = len[s] - 1
  BY <1>3, <1>4
<1>7. Noted(F, len2, s, ll2[w])
  <2>1. Follow(F, len, nx) /\ Once(F, len)
    BY <1>1 DEF Chained
  <2>2. len[s] - 1 > 0 => ll2[w].head = F[s][len[s] - 1]
    <3>1. len[s] - 1 > 0 => len[s] \in 2..len[s]
      BY <1>4
    <3>2. len[s] - 1 > 0 => nx[F[s][len[s]]] = F[s][len[s] - 1]
      BY <1>4, <2>1, <3>1 DEF Follow
    <3> QED BY <1>4, <3>2
  <2>3. len[s] - 1 >= list_length + 2 => ll2[w].mid = F[s][list_length + 1]
    <3> SUFFICES ASSUME len[s] - 1 >= list_length + 2 PROVE ll2[w].mid = F[s][list_length + 1]
      OBVIOUS
    <3>1. /\ list_length + 1 \in 1..len[s] /\ len[s] \in 1..len[s] /\ list_length + 1 # len[s]
          /\ len[s] >= list_length + 2
      BY <1>4, Lengths
    <3>2. F[s][list_length + 1] # F[s][len[s]]
      BY <1>4, <2>1, <3>1 DEF Once
    <3> QED BY <1>4, <3>1, <3>2
  <2> QED BY <1>4, <1>6, <2>2, <2>3 DEF Noted
<1>8. Named(M, N, m, F, len2, ll2, gs)
  BY <1>1, <1>2, <1>6, <1>7, OthersKeepNames
<1> QED BY <1>4, <1>5, <1>8 DEF Arranged

\* An empty list becomes one of new blocks.
LEMMA NewKeeps ==
  ASSUME BA!BlockAssumption, NEW nx, NEW ll, NEW gs, NEW us, NEW c \in Nat,
         Arranged(nx, ll, gs, 1..c, us), us \subseteq 1..c,
         NEW w \in Worker, ll[w].sz = 0, NEW nx2, NEW ll2,
         SameLinks(nx, nx2, 1..c),
         Row(nx2, c, list_length),
         SameLists(ll, ll2, w),
         ll2[w].sz = list_length, ll2[w].head = c + 1
  PROVE  Arranged(nx2, ll2, gs, 1..c + list_length, us)
<1>1. PICK F, len, M, N, m : Chained(F, len, nx, 1..c, us) /\ Named(M, N, m, F, len, ll, gs)
  BY DEF Arranged
<1>2. PICK s : s = M[w]
  OBVIOUS
<1>3. PICK F2, len2 : F2 = Filled(F, s, c) /\ len2 = [len EXCEPT ![s] = list_length]
  OBVIOUS
<1>4. s \in Nat /\ len[s] = 0 /\ len \in [Nat -> Nat]
  <2>1. Noted(F, len, M[w], ll[w]) /\ Distinct(M, N, m, Len(gs)) /\ m \in Nat
    BY <1>1 DEF Named
  <2>2. M[w] \in Nat
    BY <2>1 DEF Distinct
  <2>3. len[M[w]] = 0
    BY <2>1 DEF Noted
  <2>4. len \in [Nat -> Nat]
    BY <1>1 DEF Chained
  <2> QED BY <1>2, <2>2, <2>3, <2>4
<1>5. Chained(F2, len2, nx2, 1..c + list_length, us)
  BY <1>1, <1>3, <1>4, NewChain
<1>6. /\ \A t \in Nat : t # s => F2[t] = F[t] /\ len2[t] = len[t]
      /\ len2[s] = list_length
      /\ F2[s] = [k \in 1..list_length |-> c + list_length + 1 - k]
  BY <1>3, <1>4 DEF Filled
<1>7. F2[s][list_length] = c + 1
  BY <1>6, Lengths
<1>8. Noted(F2, len2, s, ll2[w])
  BY <1>6, <1>7, Lengths DEF Noted
<1>9. Named(M, N, m, F2, len2, ll2, gs)
  BY <1>1, <1>2, <1>6, <1>8, OthersKeepNames
<1> QED BY <1>5, <1>9 DEF Arranged

\* An empty list becomes the top one of the global stack.
LEMMA RefillKeeps ==
  ASSUME BA!BlockAssumption, NEW nx, NEW ll, NEW gs, NEW al, NEW us, Arranged(nx, ll, gs, al, us),
         gs \in Seq(BA!Block), gs # << >>,
         NEW w \in Worker, ll[w].sz = 0, NEW ll2,
         SameLists(ll, ll2, w),
         ll2[w].sz = list_length, ll2[w].head = gs[1]
  PROVE  Arranged(nx, ll2, Tail(gs), al, us)
<1>1. PICK F, len, M, N, m : Chained(F, len, nx, al, us) /\ Named(M, N, m, F, len, ll, gs)
  BY DEF Arranged
<1>2. PICK n, gs2 : n = Len(gs) - 1 /\ gs2 = Tail(gs)
  OBVIOUS
<1>3. /\ n \in Nat /\ Len(gs) = n + 1 /\ Len(gs2) = n
      /\ \A i \in 1..n : i + 1 \in 1..n + 1 /\ gs2[i] = gs[i + 1]
  BY <1>2
<1>4. PICK M2, N2 : /\ M2 = [v \in Worker |-> IF v = w THEN N[1] ELSE M[v]]
                    /\ N2 = [i \in 1..n |-> N[i + 1]]
  OBVIOUS
<1>5. /\ M2[w] = N[1] /\ \A v \in Worker : v # w => M2[v] = M[v]
      /\ \A i \in 1..n : N2[i] = N[i + 1]
  BY <1>4
<1>6. /\ m \in Nat /\ Distinct(M, N, m, n + 1)
      /\ \A i \in 1..n + 1 : len[N[i]] = list_length /\ gs[i] = F[N[i]][list_length]
  BY <1>1, <1>3 DEF Named
<1>7. /\ \A v \in Worker : Noted(F, len, M[v], ll[v])
      /\ \A s \in Nat : len[s] # 0 => \/ \E v \in Worker : s = M[v]
                                      \/ \E i \in 1..n + 1 : s = N[i]
  BY <1>1, <1>3 DEF Named
<1>8. 1 \in 1..n + 1
  BY <1>3
<1>9. len[M[w]] = 0
  BY <1>7 DEF Noted
<1>10. Distinct(M2, N2, m, n)
  <2>1. \A v \in Worker : v # w => M2[v] = M[v] /\ M2[v] # N[1]
    BY <1>5, <1>6, <1>8 DEF Distinct
  <2>2. \A i \in 1..n : N2[i] = N[i + 1] /\ i + 1 \in 1..n + 1 /\ N[i + 1] # N[1]
    <3> TAKE i \in 1..n
    <3>1. i + 1 \in 1..n + 1 /\ i + 1 # 1
      BY <1>3
    <3> QED BY <1>5, <1>6, <1>8, <3>1 DEF Distinct
  <2>3. \A i, j \in 1..n : N2[i] = N2[j] => i = j
    <3> SUFFICES ASSUME NEW i \in 1..n, NEW j \in 1..n, N2[i] = N2[j] PROVE i = j
      OBVIOUS
    <3>1. N[i + 1] = N[j + 1] /\ i + 1 \in 1..n + 1 /\ j + 1 \in 1..n + 1
      BY <2>2
    <3>2. i + 1 = j + 1
      BY <1>6, <3>1 DEF Distinct
    <3> QED BY <3>2
  <2>4. \A v, u \in Worker : M2[v] = M2[u] => v = u
    BY <1>5, <1>6, <2>1 DEF Distinct
  <2>5. \A v \in Worker : M2[v] \in 1..m
    BY <1>5, <1>6, <1>8 DEF Distinct
  <2>6. \A i \in 1..n : N2[i] \in 1..m
    BY <1>6, <2>2 DEF Distinct
  <2>7. \A v \in Worker : \A i \in 1..n : M2[v] # N2[i]
    <3> TAKE v \in Worker
    <3> TAKE i \in 1..n
    <3>1. CASE v = w
      BY <1>5, <2>2, <3>1
    <3>2. CASE v # w
      BY <1>5, <1>6, <2>2, <3>2 DEF Distinct
    <3> QED BY <3>1, <3>2
  <2> QED BY <2>3, <2>4, <2>5, <2>6, <2>7 DEF Distinct
<1>11. ASSUME NEW s \in Nat, len[s] # 0
       PROVE  (\E v \in Worker : s = M2[v]) \/ \E i \in 1..n : s = N2[i]
  <2>1. CASE \E v \in Worker : s = M[v]
    BY <1>5, <1>9, <1>11, <2>1
  <2>2. CASE \E i \in 1..n + 1 : s = N[i]
    <3>1. PICK i \in 1..n + 1 : s = N[i]
      BY <2>2
    <3>2. CASE i = 1
      BY <1>5, <3>1, <3>2
    <3>3. CASE i # 1
      <4>1. i - 1 \in 1..n /\ i - 1 + 1 = i
        BY <1>3, <3>3
      <4>2. s = N2[i - 1]
        BY <1>5, <3>1, <4>1
      <4> QED BY <4>1, <4>2
    <3> QED BY <3>2, <3>3
  <2> QED BY <1>7, <1>11, <2>1, <2>2
<1>12. ASSUME NEW v \in Worker PROVE Noted(F, len, M2[v], ll2[v])
  <2>1. CASE v = w
    <3>1. len[N[1]] = list_length /\ gs[1] = F[N[1]][list_length]
      BY <1>6, <1>8
    <3>2. ~ (list_length >= list_length + 2)
      BY Lengths
    <3> QED BY <1>5, <2>1, <3>1, <3>2 DEF Noted
  <2>2. CASE v # w
    BY <1>5, <1>7, <2>2 DEF SameLists
  <2> QED BY <2>1, <2>2
<1>13. \A i \in 1..n : len[N2[i]] = list_length /\ gs2[i] = F[N2[i]][list_length]
  BY <1>3, <1>5, <1>6
<1>14. Named(M2, N2, m, F, len, ll2, gs2)
  BY <1>3, <1>6, <1>10, <1>11, <1>12, <1>13 DEF Named
<1> QED BY <1>1, <1>2, <1>14 DEF Arranged

\* A full list gives its lower half to the global stack.
LEMMA CutKeeps ==
  ASSUME BA!BlockAssumption, NEW nx, NEW ll, NEW gs, NEW al, NEW us, Arranged(nx, ll, gs, al, us),
         al \subseteq BA!Block, gs \in Seq(BA!Block),
         NEW w \in Worker, ll[w].sz = 2 * list_length, NEW nx2, NEW ll2,
         SameLinks(nx, nx2, (al \ us) \ {ll[w].mid}),
         SameLists(ll, ll2, w),
         ll2[w].sz = list_length, ll2[w].head = ll[w].head
  PROVE  /\ ll[w].mid \in al \ us /\ nx[ll[w].mid] \in al \ us
         /\ Arranged(nx2, ll2, <<nx[ll[w].mid]>> \o gs, al, us)
<1>1. PICK F, len, M, N, m : Chained(F, len, nx, al, us) /\ Named(M, N, m, F, len, ll, gs)
  BY DEF Arranged
<1>2. PICK s, t, L : s = M[w] /\ t = m + 1 /\ L = list_length
  OBVIOUS
<1>3. /\ s \in Nat /\ s <= m /\ m \in Nat /\ len[s] = 2 * L
      /\ ll[w].head = F[s][2 * L]
      /\ ll[w].mid = F[s][L + 1]
      /\ L \in Nat /\ L >= 2
  <2>1. L \in Nat /\ L >= 2
    BY <1>2, Lengths
  <2>2. s \in Nat /\ s <= m /\ m \in Nat
    <3>1. m \in Nat /\ Distinct(M, N, m, Len(gs))
      BY <1>1 DEF Named
    <3>2. s \in 1..m
      BY <1>2, <3>1 DEF Distinct
    <3> QED BY <3>1, <3>2
  <2>3. Noted(F, len, s, ll[w])
    BY <1>1, <1>2 DEF Named
  <2>4. len[s] = 2 * L
    BY <1>2, <2>3 DEF Noted
  <2>5. 2 * L > 0 /\ 2 * L >= L + 2
    BY <2>1
  <2> QED BY <1>2, <2>1, <2>2, <2>3, <2>4, <2>5 DEF Noted
<1>4. /\ t \in Nat /\ t # s /\ len[t] = 0
      /\ \A v \in Worker : M[v] \in Nat /\ M[v] # t
      /\ \A i \in 1..Len(gs) : N[i] \in Nat /\ N[i] # t /\ N[i] # s
  <2>1. Distinct(M, N, m, Len(gs))
    BY <1>1 DEF Named
  <2>2. \A k \in 1..m : k \in Nat /\ k # m + 1
    BY <1>3
  <2>3. /\ \A v \in Worker : M[v] \in Nat /\ M[v] # t
        /\ \A i \in 1..Len(gs) : N[i] \in Nat /\ N[i] # t /\ N[i] # s
    BY <1>2, <2>1, <2>2 DEF Distinct
  <2>4. t \in Nat /\ t # s
    BY <1>2, <1>3
  <2>5. len[t] = 0
    BY <1>1, <2>3, <2>4 DEF Named
  <2> QED BY <2>3, <2>4, <2>5
<1>5. /\ F[s][L] = nx[F[s][L + 1]]
      /\ F[s][L] \in al \ us /\ F[s][L + 1] \in al \ us
  <2>1. Held(F, len, al, us) /\ Follow(F, len, nx)
    BY <1>1 DEF Chained
  <2>2. L \in 1..len[s] /\ L + 1 \in 1..len[s] /\ L + 1 \in 2..len[s] /\ L + 1 - 1 = L
    BY <1>3
  <2>3. nx[F[s][L + 1]] = F[s][L + 1 - 1]
    BY <1>3, <2>1, <2>2 DEF Follow
  <2>4. F[s][L] \in al \ us /\ F[s][L + 1] \in al \ us
    BY <1>3, <2>1, <2>2 DEF Held
  <2> QED BY <2>2, <2>3, <2>4
<1>6. PICK F2, len2 : F2 = Halved(F, s, t) /\ len2 = [len EXCEPT ![s] = L, ![t] = L]
  OBVIOUS
<1>7. Chained(F2, len2, nx2, al, us)
  <2>1. SameLinks(nx, nx2, (al \ us) \ {F[s][list_length + 1]})
    BY <1>2, <1>3
  <2>2. len[s] = 2 * list_length /\ s # t
    BY <1>2, <1>3, <1>4
  <2>3. len2 = [len EXCEPT ![s] = list_length, ![t] = list_length]
    BY <1>2, <1>6
  <2>4. Chained(Halved(F, s, t), len2, nx2, al, us)
    BY <1>1, <1>3, <1>4, <2>1, <2>2, <2>3, CutChain
  <2> QED BY <1>6, <2>4
<1>8. /\ \A u \in Nat : u # s /\ u # t => F2[u] = F[u] /\ len2[u] = len[u]
      /\ len2[s] = L /\ len2[t] = L /\ F2[t] = F[s]
      /\ F2[s] = [k \in 1..L |-> F[s][k + L]]
  <2>1. len \in [Nat -> Nat]
    BY <1>1 DEF Chained
  <2>2. len2[s] = L /\ len2[t] = L /\ \A u \in Nat : u # s /\ u # t => len2[u] = len[u]
    BY <1>3, <1>4, <1>6, <2>1
  <2>3. F2[t] = F[s] /\ \A u \in Nat : u # s /\ u # t => F2[u] = F[u]
    BY <1>3, <1>4, <1>6 DEF Halved
  <2>4. F2[s] = [k \in 1..L |-> F[s][k + L]]
    BY <1>2, <1>3, <1>6 DEF Halved
  <2> QED BY <2>2, <2>3, <2>4
<1>9. PICK n, gs2 : n = Len(gs) /\ gs2 = <<F[s][L]>> \o gs
  OBVIOUS
<1>10. /\ n \in Nat /\ Len(gs2) = n + 1 /\ gs2[1] = F[s][L]
       /\ \A i \in 2..n + 1 : gs2[i] = gs[i - 1] /\ i - 1 \in 1..n
  <2>1. F[s][L] \in BA!Block /\ <<F[s][L]>> \in Seq(BA!Block)
    BY <1>5
  <2> QED BY <1>9, <2>1
<1>11. PICK N2 : N2 = [i \in 1..n + 1 |-> IF i = 1 THEN t ELSE N[i - 1]]
  OBVIOUS
<1>12. N2[1] = t /\ \A i \in 2..n + 1 : N2[i] = N[i - 1]
  BY <1>10, <1>11
<1>13. \A i \in 1..n + 1 : i = 1 \/ i \in 2..n + 1
  BY <1>10
<1>14. Distinct(M, N2, m + 1, n + 1)
  <2>1. Distinct(M, N, m, n)
    BY <1>1, <1>9 DEF Named
  <2>2. 1..m \subseteq 1..m + 1 /\ t \in 1..m + 1
    BY <1>2, <1>3
  <2>3. \A i \in 2..n + 1 : /\ N2[i] = N[i - 1] /\ i - 1 \in 1..n /\ N2[i] # t
                            /\ N2[i] \in 1..m
    BY <1>4, <1>9, <1>10, <1>12, <2>1 DEF Distinct
  <2>4. \A i \in 1..n + 1 : N2[i] \in 1..m + 1
    BY <1>12, <1>13, <2>2, <2>3
  <2>5. \A v \in Worker : M[v] \in 1..m + 1
    BY <2>1, <2>2 DEF Distinct
  <2>6. \A v \in Worker : \A i \in 1..n + 1 : M[v] # N2[i]
    <3> TAKE v \in Worker
    <3> TAKE i \in 1..n + 1
    <3>1. CASE i = 1
      BY <1>4, <1>12, <3>1
    <3>2. CASE i \in 2..n + 1
      BY <2>1, <2>3, <3>2 DEF Distinct
    <3> QED BY <1>13, <3>1, <3>2
  <2>7. ASSUME NEW i \in 1..n + 1, NEW j \in 1..n + 1, N2[i] = N2[j] PROVE i = j
    <3>1. CASE i \in 2..n + 1 /\ j \in 2..n + 1
      <4>1. N[i - 1] = N[j - 1] /\ i - 1 \in 1..n /\ j - 1 \in 1..n
        BY <2>3, <2>7, <3>1
      <4>2. i - 1 = j - 1
        BY <2>1, <4>1 DEF Distinct
      <4> QED BY <4>2
    <3>2. CASE i = 1
      BY <1>12, <1>13, <2>3, <2>7, <3>2
    <3>3. CASE j = 1
      BY <1>12, <1>13, <2>3, <2>7, <3>3
    <3> QED BY <1>13, <3>1, <3>2, <3>3
  <2>8. \A v, u \in Worker : M[v] = M[u] => v = u
    BY <2>1 DEF Distinct
  <2> QED BY <2>4, <2>5, <2>6, <2>7, <2>8 DEF Distinct
<1>15. ASSUME NEW u \in Nat, len2[u] # 0
       PROVE  (\E v \in Worker : u = M[v]) \/ \E i \in 1..n + 1 : u = N2[i]
  <2>1. CASE u = s
    BY <1>2, <2>1
  <2>2. CASE u = t
    <3>1. 1 \in 1..n + 1
      BY <1>10
    <3> QED BY <1>12, <2>2, <3>1
  <2>3. CASE u # s /\ u # t
    <3>1. (\E v \in Worker : u = M[v]) \/ \E i \in 1..n : u = N[i]
      BY <1>1, <1>8, <1>9, <1>15, <2>3 DEF Named
    <3>2. ASSUME NEW i \in 1..n, u = N[i] PROVE \E j \in 1..n + 1 : u = N2[j]
      <4>1. i + 1 \in 2..n + 1 /\ i + 1 \in 1..n + 1 /\ i + 1 - 1 = i
        BY <1>10
      <4>2. N2[i + 1] = u
        BY <1>12, <3>2, <4>1
      <4> QED BY <4>1, <4>2
    <3> QED BY <3>1, <3>2
  <2> QED BY <2>1, <2>2, <2>3
<1>16. ASSUME NEW v \in Worker PROVE Noted(F2, len2, M[v], ll2[v])
  <2>1. CASE v = w
    <3>1. ll2[w].sz = L /\ ll2[w].head = F[s][2 * L] /\ ~ (L >= list_length + 2)
      BY <1>2, <1>3
    <3>2. F2[s][L] = F[s][2 * L]
      <4>1. L \in 1..L /\ L + L = 2 * L
        BY <1>3
      <4> QED BY <1>8, <4>1
    <3> QED BY <1>2, <1>8, <2>1, <3>1, <3>2 DEF Noted
  <2>2. CASE v # w
    <3>1. M[v] # s
      BY <1>1, <1>2, <2>2 DEF Named, Distinct
    <3>2. F2[M[v]] = F[M[v]] /\ len2[M[v]] = len[M[v]] /\ ll2[v] = ll[v]
      BY <1>4, <1>8, <2>2, <3>1 DEF SameLists
    <3>3. Noted(F, len, M[v], ll[v])
      BY <1>1 DEF Named
    <3> QED BY <3>2, <3>3 DEF Noted
  <2> QED BY <2>1, <2>2
<1>17. ASSUME NEW i \in 1..n + 1
       PROVE  len2[N2[i]] = list_length /\ gs2[i] = F2[N2[i]][list_length]
  <2>1. CASE i = 1
    BY <1>2, <1>8, <1>10, <1>12, <2>1
  <2>2. CASE i \in 2..n + 1
    <3>1. i - 1 \in 1..n /\ N2[i] = N[i - 1] /\ gs2[i] = gs[i - 1]
      BY <1>10, <1>12, <2>2
    <3>2. len[N[i - 1]] = list_length /\ gs[i - 1] = F[N[i - 1]][list_length]
      BY <1>1, <1>9, <3>1 DEF Named
    <3>3. F2[N[i - 1]] = F[N[i - 1]] /\ len2[N[i - 1]] = len[N[i - 1]]
      BY <1>4, <1>8, <1>9, <3>1
    <3> QED BY <3>1, <3>2, <3>3
  <2> QED BY <1>13, <2>1, <2>2
<1>18. Named(M, N2, m + 1, F2, len2, ll2, gs2)
  <2>1. m + 1 \in Nat /\ Len(gs2) \in Nat
    BY <1>3, <1>10
  <2> QED BY <1>10, <1>14, <1>15, <1>16, <1>17, <2>1 DEF Named
<1>19. gs2 = <<nx[ll[w].mid]>> \o gs
  BY <1>3, <1>5, <1>9
<1> QED BY <1>3, <1>5, <1>7, <1>18, <1>19 DEF Arranged

-----------------------------------------------------------------------------
(* The actions. *)

List == [sz : 0..2 * list_length, head : BA!Pointer, mid : BA!Pointer]

LEMMA ShapeFacts ==
  ASSUME BA!BlockAssumption, AllocInv
  PROVE  /\ next \in [BA!Block -> BA!Pointer] /\ local_lists \in [Worker -> List]
         /\ global_stack \in Seq(BA!Block) /\ used \subseteq allocated
         /\ allocated \subseteq BA!Block /\ BA!Block \subseteq Nat /\ BA!Block \subseteq BA!Pointer
         /\ \E c \in 0..max_blocks : allocated = 1..c /\ Cardinality(allocated) = c
<1>1. PICK c \in 0..max_blocks : allocated = 1..c
  BY DEF AllocInv, Shape
<1>2. c \in Nat /\ max_blocks \in Nat /\ 1..c \subseteq 1..max_blocks /\ ~ (c < 0)
  BY Lengths
<1>3. Cardinality(1..c) = c
  BY <1>2, FS_Interval
<1> QED BY <1>1, <1>2, <1>3 DEF AllocInv, Shape, List, BA!Block, BA!Pointer

\* Hand takes the head of what is, by now, the list of w.
LEMMA HandKeeps ==
  ASSUME BA!BlockAssumption, NEW w \in Worker, NEW from \in List, NEW links, NEW gs, NEW al, NEW ll,
         links \in [BA!Block -> BA!Pointer], local_lists \in [Worker -> List], al \subseteq BA!Block,
         used \subseteq al,
         Arranged(links, ll, gs, al, used), SameLists(local_lists, ll, w), ll[w] = from,
         from.sz > 0, BA!Hand(w, from, links)
  PROVE  /\ Arranged(next', local_lists', gs, al, used')
         /\ next' \in [BA!Block -> BA!Pointer] /\ local_lists' \in [Worker -> List]
         /\ used' \subseteq al
<1>1. PICK l2 : l2 = [from EXCEPT !.head = links[from.head], !.sz = @ - 1,
                                  !.mid = IF @ = from.head THEN nullptr ELSE @]
  OBVIOUS
<1>2. /\ used' = used \cup {from.head}
      /\ next' = [links EXCEPT ![from.head] = nullptr]
      /\ local_lists' = [local_lists EXCEPT ![w] = l2]
  BY <1>1 DEF BA!Hand
<1>3. /\ l2.head = links[from.head] /\ l2.sz = from.sz - 1
      /\ l2.mid = IF from.mid = from.head THEN nullptr ELSE from.mid
  BY <1>1 DEF List
<1>4. /\ \A b \in BA!Block : b # from.head => next'[b] = links[b]
      /\ next' \in [BA!Block -> BA!Pointer]
  BY <1>2 DEF BA!Pointer
<1>5. SameLinks(links, next', (al \ used) \ {from.head})
  BY <1>4 DEF SameLinks
<1>6. /\ \A v \in Worker : v # w => local_lists'[v] = local_lists[v]
      /\ local_lists'[w] = l2
  BY <1>2
<1>7. SameLists(ll, local_lists', w)
  BY <1>6 DEF SameLists
<1>8. from.head \in al \ used /\ Arranged(next', local_lists', gs, al, used')
  <2>1. ll[w].sz > 0 /\ SameLinks(links, next', (al \ used) \ {ll[w].head})
    BY <1>5
  <2>2. /\ local_lists'[w].sz = ll[w].sz - 1
        /\ local_lists'[w].sz > 0 => local_lists'[w].head = links[ll[w].head]
        /\ ll[w].mid # ll[w].head => local_lists'[w].mid = ll[w].mid
    BY <1>3, <1>6
  <2>3. /\ ll[w].head \in al \ used
        /\ Arranged(next', local_lists', gs, al, used \cup {ll[w].head})
    <3>1. PICK nx2, ll2 : nx2 = next' /\ ll2 = local_lists'
      OBVIOUS
    <3>2. SameLinks(links, nx2, (al \ used) \ {ll[w].head}) /\ SameLists(ll, ll2, w)
      BY <1>7, <2>1, <3>1
    <3>3. /\ ll2[w].sz = ll[w].sz - 1
          /\ ll2[w].sz > 0 => ll2[w].head = links[ll[w].head]
          /\ ll[w].mid # ll[w].head => ll2[w].mid = ll[w].mid
      BY <2>2, <3>1
    <3>4. ll[w].head \in al \ used /\ Arranged(nx2, ll2, gs, al, used \cup {ll[w].head})
      BY <2>1, <3>2, <3>3, PopKeeps, SMTT(30)
    <3> QED BY <3>1, <3>4
  <2> QED BY <1>2, <2>3
<1>9. l2 \in List
  <2>1. from.sz \in 0..2 * list_length /\ from.mid \in BA!Pointer /\ links[from.head] \in BA!Pointer
    BY <1>8 DEF List
  <2>2. from.sz - 1 \in 0..2 * list_length
    BY <2>1, Lengths
  <2>3. l2 = [sz |-> from.sz - 1, head |-> links[from.head],
              mid |-> IF from.mid = from.head THEN nullptr ELSE from.mid]
    BY <1>1 DEF List
  <2> QED BY <2>1, <2>2, <2>3 DEF List, BA!Pointer
<1> QED BY <1>2, <1>4, <1>8, <1>9

BufferLinked(q, old, new, c, n) ==
  /\ BA!ToSet(q) = c + 1..c + n
  /\ \A b \in BA!Block : b \notin BA!ToSet(q) => new[b] = old[b]
  /\ \A i \in 1..n : (\A j \in 1..n : i # j * list_length) => new[c + i] = c + i + 1
  /\ new \in [BA!Block -> BA!Pointer]

\* A buffer of n blocks after c, in lists of list_length.
LEMMA LinkedBuffer ==
  ASSUME BA!BlockAssumption, NEW c \in Nat, NEW n \in Nat, NEW k \in Nat, n = k * list_length,
         NEW q, q = [i \in 1..n |-> c + i], BA!ToSet(q) \subseteq BA!Block,
         NEW old, old \in [BA!Block -> BA!Pointer]
  PROVE  BufferLinked(q, old, BA!Linked(old, q), c, n)
<1>1. /\ DOMAIN q = 1..n /\ \A i \in 1..n : q[i] = c + i
      /\ BA!ToSet(q) = {q[i] : i \in 1..n}
  BY DEF BA!ToSet
<1>2. BA!ToSet(q) = c + 1..c + n
  <2>1. \A b \in c + 1..c + n : b - c \in 1..n /\ c + (b - c) = b
    OBVIOUS
  <2>2. \A i \in 1..n : c + i \in c + 1..c + n
    OBVIOUS
  <2>3. BA!ToSet(q) = {c + i : i \in 1..n}
    BY <1>1
  <2>4. BA!ToSet(q) \subseteq c + 1..c + n
    BY <2>2, <2>3
  <2>5. ASSUME NEW b \in c + 1..c + n PROVE b \in BA!ToSet(q)
    <3>1. PICK i \in 1..n : c + i = b
      BY <2>1
    <3> QED BY <2>3, <3>1
  <2>6. c + 1..c + n \subseteq BA!ToSet(q)
    BY <2>5
  <2> QED BY <2>4, <2>6
<1>3. PICK new : new = BA!Linked(old, q)
  OBVIOUS
<1>4. \A b \in BA!Block : b \notin BA!ToSet(q) => new[b] = old[b]
  BY <1>3 DEF BA!Linked
<1>5. ASSUME NEW i \in 1..n
      PROVE  /\ c + i \in BA!Block
             /\ new[c + i] = IF \E j \in 1..n : i = j * list_length THEN nullptr ELSE q[i + 1]
  <2>1. c + i \in BA!ToSet(q) /\ c + i \in BA!Block
    BY <1>1
  <2>2. PICK h : h = CHOOSE m \in DOMAIN q : q[m] = c + i
    OBVIOUS
  <2>3. h = i
    <3>1. i \in DOMAIN q /\ q[i] = c + i
      BY <1>1
    <3>2. h \in 1..n /\ q[h] = c + i
      BY <1>1, <2>2, <3>1
    <3>3. c + h = c + i
      BY <1>1, <3>2
    <3> QED BY <3>2, <3>3
  <2>4. BA!Link(q, c + i) = IF \E j \in DOMAIN q : h = j * list_length THEN nullptr ELSE q[h + 1]
    <3> DEFINE g == CHOOSE m \in DOMAIN q : q[m] = c + i
    <3>1. BA!Link(q, c + i) = IF \E j \in DOMAIN q : g = j * list_length THEN nullptr ELSE q[g + 1]
      BY Zenon DEF BA!Link
    <3>2. g = h
      BY <2>2
    <3> HIDE DEF g
    <3> QED BY <3>1, <3>2
  <2>5. new[c + i] = BA!Link(q, c + i)
    BY <1>3, <2>1 DEF BA!Linked
  <2> QED BY <1>1, <2>1, <2>3, <2>4, <2>5
<1>6. ASSUME NEW i \in 1..n, \A j \in 1..n : i # j * list_length
      PROVE  i + 1 \in 1..n
  <2>1. i # n
    <3> SUFFICES ASSUME i = n PROVE FALSE
      OBVIOUS
    <3>1. list_length \in Nat /\ list_length >= 1 /\ n >= 1
      BY Lengths
    <3>2. k # 0 /\ k <= k * list_length
      <4>1. k # 0
        BY <3>1
      <4>2. list_length = 1 + (list_length - 1) /\ list_length - 1 \in Nat
        BY <3>1
      <4>3. k * (1 + (list_length - 1)) = k + k * (list_length - 1) /\ k * (list_length - 1) \in Nat
        BY <4>2
      <4> QED BY <4>1, <4>2, <4>3
    <3>3. k \in 1..n
      BY <3>1, <3>2
    <3> QED BY <1>6, <3>3
  <2> QED BY <2>1
<1>7. \A i \in 1..n : (\A j \in 1..n : i # j * list_length) => new[c + i] = c + i + 1
  <2> SUFFICES ASSUME NEW i \in 1..n, \A j \in 1..n : i # j * list_length
               PROVE  new[c + i] = c + i + 1
    OBVIOUS
  <2>1. new[c + i] = q[i + 1] /\ i + 1 \in 1..n
    BY <1>5, <1>6
  <2>2. c + (i + 1) = c + i + 1
    OBVIOUS
  <2> QED BY <1>1, <2>1, <2>2
<1>8. new \in [BA!Block -> BA!Pointer]
  <2>1. \A b \in BA!Block : new[b] \in BA!Pointer
    <3> TAKE b \in BA!Block
    <3>1. CASE b \notin BA!ToSet(q)
      BY <1>4, <3>1
    <3>2. CASE b \in BA!ToSet(q)
      <4>1. PICK i \in 1..n : b = c + i
        BY <1>1, <3>2
      <4>2. CASE \E j \in 1..n : i = j * list_length
        BY <1>5, <4>1, <4>2 DEF BA!Pointer
      <4>3. CASE \A j \in 1..n : i # j * list_length
        <5>1. new[b] = q[i + 1] /\ i + 1 \in 1..n
          BY <1>5, <1>6, <4>1, <4>3
        <5> QED BY <1>1, <5>1 DEF BA!Pointer
      <4> QED BY <4>2, <4>3
    <3> QED BY <3>1, <3>2
  <2>2. new = [b \in BA!Block |-> new[b]]
    BY <1>3 DEF BA!Linked
  <2> QED BY <2>1, <2>2
<1> QED BY <1>2, <1>3, <1>4, <1>7, <1>8 DEF BufferLinked

LEMMA AllocKeeps ==
  ASSUME BA!BlockAssumption, AllocInv, NEW w \in Worker, BA!Alloc(w)
  PROVE  AllocInv'
<1>1. /\ next \in [BA!Block -> BA!Pointer] /\ local_lists \in [Worker -> List]
      /\ global_stack \in Seq(BA!Block) /\ used \subseteq allocated
      /\ allocated \subseteq BA!Block /\ BA!Block \subseteq Nat /\ BA!Block \subseteq BA!Pointer
  BY ShapeFacts
<1>2. PICK c \in 0..max_blocks : allocated = 1..c /\ Cardinality(allocated) = c
  BY ShapeFacts
<1>a. Arranged(next, local_lists, global_stack, allocated, used)
  BY DEF AllocInv
<1>3. CASE /\ local_lists[w].sz > 0
           /\ BA!Hand(w, local_lists[w], next)
           /\ UNCHANGED <<global_stack, allocated>>
  <2>1. SameLists(local_lists, local_lists, w) /\ local_lists[w] \in List
    BY <1>1 DEF SameLists
  <2>2. /\ Arranged(next', local_lists', global_stack, allocated, used')
        /\ next' \in [BA!Block -> BA!Pointer] /\ local_lists' \in [Worker -> List]
        /\ used' \subseteq allocated
    BY <1>1, <1>3, <1>a, <2>1, HandKeeps
  <2> QED BY <1>1, <1>2, <1>3, <2>2 DEF AllocInv, Shape, List
<1>4. CASE /\ local_lists[w].sz = 0 /\ global_stack # << >>
           /\ BA!Hand(w, BA!Refilled(w, Head(global_stack)), next)
           /\ global_stack' = Tail(global_stack) /\ UNCHANGED allocated
  <2>1. PICK from, ll : from = BA!Refilled(w, Head(global_stack))
                        /\ ll = [local_lists EXCEPT ![w] = from]
    OBVIOUS
  <2>2. Head(global_stack) = global_stack[1] /\ global_stack[1] \in BA!Block
        /\ Tail(global_stack) \in Seq(BA!Block)
    BY <1>1, <1>4
  <2>3. /\ from.sz = list_length /\ from.head = global_stack[1] /\ from \in List
    <3>1. list_length \in 0..2 * list_length /\ local_lists[w] \in List
      BY <1>1, Lengths
    <3>2. from = [sz |-> list_length, head |-> global_stack[1], mid |-> local_lists[w].mid]
      BY <2>1, <2>2, <3>1 DEF BA!Refilled, List
    <3> QED BY <1>1, <2>2, <3>1, <3>2 DEF List
  <2>4. SameLists(local_lists, ll, w) /\ ll[w] = from
    BY <1>1, <2>1 DEF SameLists
  <2>5. Arranged(next, ll, Tail(global_stack), allocated, used)
    <3>1. ll[w].sz = list_length /\ ll[w].head = global_stack[1]
      BY <2>3, <2>4
    <3> QED BY <1>1, <1>4, <1>a, <2>4, <3>1, RefillKeeps
  <2>6. from.sz > 0 /\ BA!Hand(w, from, next)
    BY <1>4, <2>1, <2>3, Lengths
  <2>7. /\ Arranged(next', local_lists', Tail(global_stack), allocated, used')
        /\ next' \in [BA!Block -> BA!Pointer] /\ local_lists' \in [Worker -> List]
        /\ used' \subseteq allocated
    BY <1>1, <2>3, <2>4, <2>5, <2>6, HandKeeps
  <2> QED BY <1>1, <1>2, <1>4, <2>2, <2>7 DEF AllocInv, Shape, List
<1>5. CASE /\ local_lists[w].sz = 0
           /\ LET q == BA!Buffer(list_length) IN
                /\ BA!ToSet(q) \subseteq BA!Block
                /\ BA!Hand(w, BA!Refilled(w, q[1]), BA!Linked(next, q))
                /\ allocated' = allocated \cup BA!ToSet(q)
           /\ UNCHANGED global_stack
  <2>1. PICK q : q = BA!Buffer(list_length)
    OBVIOUS
  <2>2. /\ BA!ToSet(q) \subseteq BA!Block
        /\ BA!Hand(w, BA!Refilled(w, q[1]), BA!Linked(next, q))
        /\ allocated' = allocated \cup BA!ToSet(q)
    BY <1>5, <2>1
  <2>3. c \in Nat /\ list_length \in Nat /\ list_length >= 2 /\ max_blocks \in Nat
    BY Lengths
  <2>4. q = [i \in 1..list_length |-> c + i] /\ list_length = 1 * list_length
    BY <1>2, <2>1, <2>3, SameSizes DEF BA!Buffer
  <2>5. PICK links : links = BA!Linked(next, q)
    OBVIOUS
  <2>6. /\ BA!ToSet(q) = c + 1..c + list_length
        /\ \A b \in BA!Block : b \notin BA!ToSet(q) => links[b] = next[b]
        /\ \A i \in 1..list_length : (\A j \in 1..list_length : i # j * list_length)
                                      => links[c + i] = c + i + 1
        /\ links \in [BA!Block -> BA!Pointer]
    <3>1. 1 \in Nat
      OBVIOUS
    <3>2. BufferLinked(q, next, BA!Linked(next, q), c, list_length)
      BY <1>1, <2>2, <2>3, <2>4, <3>1, LinkedBuffer
    <3> QED BY <2>5, <3>2 DEF BufferLinked
  <2>7. SameLinks(next, links, 1..c)
    <3>1. \A b \in 1..c : b \in BA!Block /\ b \notin c + 1..c + list_length
      BY <1>1, <1>2, <2>3
    <3> QED BY <2>6, <3>1 DEF SameLinks
  <2>8. Row(links, c, list_length)
    <3> SUFFICES ASSUME NEW i \in 1..list_length - 1 PROVE links[c + i] = c + i + 1
      BY DEF Row
    <3>1. i \in 1..list_length
      BY <2>3
    <3>2. \A j \in 1..list_length : i # j * list_length
      <4> SUFFICES ASSUME NEW j \in 1..list_length, i = j * list_length PROVE FALSE
        OBVIOUS
      <4>1. j = 1 + (j - 1) /\ j - 1 \in Nat
        BY <2>3
      <4>2. (1 + (j - 1)) * list_length = list_length + (j - 1) * list_length
            /\ (j - 1) * list_length \in Nat
        BY <2>3, <4>1
      <4> QED BY <2>3, <4>1, <4>2
    <3> QED BY <2>6, <3>1, <3>2
  <2>9. PICK from, ll : from = BA!Refilled(w, q[1]) /\ ll = [local_lists EXCEPT ![w] = from]
    OBVIOUS
  <2>10. q[1] = c + 1 /\ q[1] \in BA!Block
    <3>1. 1 \in 1..list_length /\ c + 1 \in c + 1..c + list_length
      BY <2>3
    <3> QED BY <2>2, <2>4, <2>6, <3>1
  <2>11. from.sz = list_length /\ from.head = c + 1 /\ from \in List
    <3>1. list_length \in 0..2 * list_length /\ local_lists[w] \in List
      BY <1>1, <2>3
    <3>2. from = [sz |-> list_length, head |-> c + 1, mid |-> local_lists[w].mid]
      BY <2>9, <2>10, <3>1 DEF BA!Refilled, List
    <3> QED BY <1>1, <2>10, <3>1, <3>2 DEF List
  <2>12. SameLists(local_lists, ll, w) /\ ll[w] = from
    BY <1>1, <2>9 DEF SameLists
  <2>13. Arranged(links, ll, global_stack, 1..c + list_length, used)
    <3>1. Arranged(next, local_lists, global_stack, 1..c, used) /\ used \subseteq 1..c
      BY <1>1, <1>2, <1>a
    <3>2. ll[w].sz = list_length /\ ll[w].head = c + 1
      BY <2>11, <2>12
    <3> QED BY <1>5, <2>3, <2>7, <2>8, <2>12, <3>1, <3>2, NewKeeps
  <2>14. /\ allocated' = 1..c + list_length /\ 1..c + list_length \subseteq BA!Block
         /\ used \subseteq 1..c + list_length
    <3>1. allocated' = 1..c \cup (c + 1..c + list_length)
      BY <1>2, <2>2, <2>6
    <3>2. 1..c \cup (c + 1..c + list_length) = 1..c + list_length
      BY <2>3
    <3> QED BY <1>1, <1>2, <2>2, <3>1, <3>2
  <2>15. from.sz > 0 /\ BA!Hand(w, from, links)
    BY <2>2, <2>3, <2>5, <2>9, <2>11
  <2>16. /\ Arranged(next', local_lists', global_stack, 1..c + list_length, used')
         /\ next' \in [BA!Block -> BA!Pointer] /\ local_lists' \in [Worker -> List]
         /\ used' \subseteq 1..c + list_length
    BY <1>1, <2>6, <2>11, <2>12, <2>13, <2>14, <2>15, HandKeeps
  <2>17. c + list_length \in 0..max_blocks
    <3>1. c + list_length \in BA!Block
      BY <2>3, <2>14
    <3> QED BY <2>3, <3>1 DEF BA!Block
  <2> QED BY <1>1, <1>5, <2>14, <2>16, <2>17 DEF AllocInv, Shape, List
<1> QED BY <1>3, <1>4, <1>5 DEF BA!Alloc

\* The end of free: p becomes the head of what is, by now, the list of w.
LEMMA LinkKeeps ==
  ASSUME BA!BlockAssumption, NEW w \in Worker, NEW p \in used, NEW from \in List, NEW kept \in List,
         NEW links, NEW gs, NEW ll,
         links \in [BA!Block -> BA!Pointer], local_lists \in [Worker -> List],
         allocated \subseteq BA!Block, used \subseteq allocated,
         Arranged(links, ll, gs, allocated, used), SameLists(local_lists, ll, w), ll[w] = from,
         kept.sz = from.sz, kept.head = from.head, kept.sz < 2 * list_length,
         kept.mid = IF from.sz = list_length + 1 THEN from.head ELSE from.mid,
         next' = [links EXCEPT ![p] = kept.head],
         local_lists' = [local_lists EXCEPT ![w] = [kept EXCEPT !.head = p, !.sz = @ + 1]]
  PROVE  /\ Arranged(next', local_lists', gs, allocated, used \ {p})
         /\ next' \in [BA!Block -> BA!Pointer] /\ local_lists' \in [Worker -> List]
<1>1. PICK l2, nx2, ll2 : /\ l2 = [kept EXCEPT !.head = p, !.sz = @ + 1]
                          /\ nx2 = next' /\ ll2 = local_lists'
  OBVIOUS
<1>2. /\ kept.sz \in 0..2 * list_length /\ kept.head \in BA!Pointer /\ kept.mid \in BA!Pointer
      /\ p \in BA!Block /\ p \in BA!Pointer
  BY DEF List, BA!Pointer
<1>3. l2 = [sz |-> kept.sz + 1, head |-> p, mid |-> kept.mid]
  BY <1>1 DEF List
<1>4. l2 \in List
  <2>1. kept.sz + 1 \in 0..2 * list_length
    BY <1>2, Lengths
  <2> QED BY <1>2, <1>3, <2>1 DEF List
<1>5. /\ ll2 \in [Worker -> List] /\ ll2[w] = l2
      /\ \A v \in Worker : v # w => ll2[v] = local_lists[v]
  BY <1>1, <1>4
<1>6. /\ nx2 \in [BA!Block -> BA!Pointer] /\ nx2[p] = kept.head
      /\ \A b \in BA!Block : b # p => nx2[b] = links[b]
  BY <1>1, <1>2
<1>7. SameLinks(links, nx2, allocated \ used) /\ SameLists(ll, ll2, w)
  BY <1>5, <1>6 DEF SameLinks, SameLists
<1>8. /\ nx2[p] = ll[w].head
      /\ ll2[w].sz = ll[w].sz + 1 /\ ll2[w].head = p
      /\ ll2[w].mid = IF ll[w].sz = list_length + 1 THEN ll[w].head ELSE ll[w].mid
  BY <1>3, <1>5, <1>6
<1>9. Arranged(nx2, ll2, gs, allocated, used \ {p})
  BY <1>7, <1>8, PushKeeps
<1> QED BY <1>1, <1>5, <1>6, <1>9

LEMMA FreeKeeps ==
  ASSUME BA!BlockAssumption, AllocInv, NEW w \in Worker, NEW p \in BA!Block, BA!Free(w, p)
  PROVE  AllocInv'
<1>1. /\ next \in [BA!Block -> BA!Pointer] /\ local_lists \in [Worker -> List]
      /\ global_stack \in Seq(BA!Block) /\ used \subseteq allocated
      /\ allocated \subseteq BA!Block /\ BA!Block \subseteq BA!Pointer
      /\ p \in used /\ used' = used \ {p} /\ UNCHANGED allocated
  BY ShapeFacts DEF BA!Free
<1>2. Arranged(next, local_lists, global_stack, allocated, used)
  BY DEF AllocInv
<1>3. PICK from, marked : from = local_lists[w] /\ marked = BA!MarkMid(from)
  OBVIOUS
<1>4. /\ from \in List /\ from.sz \in 0..2 * list_length /\ from.head \in BA!Pointer
      /\ marked \in List /\ marked.sz = from.sz /\ marked.head = from.head
      /\ marked.mid = IF from.sz = list_length + 1 THEN from.head ELSE from.mid
  <2>1. from \in List
    BY <1>1, <1>3
  <2>2. CASE from.sz = list_length + 1
    <3>1. marked = [sz |-> from.sz, head |-> from.head, mid |-> from.head]
      BY <1>3, <2>1, <2>2 DEF BA!MarkMid, List
    <3> QED BY <2>1, <2>2, <3>1 DEF List
  <2>3. CASE from.sz # list_length + 1
    <3>1. marked = from
      BY <1>3, <2>3 DEF BA!MarkMid
    <3> QED BY <2>1, <2>3, <3>1 DEF List
  <2> QED BY <2>2, <2>3
<1>5. CASE from.sz = 2 * list_length
  <2>1. PICK kept, cut, ll : /\ kept = [marked EXCEPT !.sz = list_length]
                             /\ cut = [next EXCEPT ![marked.mid] = nullptr]
                             /\ ll = [local_lists EXCEPT ![w] = kept]
    OBVIOUS
  <2>2. /\ global_stack' = <<next[marked.mid]>> \o global_stack
        /\ next' = [cut EXCEPT ![p] = kept.head]
        /\ local_lists' = [local_lists EXCEPT ![w] = [kept EXCEPT !.head = p, !.sz = @ + 1]]
    BY <1>3, <1>5, <2>1 DEF BA!Free
  <2>3. marked.mid = from.mid /\ from.sz # list_length + 1
    BY <1>4, <1>5, Lengths
  <2>4. /\ kept \in List /\ kept.sz = list_length /\ kept.head = from.head
        /\ kept.mid = from.mid
    <3>1. kept = [sz |-> list_length, head |-> marked.head, mid |-> marked.mid]
      BY <1>4, <2>1 DEF List
    <3>2. list_length \in 0..2 * list_length
      BY Lengths
    <3> QED BY <1>4, <2>3, <3>1, <3>2 DEF List
  <2>5. SameLists(local_lists, ll, w) /\ ll[w] = kept
    BY <1>1, <2>1 DEF SameLists
  <2>6. cut \in [BA!Block -> BA!Pointer] /\ \A b \in BA!Block : b # from.mid => cut[b] = next[b]
    BY <1>1, <2>1, <2>3 DEF BA!Pointer
  <2>7. SameLinks(next, cut, (allocated \ used) \ {local_lists[w].mid})
    BY <1>1, <1>3, <2>6 DEF SameLinks
  <2>8. /\ next[from.mid] \in BA!Block
        /\ Arranged(cut, ll, <<next[from.mid]>> \o global_stack, allocated, used)
    <3>1. /\ local_lists[w].sz = 2 * list_length
          /\ ll[w].sz = list_length /\ ll[w].head = local_lists[w].head
      BY <1>3, <1>5, <2>4, <2>5
    <3>2. allocated \subseteq BA!Block /\ global_stack \in Seq(BA!Block) /\ SameLists(local_lists, ll, w)
      BY <1>1, <2>5
    <3>3. Arranged(cut, ll, <<next[local_lists[w].mid]>> \o global_stack, allocated, used)
      BY <1>2, <2>7, <3>1, <3>2, CutKeeps, ZenonT(60)
    <3>4. next[local_lists[w].mid] \in allocated \ used
      BY <1>2, <2>7, <3>1, <3>2, CutKeeps, ZenonT(60)
    <3> QED BY <1>1, <1>3, <3>3, <3>4
  <2>9. global_stack' \in Seq(BA!Block)
    BY <1>1, <2>2, <2>3, <2>8
  <2>10. kept.sz < 2 * list_length /\ kept.sz # list_length + 1
    BY <2>4, Lengths
  <2>11. /\ Arranged(next', local_lists', global_stack', allocated, used \ {p})
         /\ next' \in [BA!Block -> BA!Pointer] /\ local_lists' \in [Worker -> List]
    <3>1. PICK gs : gs = <<next[from.mid]>> \o global_stack
      OBVIOUS
    <3>2. Arranged(cut, ll, gs, allocated, used)
      BY <2>8, <3>1
    <3>3. /\ Arranged(next', local_lists', gs, allocated, used \ {p})
          /\ next' \in [BA!Block -> BA!Pointer] /\ local_lists' \in [Worker -> List]
      BY <1>1, <2>2, <2>4, <2>5, <2>6, <2>10, <3>2, LinkKeeps
    <3> QED BY <2>2, <2>3, <3>1, <3>3
  <2> QED BY <1>1, <2>9, <2>11 DEF AllocInv, Shape, List
<1>6. CASE from.sz # 2 * list_length
  <2>1. /\ global_stack' = << >> \o global_stack
        /\ next' = [next EXCEPT ![p] = marked.head]
        /\ local_lists' = [local_lists EXCEPT ![w] = [marked EXCEPT !.head = p, !.sz = @ + 1]]
    BY <1>3, <1>6 DEF BA!Free
  <2>2. global_stack' = global_stack
    BY <1>1, <2>1
  <2>3. marked.sz < 2 * list_length
    BY <1>4, <1>6, Lengths
  <2>4. SameLists(local_lists, local_lists, w)
    BY DEF SameLists
  <2>5. /\ Arranged(next', local_lists', global_stack, allocated, used \ {p})
        /\ next' \in [BA!Block -> BA!Pointer] /\ local_lists' \in [Worker -> List]
    BY <1>1, <1>2, <1>3, <1>4, <2>1, <2>3, <2>4, LinkKeeps
  <2> QED BY <1>1, <2>2, <2>5 DEF AllocInv, Shape, List
<1> QED BY <1>5, <1>6

LEMMA WorkersNumbered ==
  ASSUME BA!BlockAssumption
  PROVE  /\ Cardinality(Worker) \in Nat
         /\ \E M : /\ \A w \in Worker : M[w] \in 1..Cardinality(Worker)
                   /\ \A v, w \in Worker : M[v] = M[w] => v = w
<1>1. PICK c, f : c = Cardinality(Worker) /\ c \in Nat /\ f \in Bijection(1..c, Worker)
  BY Lengths, FS_CardinalityType DEF ExistsBijection
<1>2. PICK M : M = [w \in Worker |-> CHOOSE i \in 1..c : f[i] = w]
  OBVIOUS
<1>3. \A w \in Worker : M[w] \in 1..c /\ f[M[w]] = w
  BY <1>1, <1>2 DEF Bijection, Surjection
<1> QED BY <1>1, <1>3

\* No list has a block: at the start and after clear.
LEMMA NothingArranged ==
  ASSUME BA!BlockAssumption, NEW nx, NEW ll, \A w \in Worker : ll[w].sz = 0
  PROVE  Arranged(nx, ll, << >>, {}, {})
<1>1. PICK len, F, N : len = [s \in Nat |-> 0] /\ F = [s \in Nat |-> << >>] /\ N = << >>
  OBVIOUS
<1>2. /\ len \in [Nat -> Nat] /\ \A s \in Nat : len[s] = 0 /\ 1..len[s] = {}
  BY <1>1
<1>3. PICK c : c = Cardinality(Worker) /\ c \in Nat
  BY WorkersNumbered
<1>4. PICK M : \A w \in Worker : M[w] \in 1..c /\ \A v \in Worker : M[v] = M[w] => v = w
  BY <1>3, WorkersNumbered
<1>5. \A w \in Worker : M[w] \in Nat
  BY <1>3, <1>4
<1>6. Chained(F, len, nx, {}, {})
  BY <1>2 DEF Chained, Held, Follow, Once, Covers
<1>7. Distinct(M, N, c, 0)
  BY <1>4 DEF Distinct
<1>8. \A w \in Worker : Noted(F, len, M[w], ll[w])
  BY <1>2, <1>5, Lengths DEF Noted
<1>9. Named(M, N, c, F, len, ll, << >>)
  BY <1>2, <1>3, <1>7, <1>8 DEF Named
<1> QED BY <1>6, <1>9 DEF Arranged

-----------------------------------------------------------------------------
(* Reserve and clear: counting the blocks of lists of list_length. *)

\* The end of the k-th list of a buffer.
End(k) == k * list_length

LEMMA Ends ==
  ASSUME BA!BlockAssumption, NEW a \in Nat, NEW b \in Nat
  PROVE  /\ End(a) \in Nat /\ End(0) = 0 /\ End(a + 1) = End(a) + list_length
         /\ a < b => End(a) + list_length <= End(b)
<1>0. list_length \in Nat
  BY Lengths
<1>1. End(a) \in Nat /\ End(0) = 0 /\ End(a + 1) = End(a) + list_length
  BY <1>0 DEF End
<1>2. ASSUME a < b PROVE End(a) + list_length <= End(b)
  <2>1. PICK d : d = b - (a + 1)
    OBVIOUS
  <2>2. d \in Nat /\ b = a + 1 + d
    BY <1>2, <2>1
  <2>3. (a + 1 + d) * list_length = a * list_length + list_length + d * list_length
    BY <1>0, <2>2
  <2>4. d * list_length \in Nat
    BY <1>0, <2>2
  <2>5. End(b) = End(a) + list_length + d * list_length
    BY <2>2, <2>3 DEF End
  <2> QED BY <1>0, <1>1, <2>4, <2>5
<1> QED BY <1>1, <1>2

\* The j-th block, from the end, of the k-th list: each block is in one list.
Place(k, j) == End(k) + 1 - j

LEMMA Places ==
  ASSUME BA!BlockAssumption, NEW n \in Nat
  PROVE  /\ \A k \in 1..n : \A j \in 1..list_length : Place(k, j) \in 1..End(n)
         /\ \A k, h \in 1..n : \A j, i \in 1..list_length :
              Place(k, j) = Place(h, i) => k = h /\ j = i
         /\ \A b \in 1..End(n) : \E k \in 1..n : \E j \in 1..list_length : Place(k, j) = b
<1>0. list_length \in Nat /\ \A k \in Nat : End(k) \in Nat
  BY Lengths, Ends
<1>1. ASSUME NEW k \in 1..n, NEW j \in 1..list_length PROVE End(k) + 1 - j \in 1..End(n)
  <2>1. k - 1 \in Nat /\ k - 1 + 1 = k /\ k \in Nat /\ (k < n \/ k = n)
    OBVIOUS
  <2>2. End(k) = End(k - 1) + list_length /\ End(k - 1) \in Nat
    BY <2>1, Ends
  <2>3. End(k) <= End(n)
    <3>1. CASE k < n
      BY <1>0, <2>1, <3>1, Ends
    <3>2. CASE k = n
      BY <1>0, <3>2
    <3> QED BY <2>1, <3>1, <3>2
  <2> QED BY <1>0, <2>1, <2>2, <2>3
<1>2. ASSUME NEW k \in 1..n, NEW h \in 1..n, NEW j \in 1..list_length, NEW i \in 1..list_length,
             End(k) + 1 - j = End(h) + 1 - i
      PROVE  k = h /\ j = i
  <2>1. k \in Nat /\ h \in Nat /\ End(k) \in Nat /\ End(h) \in Nat
    BY <1>0
  <2>2. k < h => End(k) + list_length <= End(h)
    BY <2>1, Ends
  <2>3. h < k => End(h) + list_length <= End(k)
    BY <2>1, Ends
  <2>4. k = h
    BY <1>0, <1>2, <2>1, <2>2, <2>3
  <2>5. j = i
    BY <1>0, <1>2, <2>1, <2>4
  <2> QED BY <2>4, <2>5
<1>3. ASSUME NEW b \in 1..End(n)
      PROVE  \E k \in 1..n : \E j \in 1..list_length : End(k) + 1 - j = b
  <2>1. PICK T : T = {k \in 1..n : b <= End(k)}
    OBVIOUS
  <2>2. n \in T
    <3>1. n # 0
      BY Ends
    <3> QED BY <2>1, <3>1
  <2>3. PICK k \in T : \A h \in T : k <= h
    BY <2>1, <2>2, Least
  <2>4. k \in 1..n /\ b <= End(k) /\ k - 1 \in Nat /\ k - 1 + 1 = k
    BY <2>1
  <2>5. End(k) = End(k - 1) + list_length /\ End(k - 1) \in Nat /\ End(0) = 0
    BY <2>4, Ends
  <2>6. End(k - 1) < b
    <3>1. CASE k = 1
      BY <2>5, <3>1
    <3>2. CASE k # 1
      <4>1. k - 1 \in 1..n /\ ~ (k <= k - 1)
        BY <2>4, <3>2
      <4>2. ~ (b <= End(k - 1))
        BY <2>1, <2>3, <4>1
      <4> QED BY <2>5, <4>2
    <3> QED BY <3>1, <3>2
  <2>7. End(k) + 1 - b \in 1..list_length /\ End(k) + 1 - (End(k) + 1 - b) = b
    BY <1>0, <2>4, <2>5, <2>6
  <2> QED BY <2>4, <2>7
<1> QED BY <1>1, <1>2, <1>3 DEF Place

\* The first buffer is a list per worker, all in the global stack.
LEMMA ReservedArranged ==
  ASSUME BA!BlockAssumption, NEW ll, \A w \in Worker : ll[w].sz = 0,
         NEW n, n = Cardinality(Worker), NEW nx,
         \A b \in 1..End(n) : (\A k \in 1..n : b # End(k)) => nx[b] = b + 1,
         NEW gs, Len(gs) = n, \A k \in 1..n : gs[k] = Place(k, list_length)
  PROVE  Arranged(nx, ll, gs, 1..End(n), {})
<1>0. n \in Nat /\ list_length \in Nat /\ list_length >= 2
  BY WorkersNumbered, Lengths
<1>p. /\ \A k \in 1..n : \A j \in 1..list_length : Place(k, j) \in 1..End(n)
      /\ \A k, h \in 1..n : \A j, i \in 1..list_length :
           Place(k, j) = Place(h, i) => k = h /\ j = i
  BY <1>0, Places
<1>1. PICK M : \A w \in Worker : M[w] \in 1..n /\ \A v \in Worker : M[v] = M[w] => v = w
  BY WorkersNumbered
<1>2. PICK F, len, N :
        /\ F = [s \in Nat |-> [j \in 1..list_length |-> Place(s - n, j)]]
        /\ len = [s \in Nat |-> IF s \in n + 1..n + n THEN list_length ELSE 0]
        /\ N = [k \in 1..n |-> n + k]
  OBVIOUS
<1>3. ASSUME NEW s \in Nat, NEW j \in 1..len[s]
      PROVE  /\ s - n \in 1..n /\ len[s] = list_length /\ j \in 1..list_length
             /\ F[s][j] = Place(s - n, j)
  <2>1. s \in n + 1..n + n /\ len[s] = list_length
    BY <1>2
  <2>2. s - n \in 1..n
    BY <1>0, <2>1
  <2> QED BY <1>2, <2>1, <2>2
<1>4. Held(F, len, 1..End(n), {})
  <2> SUFFICES ASSUME NEW s \in Nat, NEW j \in 1..len[s] PROVE F[s][j] \in 1..End(n)
    BY DEF Held
  <2>1. s - n \in 1..n /\ j \in 1..list_length /\ F[s][j] = Place(s - n, j)
    BY <1>3
  <2> QED BY <1>p, <2>1
<1>5. Follow(F, len, nx)
  <2> SUFFICES ASSUME NEW s \in Nat, NEW j \in 2..len[s] PROVE nx[F[s][j]] = F[s][j - 1]
    BY DEF Follow
  <2>1. len[s] \in Nat
    BY <1>0, <1>2
  <2>2. j \in 1..len[s] /\ j - 1 \in 1..len[s] /\ j - 1 + 1 = j
    BY <2>1
  <2>3. PICK k : k = s - n
    OBVIOUS
  <2>4. /\ k \in 1..n /\ j \in 1..list_length /\ j # 1 /\ 1 \in 1..list_length
        /\ F[s][j] = Place(k, j) /\ F[s][j - 1] = Place(k, j - 1)
    BY <1>0, <1>3, <2>2, <2>3
  <2>5. End(k) \in Nat /\ F[s][j] \in 1..End(n)
    BY <1>0, <2>4, Ends, Places
  <2>6. ASSUME NEW h \in 1..n, F[s][j] = End(h) PROVE FALSE
    <3>1. End(h) \in Nat
      BY Ends
    <3>2. Place(k, j) = Place(h, 1)
      BY <2>4, <2>6, <3>1 DEF Place
    <3> QED BY <1>p, <2>4, <3>2, SMTT(30)
  <2>7. nx[F[s][j]] = F[s][j] + 1
    BY <2>5, <2>6
  <2> QED BY <2>4, <2>5, <2>7 DEF Place
<1>6. Once(F, len)
  <2> SUFFICES ASSUME NEW s \in Nat, NEW t \in Nat, NEW j \in 1..len[s], NEW i \in 1..len[t],
                      F[s][j] = F[t][i]
               PROVE  s = t /\ j = i
    BY DEF Once
  <2>1. /\ s - n \in 1..n /\ j \in 1..list_length /\ F[s][j] = Place(s - n, j)
        /\ t - n \in 1..n /\ i \in 1..list_length /\ F[t][i] = Place(t - n, i)
    BY <1>3
  <2>2. PICK k, h : k = s - n /\ h = t - n
    OBVIOUS
  <2>3. k \in 1..n /\ h \in 1..n /\ Place(k, j) = Place(h, i)
    BY <2>1, <2>2
  <2>4. k = h /\ j = i
    BY <1>p, <2>1, <2>3
  <2> QED BY <1>0, <2>2, <2>4
<1>7. Covers(F, len, 1..End(n), {})
  <2> SUFFICES ASSUME NEW b \in 1..End(n)
               PROVE  \E s \in Nat : \E j \in 1..len[s] : F[s][j] = b
    BY DEF Covers
  <2>1. PICK k \in 1..n : \E j \in 1..list_length : Place(k, j) = b
    BY <1>0, Places
  <2>2. PICK j \in 1..list_length : Place(k, j) = b
    BY <2>1
  <2>3. n + k \in Nat /\ n + k \in n + 1..n + n /\ n + k - n = k
    BY <1>0
  <2>4. len[n + k] = list_length /\ F[n + k][j] = b
    BY <1>2, <2>2, <2>3
  <2> QED BY <2>3, <2>4
<1>8. len \in [Nat -> Nat]
  BY <1>0, <1>2
<1>9. Chained(F, len, nx, 1..End(n), {})
  BY <1>4, <1>5, <1>6, <1>7, <1>8 DEF Chained
<1>10. \A k \in 1..n : N[k] = n + k /\ n + k \in n + 1..n + n /\ n + k \in 1..n + n /\ n + k - n = k
  BY <1>0, <1>2, SMTT(30)
<1>11. \A w \in Worker : M[w] \in Nat /\ M[w] \in 1..n + n /\ M[w] \notin n + 1..n + n
  BY <1>0, <1>1
<1>12. Distinct(M, N, n + n, Len(gs))
  <2>1. \A k \in 1..Len(gs) : N[k] \in 1..n + n /\ N[k] \in n + 1..n + n
    BY <1>10
  <2>2. ASSUME NEW i \in 1..Len(gs), NEW k \in 1..Len(gs), N[i] = N[k] PROVE i = k
    <3>1. n + i = n + k
      BY <1>10, <2>2
    <3> QED BY <1>0, <3>1
  <2>3. \A w \in Worker : \A i \in 1..Len(gs) : M[w] # N[i]
    BY <1>11, <2>1
  <2> QED BY <1>1, <1>11, <2>1, <2>2, <2>3 DEF Distinct
<1>13. ASSUME NEW s \in Nat, len[s] # 0
       PROVE  (\E w \in Worker : s = M[w]) \/ \E k \in 1..Len(gs) : s = N[k]
  <2>1. s \in n + 1..n + n
    BY <1>2, <1>13
  <2>2. s - n \in 1..n /\ n + (s - n) = s
    BY <1>0, <2>1
  <2>3. N[s - n] = s
    BY <1>2, <2>2
  <2> QED BY <2>2, <2>3
<1>14. \A w \in Worker : Noted(F, len, M[w], ll[w])
  <2> TAKE w \in Worker
  <2>1. len[M[w]] = 0
    BY <1>2, <1>11
  <2>2. ~ (0 > 0) /\ ~ (0 >= list_length + 2)
    BY <1>0
  <2> QED BY <2>1, <2>2 DEF Noted
<1>15. ASSUME NEW k \in 1..Len(gs)
       PROVE  len[N[k]] = list_length /\ gs[k] = F[N[k]][list_length]
  <2>1. N[k] = n + k /\ n + k \in Nat /\ n + k \in n + 1..n + n /\ n + k - n = k
    BY <1>0, <1>10
  <2>2. list_length \in 1..list_length
    BY <1>0
  <2> QED BY <1>2, <2>1, <2>2
<1>16. Named(M, N, n + n, F, len, ll, gs)
  <2>1. n + n \in Nat /\ Len(gs) \in Nat
    BY <1>0
  <2> QED BY <1>12, <1>13, <1>14, <1>15, <2>1 DEF Named
<1> QED BY <1>9, <1>16 DEF Arranged

LEMMA ReserveKeeps ==
  ASSUME BA!BlockAssumption, AllocInv, BA!Reserve
  PROVE  AllocInv'
<1>1. /\ next \in [BA!Block -> BA!Pointer] /\ local_lists \in [Worker -> List]
      /\ allocated = {} /\ global_stack = << >> /\ used = {}
      /\ UNCHANGED <<local_lists, used>>
  BY ShapeFacts DEF BA!Reserve
<1>2. \A w \in Worker : local_lists[w].sz = 0
  <2> TAKE w \in Worker
  <2>1. PICK F, len, M, N, m : /\ Chained(F, len, next, {}, {})
                               /\ Named(M, N, m, F, len, local_lists, << >>)
    BY <1>1 DEF AllocInv, Arranged
  <2>2. /\ M[w] \in Nat /\ len[M[w]] \in Nat /\ local_lists[w].sz = len[M[w]]
        /\ len[M[w]] > 0 => local_lists[w].head \in {} \ {}
    BY <2>1, OwnList
  <2> QED BY <2>2
<1>3. PICK n, q : n = Cardinality(Worker) /\ q = BA!Buffer(n * list_length)
  OBVIOUS
<1>4. /\ BA!ToSet(q) \subseteq BA!Block
      /\ next' = BA!Linked(next, q)
      /\ global_stack' = [k \in 1..n |-> q[(k - 1) * list_length + 1]]
      /\ allocated' = BA!ToSet(q)
  BY <1>3, SameSizes DEF BA!Reserve
<1>5. n \in Nat /\ list_length \in Nat /\ list_length >= 2 /\ max_blocks \in Nat /\ End(n) \in Nat
  BY <1>3, WorkersNumbered, Lengths, Ends
<1>6. q = [i \in 1..End(n) |-> 0 + i]
  <2>1. Cardinality(allocated) = 0
    BY <1>1, FS_EmptySet
  <2> QED BY <1>3, <2>1, SameSizes DEF BA!Buffer, End
<1>7. PICK nx : nx = BA!Linked(next, q)
  OBVIOUS
<1>8. BufferLinked(q, next, nx, 0, End(n))
  <2>1. 0 \in Nat /\ End(n) = n * list_length
    BY DEF End
  <2> QED BY <1>1, <1>4, <1>5, <1>6, <1>7, <2>1, LinkedBuffer
<1>9. BA!ToSet(q) = 1..End(n) /\ nx \in [BA!Block -> BA!Pointer]
  <2>1. 0 + 1 = 1 /\ 0 + End(n) = End(n)
    BY <1>5
  <2> QED BY <1>8, <2>1 DEF BufferLinked
<1>10. ASSUME NEW b \in 1..End(n), \A k \in 1..n : b # End(k) PROVE nx[b] = b + 1
  <2>1. ASSUME NEW j \in 1..End(n), b = j * list_length PROVE FALSE
    <3>1. j \in Nat /\ n \in Nat /\ End(j) = b /\ End(j) \in Nat
      BY <1>5, <2>1, Ends DEF End
    <3>2. ~ (n < j)
      <4>1. n < j => End(n) + list_length <= End(j)
        BY <3>1, Ends
      <4> QED BY <1>5, <3>1, <4>1
    <3>3. j \in 1..n
      BY <3>1, <3>2
    <3> QED BY <1>10, <3>1, <3>3
  <2>2. 0 + b = b
    OBVIOUS
  <2> QED BY <1>8, <2>1, <2>2 DEF BufferLinked
<1>11. PICK gs : gs = global_stack'
  OBVIOUS
<1>12. ASSUME NEW k \in 1..n
       PROVE  /\ gs[k] = Place(k, list_length)
              /\ gs[k] \in BA!Block
  <2>1. k - 1 \in Nat /\ k - 1 + 1 = k
    OBVIOUS
  <2>2. End(k) = End(k - 1) + list_length /\ End(k - 1) \in Nat
    BY <2>1, Ends
  <2>3. Place(k, list_length) \in 1..End(n)
    <3>1. list_length \in 1..list_length
      BY <1>5
    <3> QED BY <1>5, <3>1, Places
  <2>4. End(k - 1) + 1 = Place(k, list_length)
    BY <1>5, <2>2 DEF Place
  <2>5. gs[k] = q[End(k - 1) + 1]
    BY <1>4, <1>11 DEF End
  <2>6. q[End(k - 1) + 1] = End(k - 1) + 1
    BY <1>6, <2>2, <2>3, <2>4
  <2> QED BY <1>4, <1>9, <2>3, <2>4, <2>5, <2>6
<1>13. Len(gs) = n /\ gs \in Seq(BA!Block)
  <2>1. gs = [k \in 1..n |-> gs[k]]
    BY <1>4, <1>11
  <2>2. gs \in [1..n -> BA!Block]
    BY <1>12, <2>1
  <2> QED BY <1>5, <2>2
<1>14. Arranged(nx, local_lists, gs, 1..End(n), {})
  BY <1>2, <1>3, <1>10, <1>12, <1>13, ReservedArranged
<1>15. End(n) \in 0..max_blocks
  <2>1. End(n) # 0 => End(n) \in BA!Block
    BY <1>4, <1>5, <1>9
  <2> QED BY <1>5, <2>1 DEF BA!Block
<1> QED BY <1>1, <1>4, <1>7, <1>9, <1>11, <1>13, <1>14, <1>15 DEF AllocInv, Shape, List

\* What num_used_blocks adds up: the sizes z[w] of the workers in S.
Sums(f, ll) ==
  f = [S \in SUBSET Worker |->
         IF S = {} THEN 0
         ELSE LET w == CHOOSE w \in S : TRUE IN ll[w].sz + f[S \ {w}]]

LEMMA SumsAgree ==
  ASSUME IsFiniteSet(Worker), NEW ll, NEW f, NEW g, Sums(f, ll), Sums(g, ll)
  PROVE  f[Worker] = g[Worker]
<1>1. PICK T : T = {S \in SUBSET Worker : f[S] # g[S]}
  OBVIOUS
<1>2. SUFFICES ASSUME T # {} PROVE FALSE
  BY <1>1
<1>3. T \subseteq FiniteSubsetsOf(Worker)
  BY <1>1, FS_FiniteSubsetsOfFinite
<1>4. PICK A \in T : \A B \in T : ~ (<<B, A>> \in StrictSubsetOrdering(Worker))
  BY <1>2, <1>3, FS_StrictSubsetOrderingWellFounded, WFMin
<1>5. A \in SUBSET Worker /\ f[A] # g[A]
  BY <1>1
<1>6. f[{}] = 0 /\ g[{}] = 0 /\ A # {}
  BY <1>5 DEF Sums
<1>7. PICK w : w = CHOOSE v \in A : TRUE
  OBVIOUS
<1>8. w \in A /\ A \ {w} \in SUBSET Worker
  BY <1>5, <1>6, <1>7
<1>9. f[A \ {w}] = g[A \ {w}]
  <2>1. <<A \ {w}, A>> \in StrictSubsetOrdering(Worker)
    BY <1>5, <1>8 DEF StrictSubsetOrdering
  <2> QED BY <1>1, <1>4, <1>8, <2>1
<1>10. f[A] = ll[w].sz + f[A \ {w}] /\ g[A] = ll[w].sz + g[A \ {w}]
  BY <1>5, <1>6, <1>7 DEF Sums
<1> QED BY <1>5, <1>9, <1>10

LEMMA Counted ==
  ASSUME IsFiniteSet(Worker), NEW g, Sums(g, local_lists)
  PROVE  BA!num_used_blocks
           = Cardinality(allocated) - (Len(global_stack) * list_length + g[Worker])
<1> DEFINE sizes == CHOOSE f : f = [S \in SUBSET Worker |->
             IF S = {} THEN 0
             ELSE LET w == CHOOSE w \in S : TRUE IN local_lists[w].sz + f[S \ {w}]]
<1>1. Sums(sizes, local_lists)
  <2>1. sizes = [S \in SUBSET Worker |->
             IF S = {} THEN 0
             ELSE LET w == CHOOSE w \in S : TRUE IN local_lists[w].sz + sizes[S \ {w}]]
    BY Zenon DEF Sums
  <2> QED BY <2>1, Zenon DEF Sums
<1>2. BA!num_used_blocks
        = Cardinality(allocated) - (Len(global_stack) * list_length + sizes[Worker])
  <2>1. BA!num_used_blocks
          = BA!Cardinality(allocated) - (Len(global_stack) * list_length + sizes[Worker])
    BY Zenon DEF BA!num_used_blocks
  <2> QED BY <2>1, SameSizes, Zenon
<1> HIDE DEF sizes
<1>3. sizes[Worker] = g[Worker]
  BY <1>1, SumsAgree
<1> QED BY <1>2, <1>3

\* The blocks that the lists of the workers S have, and those of the stack's first n.
OwnBlocks(F, len, M, S) ==
  {b \in BA!Block : \E w \in S : \E k \in 1..len[M[w]] : F[M[w]][k] = b}

StackBlocks(F, N, n) ==
  {b \in BA!Block : \E i \in 1..n : \E k \in 1..list_length : F[N[i]][k] = b}

\* f numbers the members of S: there are as many as numbers.
Numbers(f, n, S) ==
  /\ \A b \in S : \E k \in 1..n : f[k] = b
  /\ \A k \in 1..n : f[k] \in S
  /\ \A j, k \in 1..n : f[j] = f[k] => j = k

LEMMA SameCount ==
  ASSUME NEW n \in Nat, NEW S, NEW f, Numbers(f, n, S)
  PROVE  IsFiniteSet(S) /\ Cardinality(S) = n
<1>0. /\ \A b \in S : \E k \in 1..n : f[k] = b
      /\ \A k \in 1..n : f[k] \in S
      /\ \A j, k \in 1..n : f[j] = f[k] => j = k
  BY DEF Numbers
<1>1. PICK g : g = [k \in 1..n |-> f[k]]
  OBVIOUS
<1>2. g \in Bijection(1..n, S)
  <2>1. g \in [1..n -> S] /\ \A k \in 1..n : g[k] = f[k]
    BY <1>0, <1>1
  <2>2. g \in Surjection(1..n, S)
    BY <1>0, <2>1 DEF Surjection
  <2>3. g \in Injection(1..n, S)
    BY <1>0, <2>1 DEF Injection, IsInjective
  <2> QED BY <2>2, <2>3 DEF Bijection
<1>3. IsFiniteSet(1..n) /\ Cardinality(1..n) = n
  BY FS_Interval
<1> QED BY <1>2, <1>3, FS_Bijection DEF ExistsBijection

LEMMA UpTo == ASSUME NEW n \in Nat PROVE IsFiniteSet(1..n) /\ Cardinality(1..n) = n
BY FS_Interval

LEMMA Disjoint ==
  ASSUME NEW A, NEW B, IsFiniteSet(A), IsFiniteSet(B), A \cap B = {}
  PROVE  IsFiniteSet(A \cup B) /\ Cardinality(A \cup B) = Cardinality(A) + Cardinality(B)
<1>1. Cardinality(A) \in Nat /\ Cardinality(B) \in Nat /\ Cardinality(A \cap B) = 0
  BY FS_CardinalityType, FS_EmptySet
<1>2. /\ IsFiniteSet(A \cup B)
      /\ Cardinality(A \cup B) = Cardinality(A) + Cardinality(B) - Cardinality(A \cap B)
  BY FS_Union
<1> QED BY <1>1, <1>2

LEMMA OwnCount ==
  ASSUME BA!BlockAssumption,
         NEW F, NEW len, NEW nx, NEW al, NEW us, Chained(F, len, nx, al, us), al \subseteq BA!Block,
         NEW M, NEW N, NEW m, NEW ll, NEW gs, Named(M, N, m, F, len, ll, gs),
         NEW g, g = [S \in SUBSET Worker |-> Cardinality(OwnBlocks(F, len, M, S))]
  PROVE  Sums(g, ll)
<1>0. /\ len \in [Nat -> Nat] /\ Held(F, len, al, us) /\ Once(F, len)
      /\ \A w \in Worker : ll[w].sz = len[M[w]] /\ M[w] \in Nat /\ len[M[w]] \in Nat
      /\ \A v, w \in Worker : M[v] = M[w] => v = w
  <2>1. Distinct(M, N, m, Len(gs)) /\ m \in Nat /\ \A w \in Worker : Noted(F, len, M[w], ll[w])
    BY DEF Named
  <2>2. \A w \in Worker : M[w] \in Nat
    BY <2>1 DEF Distinct
  <2>3. len \in [Nat -> Nat] /\ Held(F, len, al, us) /\ Once(F, len)
    BY DEF Chained
  <2> QED BY <2>1, <2>2, <2>3 DEF Distinct, Noted
<1>1. \A S : OwnBlocks(F, len, M, S) \subseteq BA!Block
  BY DEF OwnBlocks
<1>2. \A S : IsFiniteSet(OwnBlocks(F, len, M, S)) /\ Cardinality(OwnBlocks(F, len, M, S)) \in Nat
  <2>1. IsFiniteSet(BA!Block)
    BY Lengths, FS_Interval DEF BA!Block
  <2> QED BY <1>1, <2>1, FS_Subset, FS_CardinalityType
<1>3. Cardinality(OwnBlocks(F, len, M, {})) = 0
  <2>1. OwnBlocks(F, len, M, {}) = {}
    BY DEF OwnBlocks
  <2> QED BY <2>1, FS_EmptySet
<1>4. ASSUME NEW w \in Worker PROVE Cardinality(OwnBlocks(F, len, M, {w})) = ll[w].sz
  <2>1. PICK f, n : f = F[M[w]] /\ n = len[M[w]]
    OBVIOUS
  <2>2. n \in Nat /\ ll[w].sz = n /\ M[w] \in Nat
    BY <1>0, <2>1
  <2>3. \A k \in 1..n : f[k] \in BA!Block
    BY <1>0, <2>1 DEF Held
  <2>4. \A b : b \in OwnBlocks(F, len, M, {w}) <=> b \in BA!Block /\ \E k \in 1..n : f[k] = b
    BY <2>1 DEF OwnBlocks
  <2>5. ASSUME NEW j \in 1..n, NEW k \in 1..n, f[j] = f[k] PROVE j = k
    <3>1. /\ M[w] \in Nat /\ j \in 1..len[M[w]] /\ k \in 1..len[M[w]]
          /\ F[M[w]][j] = F[M[w]][k]
      BY <2>1, <2>2, <2>5
    <3>2. Once(F, len)
      BY <1>0
    <3> QED BY <3>1, <3>2, Apart
  <2>6. PICK S : S = OwnBlocks(F, len, M, {w})
    OBVIOUS
  <2>7. (\A b \in S : \E k \in 1..n : f[k] = b) /\ \A k \in 1..n : f[k] \in S
    BY <2>3, <2>4, <2>6
  <2>8. Numbers(f, n, S)
    BY <2>5, <2>7 DEF Numbers
  <2>9. Cardinality(S) = n
    BY <2>2, <2>8, SameCount
  <2> QED BY <2>2, <2>6, <2>9
<1>5. ASSUME NEW S \in SUBSET Worker, S # {}, NEW w \in S
      PROVE  Cardinality(OwnBlocks(F, len, M, S))
               = ll[w].sz + Cardinality(OwnBlocks(F, len, M, S \ {w}))
  <2>1. PICK A, B, C : /\ A = OwnBlocks(F, len, M, {w}) /\ B = OwnBlocks(F, len, M, S \ {w})
                       /\ C = OwnBlocks(F, len, M, S)
    OBVIOUS
  <2>2. C = A \cup B
    <3>1. \A b : b \in C <=> b \in A \/ b \in B
      BY <2>1 DEF OwnBlocks
    <3> QED BY <3>1
  <2>3. A \cap B = {}
    <3> SUFFICES ASSUME NEW b \in A, b \in B PROVE FALSE
      OBVIOUS
    <3>1. PICK k \in 1..len[M[w]] : F[M[w]][k] = b
      BY <2>1 DEF OwnBlocks
    <3>2. PICK v \in S \ {w} : \E l \in 1..len[M[v]] : F[M[v]][l] = b
      BY <2>1 DEF OwnBlocks
    <3>3. PICK l \in 1..len[M[v]] : F[M[v]][l] = b
      BY <3>2
    <3>4. v \in Worker /\ w \in Worker /\ v # w /\ M[w] \in Nat /\ M[v] \in Nat
      BY <1>0
    <3>5. Once(F, len)
      BY <1>0
    <3>6. M[w] = M[v]
      BY <3>1, <3>3, <3>4, <3>5 DEF Once
    <3> QED BY <1>0, <3>4, <3>6
  <2>4. IsFiniteSet(A) /\ IsFiniteSet(B) /\ Cardinality(B) \in Nat /\ Cardinality(A) = ll[w].sz
    BY <1>2, <1>4, <2>1
  <2>5. Cardinality(A \cup B) = Cardinality(A) + Cardinality(B)
    BY <2>3, <2>4, Disjoint
  <2> QED BY <2>1, <2>2, <2>4, <2>5
<1>6. ASSUME NEW S \in SUBSET Worker
      PROVE  g[S] = IF S = {} THEN 0
                    ELSE LET w == CHOOSE w \in S : TRUE IN ll[w].sz + g[S \ {w}]
  <2>1. CASE S = {}
    BY <1>3, <2>1
  <2>2. CASE S # {}
    <3>1. PICK w : w = CHOOSE v \in S : TRUE
      OBVIOUS
    <3>2. w \in S /\ S \ {w} \in SUBSET Worker
      BY <2>2, <3>1
    <3>3. g[S] = ll[w].sz + g[S \ {w}]
      BY <1>5, <2>2, <3>2
    <3> QED BY <2>2, <3>1, <3>3
  <2> QED BY <2>1, <2>2
<1> QED BY <1>6 DEF Sums

LEMMA StackCount ==
  ASSUME BA!BlockAssumption,
         NEW F, NEW len, NEW nx, NEW al, NEW us, Chained(F, len, nx, al, us), al \subseteq BA!Block,
         NEW M, NEW N, NEW m, NEW ll, NEW gs, Named(M, N, m, F, len, ll, gs),
         NEW n, n = Len(gs)
  PROVE  Cardinality(StackBlocks(F, N, n)) = n * list_length
<1>0. /\ n \in Nat /\ list_length \in Nat /\ Held(F, len, al, us) /\ Once(F, len)
      /\ \A i \in 1..n : N[i] \in Nat /\ len[N[i]] = list_length
      /\ \A i, j \in 1..n : N[i] = N[j] => i = j
  <2>1. Distinct(M, N, m, n) /\ m \in Nat /\ n \in Nat
    BY DEF Named
  <2>2. \A i \in 1..n : len[N[i]] = list_length
    BY DEF Named
  <2>3. \A i \in 1..n : N[i] \in Nat
    BY <2>1 DEF Distinct
  <2> QED BY <2>1, <2>2, <2>3, Lengths DEF Chained, Distinct
<1>1. PICK P, g : /\ P = (1..n) \X (1..list_length)
                  /\ g = [x \in P |-> F[N[x[1]]][x[2]]]
  OBVIOUS
<1>2. IsFiniteSet(P) /\ Cardinality(P) = n * list_length
  <2>1. IsFiniteSet(1..n) /\ Cardinality(1..n) = n
    BY <1>0, UpTo
  <2>2. IsFiniteSet(1..list_length) /\ Cardinality(1..list_length) = list_length
    BY <1>0, UpTo
  <2>3. /\ IsFiniteSet((1..n) \X (1..list_length))
        /\ Cardinality((1..n) \X (1..list_length)) = Cardinality(1..n) * Cardinality(1..list_length)
    BY <2>1, <2>2, FS_Product
  <2> QED BY <1>1, <2>1, <2>2, <2>3
<1>3. \A x \in P : x[1] \in 1..n /\ x[2] \in 1..list_length /\ x = <<x[1], x[2]>>
  BY <1>1
<1>4. ASSUME NEW x \in P PROVE g[x] \in StackBlocks(F, N, n)
  <2>1. g[x] = F[N[x[1]]][x[2]] /\ x[1] \in 1..n /\ x[2] \in 1..list_length
    BY <1>1, <1>3
  <2>2. g[x] \in BA!Block
    BY <1>0, <2>1 DEF Held
  <2> QED BY <2>1, <2>2 DEF StackBlocks
<1>5. ASSUME NEW b \in StackBlocks(F, N, n) PROVE \E x \in P : g[x] = b
  <2>1. PICK i \in 1..n : \E k \in 1..list_length : F[N[i]][k] = b
    BY DEF StackBlocks
  <2>2. PICK k \in 1..list_length : F[N[i]][k] = b
    BY <2>1
  <2>3. <<i, k>> \in P /\ g[<<i, k>>] = b
    BY <1>1, <2>2
  <2> QED BY <2>3
<1>6. ASSUME NEW x \in P, NEW y \in P, g[x] = g[y] PROVE x = y
  <2>1. F[N[x[1]]][x[2]] = F[N[y[1]]][y[2]]
    BY <1>1, <1>6
  <2>2. /\ N[x[1]] \in Nat /\ x[2] \in 1..len[N[x[1]]]
        /\ N[y[1]] \in Nat /\ y[2] \in 1..len[N[y[1]]]
    BY <1>0, <1>3
  <2>3. N[x[1]] = N[y[1]] /\ x[2] = y[2]
    <3>1. Once(F, len)
      BY <1>0
    <3>2. PICK s, t, k, l : s = N[x[1]] /\ t = N[y[1]] /\ k = x[2] /\ l = y[2]
      OBVIOUS
    <3>3. s \in Nat /\ t \in Nat /\ k \in 1..len[s] /\ l \in 1..len[t] /\ F[s][k] = F[t][l]
      BY <2>1, <2>2, <3>2
    <3>4. s = t /\ k = l
      BY <3>1, <3>3, Apart
    <3> QED BY <3>2, <3>4
  <2>4. x[1] = y[1]
    BY <1>0, <1>3, <2>3
  <2> QED BY <1>3, <2>3, <2>4
<1>7. g \in Bijection(P, StackBlocks(F, N, n))
  <2>1. g \in [P -> StackBlocks(F, N, n)]
    BY <1>1, <1>4
  <2>2. g \in Surjection(P, StackBlocks(F, N, n))
    BY <1>5, <2>1 DEF Surjection
  <2>3. g \in Injection(P, StackBlocks(F, N, n))
    BY <1>6, <2>1 DEF Injection, IsInjective
  <2> QED BY <2>2, <2>3 DEF Bijection
<1> QED BY <1>2, <1>7, FS_Bijection DEF ExistsBijection

\* What the allocator counts as used is what is used.
LEMMA NumUsed ==
  ASSUME BA!BlockAssumption, AllocInv
  PROVE  IsFiniteSet(used) /\ BA!num_used_blocks = Cardinality(used)
<1>0. allocated \subseteq BA!Block /\ used \subseteq allocated
  BY ShapeFacts
<1>1. PICK F, len, M, N, m : /\ Chained(F, len, next, allocated, used)
                             /\ Named(M, N, m, F, len, local_lists, global_stack)
  BY DEF AllocInv, Arranged
<1>2. PICK n, own, stacked : /\ n = Len(global_stack)
                             /\ own = OwnBlocks(F, len, M, Worker)
                             /\ stacked = StackBlocks(F, N, n)
  OBVIOUS
<1>3. PICK g : g = [S \in SUBSET Worker |-> Cardinality(OwnBlocks(F, len, M, S))]
  OBVIOUS
<1>4. Sums(g, local_lists)
  BY <1>0, <1>1, <1>3, OwnCount
<1>5. BA!num_used_blocks = Cardinality(allocated) - (n * list_length + Cardinality(own))
  <2>1. g[Worker] = Cardinality(own)
    BY <1>2, <1>3
  <2> QED BY <1>2, <1>4, <2>1, Counted, Lengths
<1>6. Cardinality(stacked) = n * list_length
  BY <1>0, <1>1, <1>2, StackCount
<1>7. /\ Held(F, len, allocated, used) /\ Once(F, len) /\ Covers(F, len, allocated, used)
      /\ \A w \in Worker : M[w] \in Nat
      /\ \A i \in 1..n : N[i] \in Nat /\ len[N[i]] = list_length
      /\ \A w \in Worker : \A i \in 1..n : M[w] # N[i]
  <2>1. Distinct(M, N, m, n) /\ m \in Nat
    BY <1>1, <1>2 DEF Named
  <2>2. /\ \A w \in Worker : M[w] \in Nat
        /\ \A i \in 1..n : N[i] \in Nat
    BY <2>1 DEF Distinct
  <2> QED BY <1>1, <1>2, <2>1, <2>2 DEF Chained, Named, Distinct
<1>8. own \cup stacked = allocated \ used
  <2>1. own \subseteq allocated \ used
    BY <1>2, <1>7 DEF OwnBlocks, Held
  <2>2. stacked \subseteq allocated \ used
    BY <1>2, <1>7 DEF StackBlocks, Held
  <2>3. ASSUME NEW b \in allocated \ used PROVE b \in own \cup stacked
    <3>1. PICK s \in Nat : \E k \in 1..len[s] : F[s][k] = b
      BY <1>7 DEF Covers
    <3>2. PICK k \in 1..len[s] : F[s][k] = b
      BY <3>1
    <3>3. b \in BA!Block /\ len[s] # 0
      BY <1>0, <3>2
    <3>4. (\E w \in Worker : s = M[w]) \/ \E i \in 1..n : s = N[i]
      BY <1>1, <1>2, <3>3 DEF Named
    <3>5. CASE \E w \in Worker : s = M[w]
      BY <1>2, <3>2, <3>3, <3>5 DEF OwnBlocks
    <3>6. CASE \E i \in 1..n : s = N[i]
      BY <1>2, <1>7, <3>2, <3>3, <3>6 DEF StackBlocks
    <3> QED BY <3>4, <3>5, <3>6
  <2> QED BY <2>1, <2>2, <2>3
<1>9. own \cap stacked = {}
  <2> SUFFICES ASSUME NEW b \in own, b \in stacked PROVE FALSE
    OBVIOUS
  <2>1. PICK w \in Worker : \E k \in 1..len[M[w]] : F[M[w]][k] = b
    BY <1>2 DEF OwnBlocks
  <2>2. PICK k \in 1..len[M[w]] : F[M[w]][k] = b
    BY <2>1
  <2>3. PICK i \in 1..n : \E j \in 1..list_length : F[N[i]][j] = b
    BY <1>2 DEF StackBlocks
  <2>4. PICK j \in 1..len[N[i]] : F[N[i]][j] = b
    BY <1>7, <2>3
  <2>5. M[w] = N[i]
    BY <1>7, <2>2, <2>4 DEF Once
  <2> QED BY <1>7, <2>5
<1>10. /\ IsFiniteSet(allocated) /\ IsFiniteSet(used) /\ IsFiniteSet(own) /\ IsFiniteSet(stacked)
       /\ Cardinality(allocated) \in Nat /\ Cardinality(used) \in Nat
       /\ Cardinality(own) \in Nat /\ Cardinality(stacked) \in Nat
  <2>1. IsFiniteSet(BA!Block)
    BY Lengths, FS_Interval DEF BA!Block
  <2>2. own \subseteq BA!Block /\ stacked \subseteq BA!Block /\ used \subseteq BA!Block
    BY <1>0, <1>8
  <2> QED BY <1>0, <2>1, <2>2, FS_Subset, FS_CardinalityType
<1>11. Cardinality(allocated) = Cardinality(used) + (Cardinality(own) + Cardinality(stacked))
  <2>1. PICK free : free = own \cup stacked
    OBVIOUS
  <2>2. IsFiniteSet(free) /\ Cardinality(free) = Cardinality(own) + Cardinality(stacked)
    BY <1>9, <1>10, <2>1, Disjoint
  <2>3. used \cup free = allocated /\ used \cap free = {}
    BY <1>0, <1>8, <2>1
  <2>4. Cardinality(allocated) = Cardinality(used) + Cardinality(free)
    BY <1>10, <2>2, <2>3, Disjoint
  <2> QED BY <1>10, <2>2, <2>4
<1> QED BY <1>5, <1>6, <1>10, <1>11

LEMMA ClearKeeps ==
  ASSUME BA!BlockAssumption, AllocInv, BA!Clear
  PROVE  AllocInv'
<1>1. /\ next \in [BA!Block -> BA!Pointer] /\ IsFiniteSet(used) /\ Cardinality(used) = 0
  BY ShapeFacts, NumUsed DEF BA!Clear
<1>2. used = {}
  BY <1>1, FS_EmptySet
<1>3. /\ local_lists' = [w \in Worker |-> [sz |-> 0, head |-> nullptr, mid |-> nullptr]]
      /\ global_stack' = << >> /\ allocated' = {} /\ used' = {} /\ next' = next
  BY <1>2 DEF BA!Clear
<1>4. PICK ll : ll = local_lists'
  OBVIOUS
<1>5. \A w \in Worker : ll[w].sz = 0
  BY <1>3, <1>4
<1>6. Arranged(next, ll, << >>, {}, {})
  BY <1>5, NothingArranged
<1>7. ll \in [Worker -> List]
  BY <1>3, <1>4, Lengths DEF List, BA!Pointer
<1>8. {} = 1..0 /\ 0 \in 0..max_blocks
  BY Lengths
<1> QED BY <1>1, <1>3, <1>4, <1>6, <1>7, <1>8 DEF AllocInv, Shape, List

LEMMA AllocInitInv == ASSUME BA!BlockAssumption, BA!Init PROVE AllocInv
<1>1. \A w \in Worker : local_lists[w].sz = 0
  BY DEF BA!Init
<1>2. Arranged(next, local_lists, << >>, {}, {})
  BY <1>1, NothingArranged
<1>3. {} = 1..0 /\ 0 \in 0..max_blocks
  BY Lengths
<1>4. next \in [BA!Block -> BA!Pointer] /\ local_lists \in [Worker -> List]
  BY Lengths DEF BA!Init, List, BA!Pointer
<1> QED BY <1>2, <1>3, <1>4 DEF BA!Init, AllocInv, Shape, List

LEMMA AllocStepInv == ASSUME BA!BlockAssumption, AllocInv, [BA!Next]_BA!vars PROVE AllocInv'
<1>1. CASE BA!Clear
  BY <1>1, ClearKeeps
<1>2. CASE BA!Reserve
  BY <1>2, ReserveKeeps
<1>3. ASSUME NEW w \in Worker, BA!Alloc(w) PROVE AllocInv'
  BY <1>3, AllocKeeps
<1>4. ASSUME NEW w \in Worker, NEW p \in BA!Block, BA!Free(w, p) PROVE AllocInv'
  BY <1>4, FreeKeeps
<1>5. CASE UNCHANGED BA!vars
  BY <1>5 DEF BA!vars, AllocInv, Shape
<1> QED BY <1>1, <1>2, <1>3, <1>4, <1>5 DEF BA!Next

-----------------------------------------------------------------------------
(* From the names to what BlocksInOnePlace says of the links. *)

Walk(g, x, n) == g = [i \in 1..n |-> IF i = 1 THEN x ELSE next[g[i - 1]]]

LEMMA OneWalk ==
  ASSUME NEW x, NEW n \in Nat, NEW g, NEW h, Walk(g, x, n), Walk(h, x, n)
  PROVE  g = h
<1>1. PICK T : T = {i \in 1..n : g[i] # h[i]}
  OBVIOUS
<1>2. ASSUME T # {} PROVE FALSE
  <2>1. PICK i \in T : \A j \in T : i <= j
    BY <1>1, <1>2, Least
  <2>2. i \in 1..n /\ g[i] # h[i]
    BY <1>1
  <2>3. CASE i = 1
    BY <2>2, <2>3 DEF Walk
  <2>4. CASE i # 1
    <3>1. i - 1 \in 1..n /\ ~ (i <= i - 1)
      BY <2>2, <2>4
    <3>2. g[i - 1] = h[i - 1]
      BY <1>1, <2>1, <3>1
    <3>3. g[i] = next[g[i - 1]] /\ h[i] = next[h[i - 1]]
      BY <2>2, <2>4 DEF Walk
    <3> QED BY <2>2, <3>2, <3>3
  <2> QED BY <2>3, <2>4
<1>3. g = [i \in 1..n |-> g[i]] /\ h = [i \in 1..n |-> h[i]]
  BY DEF Walk
<1>4. \A i \in 1..n : g[i] = h[i]
  BY <1>1, <1>2
<1> QED BY <1>3, <1>4

LEMMA ChainWalk ==
  ASSUME NEW x, NEW n \in Nat, NEW h, Walk(h, x, n)
  PROVE  BA!Chain(x, n) = {h[i] : i \in 1..n}
<1> DEFINE at == CHOOSE g : g = [i \in 1..n |-> IF i = 1 THEN x ELSE next[g[i - 1]]]
<1>1. at = [i \in 1..n |-> IF i = 1 THEN x ELSE next[at[i - 1]]]
  BY Zenon DEF Walk
<1>2. BA!Chain(x, n) = {at[i] : i \in 1..n}
  BY Zenon DEF BA!Chain
<1> HIDE DEF at
<1>3. Walk(at, x, n)
  BY <1>1, Zenon DEF Walk
<1>4. at = h
  BY <1>3, OneWalk
<1> QED BY <1>2, <1>4

\* The blocks of a list f of n blocks, from its head x = f[n].
LEMMA ChainIs ==
  ASSUME NEW x, NEW n \in Nat, NEW f, n > 0 => x = f[n],
         \A k \in 2..n : next[f[k]] = f[k - 1]
  PROVE  BA!Chain(x, n) = {f[k] : k \in 1..n}
<1>1. PICK h : h = [i \in 1..n |-> f[n + 1 - i]]
  OBVIOUS
<1>2. Walk(h, x, n)
  <2>1. ASSUME NEW i \in 1..n PROVE h[i] = IF i = 1 THEN x ELSE next[h[i - 1]]
    <3>1. CASE i = 1
      <4>1. n > 0 /\ n + 1 - 1 = n
        BY <3>1
      <4> QED BY <1>1, <3>1, <4>1
    <3>2. CASE i # 1
      <4>1. /\ i - 1 \in 1..n /\ n + 1 - (i - 1) \in 2..n
            /\ n + 1 - (i - 1) - 1 = n + 1 - i
        BY <3>2
      <4>2. next[f[n + 1 - (i - 1)]] = f[n + 1 - i]
        BY <4>1
      <4> QED BY <1>1, <3>2, <4>1, <4>2
    <3> QED BY <3>1, <3>2
  <2> QED BY <1>1, <2>1 DEF Walk
<1>3. BA!Chain(x, n) = {h[i] : i \in 1..n}
  BY <1>2, ChainWalk
<1>4. \A k \in 1..n : n + 1 - k \in 1..n /\ n + 1 - (n + 1 - k) = k
  OBVIOUS
<1>5. ASSUME NEW i \in 1..n PROVE h[i] \in {f[k] : k \in 1..n}
  BY <1>1, <1>4
<1>6. ASSUME NEW k \in 1..n PROVE f[k] \in {h[i] : i \in 1..n}
  <2>1. h[n + 1 - k] = f[k]
    BY <1>1, <1>4
  <2> QED BY <1>4, <2>1
<1> QED BY <1>3, <1>5, <1>6

\* l is the list that is called s.
Calls(F, len, s, l) ==
  s \in Nat /\ len[s] \in Nat /\ l[2] = len[s] /\ (len[s] > 0 => l[1] = F[s][len[s]])

Blocks(F, len, s) == {F[s][k] : k \in 1..len[s]}

LEMMA CalledBlocks ==
  ASSUME NEW F, NEW len, NEW al, NEW us, Chained(F, len, next, al, us),
         NEW s, NEW l, Calls(F, len, s, l)
  PROVE  BA!Chain(l[1], l[2]) = Blocks(F, len, s) /\ Cardinality(BA!Chain(l[1], l[2])) = l[2]
<1>1. s \in Nat /\ len[s] \in Nat /\ l[2] = len[s] /\ (len[s] > 0 => l[1] = F[s][len[s]])
  BY DEF Calls
<1>2. PICK f, n, x : f = F[s] /\ n = len[s] /\ x = l[1]
  OBVIOUS
<1>3. \A k \in 2..n : next[f[k]] = f[k - 1]
  BY <1>1, <1>2 DEF Chained, Follow
<1>4. n \in Nat /\ (n > 0 => x = f[n])
  BY <1>1, <1>2
<1>5. BA!Chain(x, n) = {f[k] : k \in 1..n}
  BY <1>3, <1>4, ChainIs, SMTT(30)
<1>6. Numbers(f, n, {f[k] : k \in 1..n})
  <2>1. \A j, k \in 1..n : f[j] = f[k] => j = k
    BY <1>1, <1>2 DEF Chained, Once
  <2> QED BY <2>1 DEF Numbers
<1>7. Cardinality({f[k] : k \in 1..n}) = n
  BY <1>4, <1>6, SameCount
<1> QED BY <1>1, <1>2, <1>5, <1>7 DEF Blocks

LEMMA InvType == ASSUME BA!BlockAssumption, AllocInv PROVE BA!TypeOK
BY ShapeFacts DEF BA!TypeOK, List

LEMMA InvOnePlace == ASSUME BA!BlockAssumption, AllocInv PROVE BA!BlocksInOnePlace
<1>1. PICK F, len, M, N, m : /\ Chained(F, len, next, allocated, used)
                             /\ Named(M, N, m, F, len, local_lists, global_stack)
  BY DEF AllocInv, Arranged
<1>2. PICK n : n = Len(global_stack)
  OBVIOUS
<1>3. /\ len \in [Nat -> Nat]
      /\ Held(F, len, allocated, used) /\ Once(F, len) /\ Covers(F, len, allocated, used)
      /\ n \in Nat /\ DOMAIN global_stack = 1..n /\ used \subseteq allocated
  <2>1. global_stack \in Seq(BA!Block) /\ used \subseteq allocated
    BY ShapeFacts
  <2>2. n \in Nat /\ DOMAIN global_stack = 1..n
    BY <1>2, <2>1
  <2> QED BY <1>1, <2>1, <2>2 DEF Chained
<1>4. /\ \A w \in Worker : M[w] \in Nat /\ Noted(F, len, M[w], local_lists[w])
      /\ \A i \in 1..n : /\ N[i] \in Nat /\ len[N[i]] = list_length
                         /\ global_stack[i] = F[N[i]][list_length]
      /\ \A v, w \in Worker : M[v] = M[w] => v = w
      /\ \A i, j \in 1..n : N[i] = N[j] => i = j
      /\ \A w \in Worker : \A i \in 1..n : M[w] # N[i]
  <2>1. Distinct(M, N, m, n) /\ m \in Nat
    BY <1>1, <1>2 DEF Named
  <2>2. /\ \A w \in Worker : M[w] \in Nat
        /\ \A i \in 1..n : N[i] \in Nat
    BY <2>1 DEF Distinct
  <2>3. /\ \A w \in Worker : Noted(F, len, M[w], local_lists[w])
        /\ \A i \in 1..n : len[N[i]] = list_length /\ global_stack[i] = F[N[i]][list_length]
    BY <1>1, <1>2 DEF Named
  <2> QED BY <2>1, <2>2, <2>3 DEF Distinct
<1> DEFINE OwnName(w) == <<local_lists[w].head, local_lists[w].sz, <<w, "local">>>>
           StackName(i) == <<global_stack[i], list_length, <<i>>>>
<1>5. \A l \in BA!Lists : (\E w \in Worker : l = OwnName(w)) \/ \E i \in 1..n : l = StackName(i)
  BY <1>3 DEF BA!Lists
<1>6. /\ \A w \in Worker : OwnName(w) \in BA!Lists
      /\ \A i \in 1..n : StackName(i) \in BA!Lists
  BY <1>3 DEF BA!Lists
<1>7. ASSUME NEW w \in Worker PROVE Calls(F, len, M[w], OwnName(w))
  <2>1. M[w] \in Nat /\ len[M[w]] \in Nat /\ Noted(F, len, M[w], local_lists[w])
    BY <1>3, <1>4
  <2> QED BY <2>1 DEF Calls, Noted
<1>8. ASSUME NEW i \in 1..n PROVE Calls(F, len, N[i], StackName(i))
  <2>1. /\ N[i] \in Nat /\ len[N[i]] \in Nat /\ len[N[i]] = list_length
        /\ global_stack[i] = F[N[i]][list_length]
    BY <1>3, <1>4
  <2> QED BY <2>1 DEF Calls
<1> HIDE DEF OwnName, StackName
<1>9. \A l \in BA!Lists : \E s \in Nat : Calls(F, len, s, l)
  BY <1>4, <1>5, <1>7, <1>8
<1>10. ASSUME NEW l \in BA!Lists
       PROVE  /\ Cardinality(BA!Chain(l[1], l[2])) = l[2]
              /\ BA!Chain(l[1], l[2]) \subseteq allocated \ used
  <2>1. PICK s \in Nat : Calls(F, len, s, l)
    BY <1>9
  <2>2. BA!Chain(l[1], l[2]) = Blocks(F, len, s) /\ Cardinality(BA!Chain(l[1], l[2])) = l[2]
    BY <1>1, <2>1, CalledBlocks
  <2>3. Blocks(F, len, s) \subseteq allocated \ used
    BY <1>3 DEF Blocks, Held
  <2> QED BY <2>2, <2>3
<1>11. ASSUME NEW s \in Nat, NEW t \in Nat, NEW l \in BA!Lists, NEW k \in BA!Lists,
              Calls(F, len, s, l), Calls(F, len, t, k), s # t
       PROVE  BA!Chain(l[1], l[2]) \cap BA!Chain(k[1], k[2]) = {}
  <2>1. BA!Chain(l[1], l[2]) = Blocks(F, len, s)
    BY <1>1, <1>11, CalledBlocks
  <2>2. BA!Chain(k[1], k[2]) = Blocks(F, len, t)
    BY <1>1, <1>11, CalledBlocks
  <2>3. \A b : b \in Blocks(F, len, s) => b \notin Blocks(F, len, t)
    BY <1>3, <1>11 DEF Blocks, Once
  <2> QED BY <2>1, <2>2, <2>3
<1>12. ASSUME NEW l \in BA!Lists, NEW k \in BA!Lists, l # k
       PROVE  BA!Chain(l[1], l[2]) \cap BA!Chain(k[1], k[2]) = {}
  <2>1. CASE \E v, w \in Worker : l = OwnName(v) /\ k = OwnName(w)
    <3>1. PICK v \in Worker, w \in Worker : l = OwnName(v) /\ k = OwnName(w)
      BY <2>1
    <3>2. /\ M[v] # M[w] /\ M[v] \in Nat /\ M[w] \in Nat
          /\ Calls(F, len, M[v], l) /\ Calls(F, len, M[w], k)
      BY <1>4, <1>7, <1>12, <3>1
    <3> QED BY <1>11, <3>2
  <2>2. CASE \E w \in Worker, i \in 1..n : l = OwnName(w) /\ k = StackName(i)
    <3>1. PICK w \in Worker, i \in 1..n : l = OwnName(w) /\ k = StackName(i)
      BY <2>2
    <3>2. /\ M[w] # N[i] /\ M[w] \in Nat /\ N[i] \in Nat
          /\ Calls(F, len, M[w], l) /\ Calls(F, len, N[i], k)
      BY <1>4, <1>7, <1>8, <3>1
    <3> QED BY <1>11, <3>2
  <2>3. CASE \E w \in Worker, i \in 1..n : l = StackName(i) /\ k = OwnName(w)
    <3>1. PICK w \in Worker, i \in 1..n : l = StackName(i) /\ k = OwnName(w)
      BY <2>3
    <3>2. /\ N[i] # M[w] /\ M[w] \in Nat /\ N[i] \in Nat
          /\ Calls(F, len, N[i], l) /\ Calls(F, len, M[w], k)
      BY <1>4, <1>7, <1>8, <3>1
    <3> QED BY <1>11, <3>2
  <2>4. CASE \E i, j \in 1..n : l = StackName(i) /\ k = StackName(j)
    <3>1. PICK i \in 1..n, j \in 1..n : l = StackName(i) /\ k = StackName(j)
      BY <2>4
    <3>2. /\ N[i] # N[j] /\ N[i] \in Nat /\ N[j] \in Nat
          /\ Calls(F, len, N[i], l) /\ Calls(F, len, N[j], k)
      BY <1>4, <1>8, <1>12, <3>1
    <3> QED BY <1>11, <3>2
  <2> QED BY <1>5, <2>1, <2>2, <2>3, <2>4
<1>13. ASSUME NEW b \in allocated \ used
       PROVE  \E l \in BA!Lists : b \in BA!Chain(l[1], l[2])
  <2>1. PICK s \in Nat : \E k \in 1..len[s] : F[s][k] = b
    BY <1>3 DEF Covers
  <2>2. b \in Blocks(F, len, s) /\ len[s] # 0
    BY <2>1 DEF Blocks
  <2>3. (\E w \in Worker : s = M[w]) \/ \E i \in 1..n : s = N[i]
    BY <1>1, <1>2, <2>2 DEF Named
  <2>4. PICK l \in BA!Lists : Calls(F, len, s, l)
    BY <1>6, <1>7, <1>8, <2>3
  <2>5. BA!Chain(l[1], l[2]) = Blocks(F, len, s)
    BY <1>1, <2>4, CalledBlocks
  <2> QED BY <2>2, <2>4, <2>5
<1>14. used \cup UNION {BA!Chain(l[1], l[2]) : l \in BA!Lists} = allocated
  BY <1>3, <1>10, <1>13
<1>15. \A l \in BA!Lists : BA!Chain(l[1], l[2]) \cap used = {}
  BY <1>10
<1>16. \A l \in BA!Lists : BA!Cardinality(BA!Chain(l[1], l[2])) = l[2]
  BY <1>10, SameSizes
<1> QED BY <1>12, <1>14, <1>15, <1>16 DEF BA!BlocksInOnePlace

(* Every block of a block_allocator is with one caller or once in one free    *)
(* list, whose length is what its worker has counted: alloc never hands out a *)
(* block twice and free never loses one, also when the middle of a list that  *)
(* shrank below it and grew again is where it is cut.                         *)
THEOREM BlocksAreInOnePlace ==
  ASSUME BA!BlockAssumption
  PROVE  BA!Spec => [](BA!TypeOK /\ BA!BlocksInOnePlace)
<1>1. BA!Init => AllocInv
  BY AllocInitInv
<1>2. AllocInv /\ [BA!Next]_BA!vars => AllocInv'
  BY AllocStepInv
<1>3. AllocInv => BA!TypeOK /\ BA!BlocksInOnePlace
  BY InvType, InvOnePlace
<1> QED BY <1>1, <1>2, <1>3, PTL DEF BA!Spec
=============================================================================
