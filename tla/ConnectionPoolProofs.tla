------------------------ MODULE ConnectionPoolProofs ------------------------
(***************************************************************************)
(* What holds of ConnectionPool for every number of connections and        *)
(* requests, and for every workload.                                       *)
(***************************************************************************)
EXTENDS ConnectionPool, SequenceTheorems, FiniteSetTheorems, TLAPS

----------------------------------------------------------------------------
(***************************************************************************)
(* What is left of a program: at most one connect, and (if `ends` holds)   *)
(* a commit or a rollback right before each release.                       *)
(***************************************************************************)
HasConnect(s) == \E i \in DOMAIN s : s[i] = "connect"

ConnectsOnce(s) == \A i, j \in DOMAIN s : s[i] = "connect" /\ s[j] = "connect" => i = j

EndsBeforeRelease(s) ==
    \A i \in 1 .. Len(s) - 1 : s[i + 1] = "release" => s[i] \in {"commit", "rollback"}

(***************************************************************************)
(* Every program connects once at most, and only the transactional ones    *)
(* do.  All but the early returns of loginWithSocialNetwork end their      *)
(* transaction before the release.                                         *)
(***************************************************************************)
LEMMA Programs ==
  ASSUME NEW k \in Kinds
  PROVE  /\ Program[k] \in Seq(Ops)
         /\ ConnectsOnce(Program[k])
         /\ HasConnect(Program[k]) => k \in Transactional
         /\ k \notin EarlyReturns => EndsBeforeRelease(Program[k])
         /\ Program[k] # <<>> /\ Program[k][1] # "release"
<1> USE DEF ConnectsOnce, HasConnect, Transactional, EarlyReturns, EndsBeforeRelease, Ops, Single
<1>1. k \in {"signUp", "firstSocial", "linkSocial", "social", "signIn", "createNewPassword",
             "verifyEmail", "createCountry", "wrapped", "createRoom", "reserve"}
  BY DEF Kinds, Program
<1>2. CASE k = "signUp"
  BY <1>2 DEF Program, SignUpProgram
<1>3. CASE k = "firstSocial"
  BY <1>3 DEF Program, FirstSocialProgram
<1>4. CASE k = "linkSocial"
  BY <1>4 DEF Program, LinkSocialProgram
<1>5. CASE k = "social"
  BY <1>5 DEF Program, SocialProgram
<1>6. CASE k = "signIn"
  BY <1>6 DEF Program, SignInProgram
<1>7. CASE k = "createNewPassword"
  BY <1>7 DEF Program, ResetProgram
<1>8. CASE k = "verifyEmail"
  BY <1>8 DEF Program, VerifyProgram
<1>9. CASE k = "createCountry"
  BY <1>9 DEF Program, CountryProgram
<1>10. CASE k = "createRoom"
  BY <1>10 DEF Program, RoomProgram
<1>11. CASE k = "reserve"
  BY <1>11 DEF Program, ReserveProgram
<1>12. CASE k = "wrapped"
  BY <1>12 DEF Program, WrappedProgram
<1>13. QED
  BY <1>1, <1>2, <1>3, <1>4, <1>5, <1>6, <1>7, <1>8, <1>9, <1>10, <1>11, <1>12

(***************************************************************************)
(* The same holds of what is left after an exception, which neither        *)
(* connects nor begins with a release.                                     *)
(***************************************************************************)
LEMMA Exceptions ==
  ASSUME NEW r, NEW isHttp \in BOOLEAN
  PROVE  LET s == Undo(r) \o Report(r, isHttp)
         IN  /\ s \in Seq(Ops)
             /\ ~HasConnect(s)
             /\ EndsBeforeRelease(s)
             /\ s # <<>> => s[1] # "release"
<1>1. Undo(r) \in {<<"rollback", "release">>, <<>>}
  BY DEF Undo
<1>2. Report(r, isHttp) \in {<<"log", "fail">>, <<"fail">>, <<>>}
  BY DEF Report, LoggedFailure
<1> DEFINE s == Undo(r) \o Report(r, isHttp)
<1>3. CASE Undo(r) = <<>>
  <2>1. s = Report(r, isHttp)
    BY <1>2, <1>3
  <2>2. QED
    BY <2>1, <1>2 DEF HasConnect, EndsBeforeRelease, Ops, Single
<1>4. CASE Undo(r) = <<"rollback", "release">> /\ Report(r, isHttp) = <<"log", "fail">>
  <2>1. <<"rollback", "release">> \in Seq(Ops) /\ <<"log", "fail">> \in Seq(Ops)
    BY DEF Ops, Single
  <2>2. s \in Seq(Ops) /\ Len(s) = 4
    BY <1>4, <2>1, ConcatProperties
  <2>3. s[1] = "rollback" /\ s[2] = "release" /\ s[3] = "log" /\ s[4] = "fail"
    BY <1>4, <2>1
  <2>4. QED
    BY <2>2, <2>3 DEF HasConnect, EndsBeforeRelease
<1>5. CASE Undo(r) = <<"rollback", "release">> /\ Report(r, isHttp) = <<"fail">>
  <2>1. <<"rollback", "release">> \in Seq(Ops) /\ <<"fail">> \in Seq(Ops)
    BY DEF Ops, Single
  <2>2. s \in Seq(Ops) /\ Len(s) = 3
    BY <1>5, <2>1, ConcatProperties
  <2>3. s[1] = "rollback" /\ s[2] = "release" /\ s[3] = "fail"
    BY <1>5, <2>1
  <2>4. QED
    BY <2>2, <2>3 DEF HasConnect, EndsBeforeRelease
<1>6. CASE Undo(r) = <<"rollback", "release">> /\ Report(r, isHttp) = <<>>
  <2>1. s = <<"rollback", "release">>
    BY <1>6
  <2>2. QED
    BY <2>1 DEF HasConnect, EndsBeforeRelease, Ops, Single
<1>7. QED
  BY <1>1, <1>2, <1>3, <1>4, <1>5, <1>6

(***************************************************************************)
(* When the rollback fails, the release and the answer are left.           *)
(***************************************************************************)
LEMMA FailedRollback ==
  ASSUME NEW r
  PROVE  LET s == <<"release">> \o Report(r, FALSE)
         IN  /\ s \in {<<"release">>, <<"release", "fail">>}
             /\ answer[r] = "none" => s = <<"release", "fail">>
             /\ s \in Seq(Ops) /\ s # <<>> /\ s[1] = "release"
             /\ ~HasConnect(s)
             /\ EndsBeforeRelease(s)
<1>1. /\ Report(r, FALSE) \in {<<>>, <<"fail">>}
      /\ answer[r] = "none" => Report(r, FALSE) = <<"fail">>
  BY DEF Report
<1>2. <<"release">> \o <<>> = <<"release">> /\ <<"release">> \o <<"fail">> = <<"release", "fail">>
  <2> DEFINE s == <<"release">> \o <<"fail">>
  <2>1. <<"release">> \in Seq(Ops) /\ <<"fail">> \in Seq(Ops)
    BY DEF Ops
  <2>2. s \in Seq(Ops) /\ Len(s) = 2 /\ s[1] = "release" /\ s[2] = "fail"
    BY <2>1, ConcatProperties
  <2>3. <<"release">> \o <<>> = <<"release">>
    BY <2>1
  <2> HIDE DEF s
  <2>4. s = <<"release", "fail">>
    BY <2>2
  <2>5. QED
    BY <2>3, <2>4 DEF s
<1>3. \A s \in {<<"release">>, <<"release", "fail">>} :
        s \in Seq(Ops) /\ s # <<>> /\ s[1] = "release" /\ ~HasConnect(s) /\ EndsBeforeRelease(s)
  BY DEF HasConnect, EndsBeforeRelease, Ops, Single
<1>4. QED
  BY <1>1, <1>2, <1>3

(***************************************************************************)
(* The same holds of the rest of a program.                                *)
(***************************************************************************)
LEMMA Rests ==
  ASSUME NEW s \in Seq(Ops), s # <<>>
  PROVE  /\ Tail(s) \in Seq(Ops)
         /\ HasConnect(Tail(s)) => HasConnect(s)
         /\ ConnectsOnce(s) => ConnectsOnce(Tail(s))
         /\ ConnectsOnce(s) /\ s[1] = "connect" => ~HasConnect(Tail(s))
         /\ EndsBeforeRelease(s) => EndsBeforeRelease(Tail(s))
         /\ EndsBeforeRelease(s) /\ Tail(s) # <<>> /\ Tail(s)[1] = "release" =>
              s[1] \in {"commit", "rollback"}
<1>1. /\ Tail(s) \in Seq(Ops)
      /\ Len(Tail(s)) = Len(s) - 1
      /\ DOMAIN Tail(s) = 1 .. Len(s) - 1
      /\ \A i \in 1 .. Len(s) - 1 : Tail(s)[i] = s[i + 1]
  OBVIOUS
<1>2. 1 \in DOMAIN s /\ \A i \in 1 .. Len(s) - 1 : i + 1 \in DOMAIN s
  OBVIOUS
<1>3. ConnectsOnce(s) => ConnectsOnce(Tail(s))
  BY <1>1, <1>2 DEF ConnectsOnce
<1>4. ConnectsOnce(s) /\ s[1] = "connect" => ~HasConnect(Tail(s))
  BY <1>1, <1>2 DEF ConnectsOnce, HasConnect
<1>5. HasConnect(Tail(s)) => HasConnect(s)
  BY <1>1, <1>2 DEF HasConnect
<1>6. EndsBeforeRelease(s) => EndsBeforeRelease(Tail(s))
  BY <1>1, <1>2 DEF EndsBeforeRelease
<1>7. EndsBeforeRelease(s) /\ Tail(s) # <<>> /\ Tail(s)[1] = "release" =>
        s[1] \in {"commit", "rollback"}
  BY <1>1, <1>2 DEF EndsBeforeRelease
<1>8. QED
  BY <1>1, <1>3, <1>4, <1>5, <1>6, <1>7

----------------------------------------------------------------------------
(* Types.                                                                  *)

(***************************************************************************)
(* Every value a handler's program takes is a sequence of operations.      *)
(***************************************************************************)
LEMMA OpsStep ==
  ASSUME ops \in [Requests -> Seq(Ops)], NEW r \in Requests,
         \/ ops[r] # <<>> /\ Advance(r)
         \/ \E isHttp \in BOOLEAN : Throw(r, isHttp)
         \/ UNCHANGED ops
  PROVE  ops' \in [Requests -> Seq(Ops)]
<1>1. ops[r] # <<>> => Tail(ops[r]) \in Seq(Ops)
  BY Rests
<1>2. \A isHttp \in BOOLEAN : Undo(r) \o Report(r, isHttp \/ Undo(r) # <<>>) \in Seq(Ops)
  BY Exceptions
<1>3. QED
  BY <1>1, <1>2 DEF Advance, Throw

(***************************************************************************)
(* The idle connections stay apart from each other and from those in use.  *)
(***************************************************************************)
IdleOK ==
    /\ holder \in [Connections -> Task \cup {NoTask}]
    /\ idle \in Seq(Connections)
    /\ \A i, j \in DOMAIN idle : idle[i] = idle[j] => i = j
    /\ \A i \in DOMAIN idle : holder[idle[i]] = NoTask

LEMMA GivenBack ==
  ASSUME IdleOK, NEW c \in Connections, holder[c] # NoTask, GiveBack(c)
  PROVE  IdleOK'
<1>1. /\ idle' \in Seq(Connections)
      /\ DOMAIN idle' = 1 .. Len(idle) + 1
      /\ \A i \in 1 .. Len(idle) : idle'[i] = idle[i]
      /\ idle'[Len(idle) + 1] = c
  BY DEF GiveBack, IdleOK
<1>2. DOMAIN idle = 1 .. Len(idle)
  BY DEF IdleOK
<1>3. \A i \in 1 .. Len(idle) : idle[i] # c
  BY <1>2 DEF IdleOK
<1>4. QED
  BY <1>1, <1>2, <1>3 DEF GiveBack, IdleOK

LEMMA Assigned ==
  ASSUME IdleOK, queue \in Seq(Task), Assign
  PROVE  IdleOK'
<1> DEFINE t == Head(queue)
<1>1. t \in Task
  BY DEF Assign
<1>2. PICK c \in Connections :
        /\ holder' = [holder EXCEPT ![c] = t]
        /\ \/ idle # <<>> /\ c = Last(idle) /\ idle' = Front(idle)
           \/ idle = <<>> /\ c \in Unopened /\ UNCHANGED idle
  BY DEF Assign
<1>3. CASE idle # <<>> /\ c = Last(idle) /\ idle' = Front(idle)
  <2>1. Len(idle) \in Nat \ {0} /\ DOMAIN idle = 1 .. Len(idle)
    BY <1>3 DEF IdleOK
  <2>2. /\ idle' \in Seq(Connections)
        /\ DOMAIN idle' = 1 .. Len(idle) - 1
        /\ \A i \in 1 .. Len(idle) - 1 : idle'[i] = idle[i]
    BY <1>3, <2>1 DEF IdleOK, Front
  <2>3. \A i \in 1 .. Len(idle) - 1 : idle[i] # c
    BY <1>3, <2>1 DEF IdleOK, Last
  <2>4. holder' \in [Connections -> Task \cup {NoTask}]
    BY <1>1, <1>2 DEF IdleOK
  <2>5. \A i, j \in DOMAIN idle' : idle'[i] = idle'[j] => i = j
    BY <2>1, <2>2 DEF IdleOK
  <2>6. \A i \in DOMAIN idle' : idle'[i] \in Connections /\ idle'[i] # c /\ holder[idle'[i]] = NoTask
    BY <2>1, <2>2, <2>3 DEF IdleOK
  <2>7. \A i \in DOMAIN idle' : holder'[idle'[i]] = NoTask
    BY <1>2, <2>6 DEF IdleOK
  <2>8. QED
    BY <2>2, <2>4, <2>5, <2>7 DEF IdleOK
<1>4. CASE idle = <<>> /\ c \in Unopened /\ UNCHANGED idle
  BY <1>1, <1>2, <1>4 DEF IdleOK
<1>5. QED
  BY <1>2, <1>3, <1>4

LEMMA TimedOut ==
  ASSUME IdleOK, IdleTimeout
  PROVE  IdleOK'
<1>1. PICK k \in DOMAIN idle : idle' = RemoveAt(idle, k)
  BY DEF IdleTimeout
<1>2. DOMAIN idle = 1 .. Len(idle) /\ Len(idle) \in Nat /\ k \in 1 .. Len(idle)
  BY <1>1 DEF IdleOK
<1> DEFINE before == SubSeq(idle, 1, k - 1)
           after  == SubSeq(idle, k + 1, Len(idle))
<1>3. /\ before \in Seq(Connections) /\ Len(before) = k - 1
      /\ \A i \in 1 .. k - 1 : before[i] = idle[i]
  BY <1>2 DEF IdleOK
<1>4. /\ after \in Seq(Connections) /\ Len(after) = Len(idle) - k
      /\ \A i \in 1 .. Len(idle) - k : after[i] = idle[k + i]
  BY <1>2 DEF IdleOK
<1> HIDE DEF before, after
<1>5. idle' = before \o after
  BY <1>1 DEF RemoveAt, before, after
<1>6. /\ idle' \in Seq(Connections)
      /\ Len(idle') = Len(idle) - 1
      /\ \A i \in 1 .. k - 1 : idle'[i] = idle[i]
      /\ \A i \in k .. Len(idle) - 1 : idle'[i] = idle[i + 1]
  <2>1. /\ idle' \in Seq(Connections)
        /\ Len(idle') = Len(before) + Len(after)
        /\ \A i \in 1 .. Len(before) + Len(after) :
             idle'[i] = IF i <= Len(before) THEN before[i] ELSE after[i - Len(before)]
    BY <1>3, <1>4, <1>5, ConcatProperties
  <2>2. \A i \in 1 .. k - 1 : idle'[i] = idle[i]
    BY <2>1, <1>2, <1>3, <1>4
  <2>3. ASSUME NEW i \in k .. Len(idle) - 1
        PROVE  idle'[i] = idle[i + 1]
    <3>1. i - Len(before) \in 1 .. Len(idle) - k /\ k + (i - Len(before)) = i + 1
      BY <1>2, <1>3
    <3>2. idle'[i] = after[i - Len(before)]
      BY <2>1, <1>2, <1>3, <1>4
    <3>3. QED
      BY <3>1, <3>2, <1>4
  <2>4. QED
    BY <2>1, <2>2, <2>3, <1>2, <1>3, <1>4
<1>7. DOMAIN idle' = 1 .. Len(idle) - 1
  BY <1>6, <1>2
<1>8. holder' = holder
  BY DEF IdleTimeout
<1>9. \A i \in DOMAIN idle' : \E j \in DOMAIN idle : idle'[i] = idle[j]
  BY <1>2, <1>6, <1>7
<1>10. \A i, j \in DOMAIN idle' : idle'[i] = idle'[j] => i = j
  <2>1. \A i, j \in 1 .. Len(idle) : idle[i] = idle[j] => i = j
    BY <1>2 DEF IdleOK
  <2> SUFFICES ASSUME NEW i \in 1 .. Len(idle) - 1, NEW j \in 1 .. Len(idle) - 1,
                      idle'[i] = idle'[j]
               PROVE  i = j
    BY <1>7
  <2>2. CASE i < k /\ j < k
    BY <2>1, <2>2, <1>2, <1>6
  <2>3. CASE i >= k /\ j < k
    BY <2>1, <2>3, <1>2, <1>6
  <2>4. CASE i < k /\ j >= k
    BY <2>1, <2>4, <1>2, <1>6
  <2>5. CASE i >= k /\ j >= k
    BY <2>1, <2>5, <1>2, <1>6
  <2>6. QED
    BY <2>2, <2>3, <2>4, <2>5, <1>2
<1>11. QED
  BY <1>6, <1>8, <1>9, <1>10 DEF IdleOK

(***************************************************************************)
(* New tasks go to the end of the queue.                                   *)
(***************************************************************************)
Join(r, op, n) ==
    \A i \in Len(queue) + 1 .. Len(queue) + n :
        /\ queue'[i].op = op /\ queue'[i].of = r
        /\ queue'[i].nr = issued[r] + (i - Len(queue))

LEMMA Submitted ==
  ASSUME TypeOK, NEW r \in Requests, NEW op \in Single, NEW n \in Nat, NEW awaited \in BOOLEAN,
         Submit(r, op, n, awaited), ops[r] # <<>>
  PROVE  /\ TypeOK'
         /\ Len(queue') = Len(queue) + n
         /\ \A i \in 1 .. Len(queue) : queue'[i] = queue[i]
         /\ Join(r, op, n)
<1> DEFINE new == [i \in 1 .. n |-> [of |-> r, nr |-> issued[r] + i, op |-> op]]
<1>1. issued[r] \in Nat
  BY DEF TypeOK
<1>2. /\ new \in Seq(Task) /\ Len(new) = n
      /\ \A i \in 1 .. n : new[i].op = op /\ new[i].of = r /\ new[i].nr = issued[r] + i
  <2>1. \A i \in 1 .. n : issued[r] + i \in Nat
    BY <1>1
  <2>2. new \in [1 .. n -> Task]
    BY <2>1 DEF Task
  <2>3. QED
    BY <2>2
<1>3. queue \in Seq(Task) /\ queue' = queue \o new
  BY DEF TypeOK, Submit
<1> HIDE DEF new
<1>4. /\ queue' \in Seq(Task) /\ Len(queue') = Len(queue) + n
      /\ \A i \in 1 .. Len(queue) + n :
           queue'[i] = IF i <= Len(queue) THEN queue[i] ELSE new[i - Len(queue)]
  BY <1>2, <1>3, ConcatProperties
<1>5. Len(queue) \in Nat
  BY <1>3
<1>6. \A i \in 1 .. Len(queue) : queue'[i] = queue[i]
  BY <1>4, <1>5
<1>7. Join(r, op, n)
  <2>1. \A i \in Len(queue) + 1 .. Len(queue) + n :
           i - Len(queue) \in 1 .. n /\ queue'[i] = new[i - Len(queue)]
    BY <1>4, <1>5
  <2>2. QED
    BY <1>2, <2>1 DEF Join
<1>8. ops' \in [Requests -> Seq(Ops)]
  BY OpsStep DEF Submit, TypeOK
<1>9. issued' \in [Requests -> Nat] /\ awaiting' \in [Requests -> SUBSET Nat]
  <2>1. issued[r] + 1 .. issued[r] + n \subseteq Nat
    BY <1>1
  <2>2. QED
    BY <1>1, <2>1 DEF TypeOK, Submit
<1>10. TypeOK'
  BY <1>4, <1>8, <1>9 DEF TypeOK, Submit, connections
<1>11. QED
  BY <1>4, <1>6, <1>7, <1>10

(***************************************************************************)
(* The rest of the queue, once its first task has left.                    *)
(***************************************************************************)
LEMMA Dequeued ==
  ASSUME queue \in Seq(Task), queue # <<>>, queue' = Tail(queue)
  PROVE  /\ Head(queue) \in Task
         /\ Head(queue) = queue[1]
         /\ queue' \in Seq(Task)
         /\ Len(queue) \in Nat \ {0}
         /\ Len(queue') = Len(queue) - 1
         /\ \A i \in 1 .. Len(queue) - 1 : queue'[i] = queue[i + 1]
OBVIOUS

(***************************************************************************)
(* The calls on an own connection.                                         *)
(***************************************************************************)
LEMMA OwnStepTypes ==
  ASSUME TypeOK, NEW r \in Requests, OnOwnConnection(r)
  PROVE  TypeOK'
<1>1. PICK c \in Connections :
        /\ Owns(r, c)
        /\ Begin(r, c) \/ OwnSave(r, c) \/ Commit(r, c) \/ Rollback(r, c) \/ Release(r, c)
  BY DEF OnOwnConnection
<1>2. ops' \in [Requests -> Seq(Ops)]
  <2>1. ASSUME Begin(r, c) PROVE ops' \in [Requests -> Seq(Ops)]
    <3>1. Report(r, FALSE) \in Seq(Ops)
      <4>1. Report(r, FALSE) \in {<<>>, <<"fail">>}
        BY DEF Report
      <4>2. <<>> \in Seq(Ops) /\ <<"fail">> \in Seq(Ops)
        BY DEF Ops
      <4>3. QED
        BY <4>1, <4>2
    <3>2. ops[r] # <<>> /\ (Advance(r) \/ ops' = [ops EXCEPT ![r] = Report(r, FALSE)])
      BY <2>1 DEF Begin, At
    <3>3. ops \in [Requests -> Seq(Ops)]
      BY DEF TypeOK
    <3>4. CASE Advance(r)
      <4>1. Tail(ops[r]) \in Seq(Ops)
        BY <3>2, <3>3, Rests
      <4>2. QED
        BY <3>3, <3>4, <4>1 DEF Advance
    <3>5. CASE ops' = [ops EXCEPT ![r] = Report(r, FALSE)]
      BY <3>1, <3>3, <3>5
    <3>6. QED
      BY <3>2, <3>4, <3>5
  <2>2. ASSUME OwnSave(r, c) \/ Commit(r, c) \/ Rollback(r, c) \/ Release(r, c)
        PROVE  ops' \in [Requests -> Seq(Ops)]
    <3>1. \/ ops[r] # <<>> /\ (Advance(r) \/ \E isHttp \in BOOLEAN : Throw(r, isHttp))
          \/ ops' = [ops EXCEPT ![r] = <<"release">> \o Report(r, FALSE)]
      BY <2>2 DEF OwnSave, Commit, Rollback, Release, At
    <3>2. <<"release">> \o Report(r, FALSE) \in Seq(Ops)
      BY FailedRollback
    <3>3. QED
      BY <3>1, <3>2, OpsStep DEF TypeOK
  <2>3. QED
    BY <1>1, <2>1, <2>2
<1>3. IdleOK'
  <2>1. IdleOK /\ holder[c] # NoTask
    BY <1>1 DEF TypeOK, IdleOK, Owns
  <2>2. CASE Release(r, c)
    BY <2>1, <2>2, GivenBack DEF Release
  <2>3. CASE UNCHANGED <<holder, idle>>
    BY <2>1, <2>3 DEF IdleOK
  <2>4. QED
    BY <1>1, <2>2, <2>3 DEF Begin, OwnSave, Commit, Rollback
<1>4. /\ tx' \in [Connections -> {"none", "open", "aborted"}]
      /\ unsaved' \in [Connections -> SUBSET Row]
      /\ stored' \subseteq Row
  <2>1. unsaved[c] \subseteq Row /\ <<r, 0>> \in Row /\ tx[c] \in {"none", "open", "aborted"}
    BY DEF TypeOK, Row
  <2>2. /\ tx \in [Connections -> {"none", "open", "aborted"}]
        /\ unsaved \in [Connections -> SUBSET Row] /\ stored \subseteq Row
    BY DEF TypeOK
  <2>3. Spoiled(c) \in {"none", "open", "aborted"}
    BY <2>1 DEF Spoiled
  <2>4. CASE Begin(r, c)
    <3>1. /\ \/ Leave(c, "open", unsaved[c])
             \/ Leave(c, Spoiled(c), {})
          /\ UNCHANGED stored
      BY <2>4 DEF Begin
    <3>2. QED
      BY <2>1, <2>2, <2>3, <3>1 DEF Leave
  <2>5. CASE OwnSave(r, c)
    <3>1. /\ \/ Leave(c, tx[c], unsaved[c] \cup {<<r, 0>>})
             \/ Leave(c, Spoiled(c), {})
          /\ UNCHANGED stored
      BY <2>5 DEF OwnSave
    <3>2. QED
      BY <2>1, <2>2, <2>3, <3>1 DEF Leave
  <2>6. CASE Commit(r, c) \/ Rollback(r, c)
    <3>1. /\ Leave(c, "none", {})
          /\ stored' = stored \cup unsaved[c] \/ UNCHANGED stored
      BY <2>6 DEF Commit, Rollback
    <3>2. QED
      BY <2>1, <2>2, <3>1 DEF Leave
  <2>7. CASE Release(r, c)
    BY <2>2, <2>7 DEF Release
  <2>8. QED
    BY <1>1, <2>4, <2>5, <2>6, <2>7
<1>5. leaks' \subseteq Requests
  BY <1>1 DEF Begin, OwnSave, Commit, Rollback, Release, TypeOK
<1>6. QED
  BY <1>2, <1>3, <1>4, <1>5 DEF TypeOK, IdleOK, OnOwnConnection

(***************************************************************************)
(* A failed query leaves its handler with operations, or with none.        *)
(***************************************************************************)
LEMMA RejectTypes ==
  ASSUME TypeOK, NEW t \in Task, Reject(t)
  PROVE  ops' \in [Requests -> Seq(Ops)] /\ awaiting' \in [Requests -> SUBSET Nat]
<1>1. t.of \in Requests
  BY DEF Task
<1>2. awaiting' \in [Requests -> SUBSET Nat]
  BY <1>1 DEF Reject, Settled, TypeOK
<1>3. CASE Throw(t.of, FALSE)
  BY <1>1, <1>2, <1>3, OpsStep DEF TypeOK
<1>4. CASE UNCHANGED ops \/ ops' = [ops EXCEPT ![t.of] = CaughtInFilter(t.of)]
  BY <1>1, <1>2, <1>4 DEF CaughtInFilter, TypeOK
<1>5. QED
  BY <1>2, <1>3, <1>4 DEF Reject

(***************************************************************************)
(* A query and the release of its connection.                              *)
(***************************************************************************)
LEMMA QueryTypes ==
  ASSUME TypeOK, NEW c \in Connections, Run(c)
  PROVE  TypeOK'
<1> DEFINE t == holder[c]
<1>1. t \in Task /\ t.of \in Requests /\ t.nr \in Nat /\ t # NoTask
  BY DEF TypeOK, Run, Task
<1>2. IdleOK'
  BY <1>1, GivenBack DEF TypeOK, IdleOK, Run
<1>3. /\ ops' \in [Requests -> Seq(Ops)]
      /\ awaiting' \in [Requests -> SUBSET Nat]
      /\ written' \subseteq Row
  <2>1. CASE Succeed(c)
    <3>1. Resume(t)
      BY <2>1 DEF Succeed
    <3>2. UNCHANGED ops \/ \E isHttp \in BOOLEAN : Throw(t.of, isHttp)
      BY <3>1 DEF Resume
    <3>3. QED
      BY <1>1, <3>1, <3>2, OpsStep DEF Resume, Settled, TypeOK, Row
  <2>2. CASE Fail(c)
    <3>1. Reject(t) /\ UNCHANGED written
      BY <2>2 DEF Fail
    <3>2. QED
      BY <1>1, <3>1, RejectTypes DEF TypeOK
  <2>3. QED
    BY <2>1, <2>2 DEF Run
<1>4. /\ tx' \in [Connections -> {"none", "open", "aborted"}]
      /\ unsaved' \in [Connections -> SUBSET Row]
      /\ stored' \subseteq Row
  <2>1. unsaved[c] \subseteq Row /\ <<t.of, t.nr>> \in Row
    BY <1>1 DEF TypeOK, Row
  <2>2. tx[c] \in {"none", "open", "aborted"}
    BY DEF TypeOK
  <2>3. /\ tx \in [Connections -> {"none", "open", "aborted"}]
        /\ unsaved \in [Connections -> SUBSET Row] /\ stored \subseteq Row
    BY DEF TypeOK
  <2>4. Spoiled(c) \in {"none", "open", "aborted"}
    BY <2>2 DEF Spoiled
  <2>5. CASE Succeed(c)
    <3> DEFINE rows == {row \in {<<t.of, t.nr>>} : t.op \in Writes}
    <3>1. rows \subseteq Row
      BY <2>1
    <3>2. \/ UNCHANGED <<tx, unsaved, stored>>
          \/ Leave(c, "open", unsaved[c] \cup rows) /\ UNCHANGED stored
          \/ Leave(c, "none", {}) /\ stored' = stored \cup unsaved[c] \cup rows
      BY <2>5 DEF Succeed
    <3> HIDE DEF rows
    <3>3. QED
      BY <2>1, <2>3, <3>1, <3>2 DEF Leave
  <2>6. CASE Fail(c)
    <3>1. /\ Leave(c, Spoiled(c), {}) \/ Leave(c, "none", {})
          /\ UNCHANGED stored
      BY <2>6 DEF Fail
    <3>2. QED
      BY <2>3, <2>4, <3>1 DEF Leave
  <2>7. QED
    BY <2>5, <2>6 DEF Run
<1>5. QED
  BY <1>2, <1>3, <1>4 DEF TypeOK, IdleOK, Run

(***************************************************************************)
(* Init and every step of Next leave each variable in its type.            *)
(***************************************************************************)
LEMMA TypeInit == Init => TypeOK
<1> SUFFICES ASSUME Init PROVE TypeOK
  OBVIOUS
<1>1. kind \in Workloads /\ \A r \in Requests : kind[r] \in Kinds
  BY PoolAssumption DEF Init
<1>2. ops \in [Requests -> Seq(Ops)]
  BY <1>1, Programs DEF Init
<1>3. idle \in Seq(Connections) /\ DOMAIN idle = {} /\ queue \in Seq(Task)
  BY DEF Init
<1>4. QED
  BY <1>1, <1>2, <1>3 DEF Init, TypeOK

LEMMA TypeStep == TypeOK /\ [Next]_vars => TypeOK'
<1> SUFFICES ASSUME TypeOK, [Next]_vars PROVE TypeOK'
  OBVIOUS
<1>1. CASE \E r \in Requests : Handle(r)
  <2>1. PICK r \in Requests : Handle(r)
    BY <1>1
  <2>2. CASE Call(r)
    BY <2>2, Submitted DEF Call, At
  <2>3. CASE Fork(r)
    <3>1. ops[r] # <<>> /\ \E op \in {"save", "statement"} : Submit(r, op, Parallel, TRUE)
      BY <2>3 DEF Fork, At
    <3>2. Parallel \in Nat /\ {"save", "statement"} \subseteq Single
      BY PoolAssumption DEF Single
    <3>3. QED
      BY <3>1, <3>2, Submitted
  <2>4. CASE Background(r)
    <3>1. ops[r] # <<>> /\ Submit(r, "saveLoaded", 1, FALSE) /\ "saveLoaded" \in Single
      BY <2>4 DEF Background, At, Single
    <3>2. QED
      BY <3>1, Submitted
  <2>5. CASE Answer(r)
    <3>1. ops[r] # <<>> /\ Advance(r) /\ ops \in [Requests -> Seq(Ops)]
      BY <2>5 DEF Answer, At, TypeOK
    <3>2. Tail(ops[r]) \in Seq(Ops)
      BY <3>1, Rests
    <3>3. ops' \in [Requests -> Seq(Ops)]
      BY <3>1, <3>2 DEF Advance
    <3>4. answer' \in [Requests -> {"none", "success", "error"}]
      BY <2>5 DEF Answer, TypeOK
    <3>5. QED
      BY <2>5, <3>3, <3>4 DEF Answer, TypeOK, connections
  <2>6. CASE OnOwnConnection(r)
    BY <2>6, OwnStepTypes
  <2>7. QED
    BY <2>1, <2>2, <2>3, <2>4, <2>5, <2>6 DEF Handle
<1>2. CASE \E c \in Connections : Run(c)
  BY <1>2, QueryTypes
<1>3. CASE Assign
  <2>1. queue # <<>> /\ queue' = Tail(queue) /\ queue \in Seq(Task)
    BY <1>3 DEF Assign, TypeOK
  <2>2. Head(queue) \in Task /\ queue' \in Seq(Task)
    BY <2>1, Dequeued
  <2>3. IdleOK'
    BY <1>3, <2>1, Assigned DEF TypeOK, IdleOK
  <2>4. awaiting' \in [Requests -> SUBSET Nat]
    BY <1>3, <2>2 DEF Assign, Settled, TypeOK
  <2>5. QED
    BY <1>3, <2>2, <2>3, <2>4 DEF Assign, TypeOK, IdleOK
<1>4. CASE OpenFails
  <2>1. queue # <<>> /\ queue' = Tail(queue) /\ queue \in Seq(Task)
    BY <1>4 DEF OpenFails, TypeOK
  <2>2. Head(queue) \in Task /\ queue' \in Seq(Task)
    BY <2>1, Dequeued
  <2>3. ops' \in [Requests -> Seq(Ops)] /\ awaiting' \in [Requests -> SUBSET Nat]
    BY <1>4, <2>2, RejectTypes DEF OpenFails
  <2>4. QED
    BY <1>4, <2>2, <2>3 DEF OpenFails, TypeOK, connections
<1>5. CASE IdleTimeout
  <2>1. IdleOK'
    BY <1>5, TimedOut DEF TypeOK, IdleOK
  <2>2. PICK i \in DOMAIN idle : Leave(idle[i], "none", {})
    BY <1>5 DEF IdleTimeout
  <2>3. /\ tx' \in [Connections -> {"none", "open", "aborted"}]
        /\ unsaved' \in [Connections -> SUBSET Row]
    BY <2>2 DEF Leave, TypeOK
  <2>4. QED
    BY <1>5, <2>1, <2>3 DEF IdleTimeout, TypeOK, IdleOK, requests
<1>6. CASE UNCHANGED vars
  BY <1>6 DEF vars, requests, connections, TypeOK
<1>7. QED
  BY <1>1, <1>2, <1>3, <1>4, <1>5, <1>6 DEF Next

(***************************************************************************)
(* Every variable keeps its type, and no connection is idle twice or idle  *)
(* and in use: the bookkeeping of the pool never hands a connection to two *)
(* tasks.                                                                  *)
(***************************************************************************)
THEOREM PoolTypes == Spec => []TypeOK
  BY TypeInit, TypeStep, PTL DEF Spec

----------------------------------------------------------------------------
(***************************************************************************)
(* Waiting.  Each request asks for a connection of its own once: before it *)
(* asks it has none, while it waits it has none, and then it has one.      *)
(***************************************************************************)
WaitsAt(r, i) == queue[i].op = "connect" /\ queue[i].of = r
Waits(r)      == \E i \in DOMAIN queue : WaitsAt(r, i)
Keeps(r)      == \E c \in Connections : Owns(r, c)
AsksOnce(r)   == \A i, j \in DOMAIN queue : WaitsAt(r, i) /\ WaitsAt(r, j) => i = j

OneConnection ==
    \A r \in Requests :
        /\ ConnectsOnce(ops[r])
        /\ HasConnect(ops[r]) => ~Waits(r) /\ ~Keeps(r)
        /\ AsksOnce(r)
        /\ Waits(r) => ~Keeps(r)
        /\ \A c, d \in Connections : Owns(r, c) /\ Owns(r, d) => c = d

OnlyTransactional ==
    \A r \in Requests :
        HasConnect(ops[r]) \/ Waits(r) \/ Keeps(r) => kind[r] \in Transactional

HoldInv == TypeOK /\ OneConnection /\ OnlyTransactional

\* A step adds no connect to what a request has to do.
Shrinks(r) ==
    /\ ConnectsOnce(ops[r]) => ConnectsOnce(ops'[r])
    /\ HasConnect(ops'[r]) => HasConnect(ops[r])

(***************************************************************************)
(* Neither the next operation of a program nor an exception adds one.      *)
(***************************************************************************)
LEMMA OpsShrink ==
  ASSUME ops \in [Requests -> Seq(Ops)], NEW r \in Requests,
         \/ ops[r] # <<>> /\ Advance(r)
         \/ \E isHttp \in BOOLEAN : Throw(r, isHttp)
         \/ ops' = [ops EXCEPT ![r] = Report(r, FALSE)]
         \/ ops' = [ops EXCEPT ![r] = <<"release">> \o Report(r, FALSE)]
         \/ UNCHANGED ops
  PROVE  \A q \in Requests : Shrinks(q)
<1> SUFFICES ASSUME NEW q \in Requests PROVE Shrinks(q)
  OBVIOUS
<1>1. CASE ops'[q] = ops[q]
  BY <1>1 DEF Shrinks
<1>2. CASE q = r /\ ops[r] # <<>> /\ ops'[r] = Tail(ops[r])
  BY <1>2, Rests DEF Shrinks
<1>3. CASE q = r /\ ~HasConnect(ops'[r])
  BY <1>3 DEF Shrinks, ConnectsOnce, HasConnect
<1>4. CASE \E isHttp \in BOOLEAN : Throw(r, isHttp)
  <2>1. PICK isHttp \in BOOLEAN : Throw(r, isHttp)
    BY <1>4
  <2>2. ~HasConnect(Undo(r) \o Report(r, isHttp \/ Undo(r) # <<>>))
    BY Exceptions
  <2>3. ops'[r] = Undo(r) \o Report(r, isHttp \/ Undo(r) # <<>>)
    BY <2>1 DEF Throw
  <2>4. q # r => ops'[q] = ops[q]
    BY <2>1 DEF Throw
  <2>5. QED
    BY <1>1, <1>3, <2>2, <2>3, <2>4
<1>5. CASE ops' = [ops EXCEPT ![r] = Report(r, FALSE)]
  <2>1. ops'[r] \in {<<>>, <<"fail">>}
    BY <1>5 DEF Report
  <2>2. ~HasConnect(ops'[r])
    BY <2>1 DEF HasConnect
  <2>3. QED
    BY <1>1, <1>3, <1>5, <2>2
<1>6. CASE ops[r] # <<>> /\ Advance(r)
  BY <1>1, <1>2, <1>6 DEF Advance
<1>7. CASE ops' = [ops EXCEPT ![r] = <<"release">> \o Report(r, FALSE)]
  <2>1. ~HasConnect(ops'[r])
    BY <1>7, FailedRollback
  <2>2. QED
    BY <1>1, <1>3, <1>7, <2>1
<1>8. QED
  BY <1>1, <1>4, <1>5, <1>6, <1>7

(***************************************************************************)
(* A step that adds no connect to the programs, to the queue or to the     *)
(* connections preserves the invariant.                                    *)
(***************************************************************************)
LEMMA HoldKept ==
  ASSUME OneConnection, OnlyTransactional, UNCHANGED kind,
         \A r \in Requests : Shrinks(r),
         \A r \in Requests : (Waits(r)' => Waits(r)) /\ (AsksOnce(r) => AsksOnce(r)'),
         \A r \in Requests, c \in Connections : Owns(r, c)' => Owns(r, c)
  PROVE  OneConnection' /\ OnlyTransactional'
<1> SUFFICES ASSUME NEW r \in Requests
             PROVE  /\ ConnectsOnce(ops[r])'
                    /\ HasConnect(ops[r])' => ~Waits(r)' /\ ~Keeps(r)'
                    /\ AsksOnce(r)'
                    /\ Waits(r)' => ~Keeps(r)'
                    /\ \A c, d \in Connections : Owns(r, c)' /\ Owns(r, d)' => c = d
                    /\ HasConnect(ops[r])' \/ Waits(r)' \/ Keeps(r)' => kind[r]' \in Transactional
  BY DEF OneConnection, OnlyTransactional
<1>1. (Waits(r)' => Waits(r)) /\ (AsksOnce(r) => AsksOnce(r)')
  OBVIOUS
<1>2. Keeps(r)' => Keeps(r)
  BY DEF Keeps
<1>3. /\ ConnectsOnce(ops[r]) => ConnectsOnce(ops[r])'
      /\ HasConnect(ops[r])' => HasConnect(ops[r])
  BY DEF Shrinks, ConnectsOnce, HasConnect
<1>4. QED
  BY <1>1, <1>2, <1>3 DEF OneConnection, OnlyTransactional

(***************************************************************************)
(* New queries join the queue.                                             *)
(***************************************************************************)
LEMMA HoldSubmit ==
  ASSUME HoldInv, NEW r \in Requests, NEW op \in Single \ {"connect"}, NEW n \in Nat,
         NEW awaited \in BOOLEAN, Submit(r, op, n, awaited), ops[r] # <<>>
  PROVE  OneConnection' /\ OnlyTransactional'
<1>1. /\ queue \in Seq(Task)
      /\ queue' \in Seq(Task) /\ Len(queue') = Len(queue) + n
      /\ \A i \in 1 .. Len(queue) : queue'[i] = queue[i]
      /\ \A i \in Len(queue) + 1 .. Len(queue) + n : queue'[i].op = op
  BY Submitted DEF HoldInv, TypeOK, Join
<1>2. \A q \in Requests : Shrinks(q)
  BY OpsShrink DEF HoldInv, TypeOK, Submit
<1>3. \A q \in Requests : \A i \in DOMAIN queue' :
        WaitsAt(q, i)' => i \in DOMAIN queue /\ WaitsAt(q, i)
  BY <1>1 DEF WaitsAt
<1>4. \A q \in Requests, c \in Connections : Owns(q, c)' => Owns(q, c)
  BY DEF Submit, connections, Owns
<1>5. \A q \in Requests : (Waits(q)' => Waits(q)) /\ (AsksOnce(q) => AsksOnce(q)')
  BY <1>3 DEF Waits, AsksOnce
<1>6. QED
  BY <1>2, <1>4, <1>5, HoldKept DEF HoldInv, Submit

(***************************************************************************)
(* A request asks for its own connection: it has none yet, and it does not *)
(* ask again.                                                              *)
(***************************************************************************)
LEMMA HoldConnect ==
  ASSUME HoldInv, NEW r \in Requests, At(r, "connect"), Submit(r, "connect", 1, TRUE)
  PROVE  OneConnection' /\ OnlyTransactional'
<1>1. /\ queue \in Seq(Task) /\ Len(queue) \in Nat
      /\ queue' \in Seq(Task) /\ Len(queue') = Len(queue) + 1
      /\ \A i \in 1 .. Len(queue) : queue'[i] = queue[i]
      /\ queue'[Len(queue) + 1].op = "connect" /\ queue'[Len(queue) + 1].of = r
  <2>1. TypeOK /\ ops[r] # <<>> /\ "connect" \in Single
    BY DEF HoldInv, At, Single
  <2>2. /\ TypeOK'
        /\ Len(queue') = Len(queue) + 1
        /\ \A i \in 1 .. Len(queue) : queue'[i] = queue[i]
        /\ Join(r, "connect", 1)
    BY <2>1, Submitted
  <2>3. queue \in Seq(Task) /\ queue' \in Seq(Task) /\ Len(queue) \in Nat
    BY <2>1, <2>2 DEF TypeOK
  <2>4. QED
    BY <2>2, <2>3 DEF Join
<1>2. /\ ops[r] \in Seq(Ops) /\ ops[r] # <<>> /\ ops[r][1] = "connect"
      /\ ops'[r] = Tail(ops[r])
      /\ \A q \in Requests : q # r => ops'[q] = ops[q]
  BY DEF HoldInv, TypeOK, At, Submit, Advance
<1>3. ConnectsOnce(ops[r]) /\ HasConnect(ops[r])
  BY <1>2 DEF HoldInv, OneConnection, HasConnect
<1>4. ConnectsOnce(ops'[r]) /\ ~HasConnect(ops'[r])
  BY <1>2, <1>3, Rests
<1>5. ~Waits(r) /\ ~Keeps(r) /\ kind[r] \in Transactional
  BY <1>3 DEF HoldInv, OneConnection, OnlyTransactional
<1>6. \A q \in Requests, c \in Connections : Owns(q, c)' = Owns(q, c)
  BY DEF Submit, connections, Owns
<1>7. \A q \in Requests : Keeps(q)' = Keeps(q)
  BY <1>6 DEF Keeps
<1>8. kind' = kind
  BY DEF Submit
<1> SUFFICES ASSUME NEW q \in Requests
             PROVE  /\ ConnectsOnce(ops[q])'
                    /\ HasConnect(ops[q])' => ~Waits(q)' /\ ~Keeps(q)'
                    /\ AsksOnce(q)'
                    /\ Waits(q)' => ~Keeps(q)'
                    /\ \A c, d \in Connections : Owns(q, c)' /\ Owns(q, d)' => c = d
                    /\ HasConnect(ops[q])' \/ Waits(q)' \/ Keeps(q)' => kind[q]' \in Transactional
  BY DEF OneConnection, OnlyTransactional
<1>9. DOMAIN queue = 1 .. Len(queue) /\ DOMAIN queue' = 1 .. Len(queue) + 1
  BY <1>1
<1>10. CASE q = r
  <2>1. \A i \in 1 .. Len(queue) : ~WaitsAt(r, i)'
    BY <1>1, <1>5, <1>9 DEF Waits, WaitsAt
  <2>2. AsksOnce(r)'
    BY <1>1, <1>9, <2>1 DEF AsksOnce
  <2>3. ~HasConnect(ops[r])' /\ ConnectsOnce(ops[r])'
    BY <1>4 DEF HasConnect, ConnectsOnce
  <2>4. \A c, d \in Connections : Owns(r, c)' /\ Owns(r, d)' => c = d
    BY <1>6 DEF HoldInv, OneConnection
  <2>5. QED
    BY <1>5, <1>7, <1>8, <1>10, <2>2, <2>3, <2>4
<1>11. CASE q # r
  <2>1. \A i \in DOMAIN queue' : WaitsAt(q, i)' => i \in DOMAIN queue /\ WaitsAt(q, i)
    BY <1>1, <1>9, <1>11 DEF WaitsAt
  <2>2. Waits(q)' => Waits(q)
    BY <2>1 DEF Waits
  <2>3. AsksOnce(q) => AsksOnce(q)'
    BY <2>1 DEF AsksOnce
  <2>4. \A c, d \in Connections : Owns(q, c)' /\ Owns(q, d)' => c = d
    BY <1>6 DEF HoldInv, OneConnection
  <2>5. /\ ConnectsOnce(ops[q])' <=> ConnectsOnce(ops[q])
        /\ HasConnect(ops[q])' <=> HasConnect(ops[q])
    BY <1>2, <1>11 DEF ConnectsOnce, HasConnect
  <2>6. QED
    BY <1>7, <1>8, <2>2, <2>3, <2>4, <2>5 DEF HoldInv, OneConnection, OnlyTransactional
<1>12. QED
  BY <1>10, <1>11

(***************************************************************************)
(* When the first of the queue leaves it, the others still ask once.       *)
(***************************************************************************)
LEMMA Advances ==
  ASSUME queue \in Seq(Task), queue # <<>>, queue' = Tail(queue), NEW q \in Requests
  PROVE  /\ Waits(q)' => Waits(q)
         /\ WaitsAt(q, 1) => Waits(q)
         /\ AsksOnce(q) => AsksOnce(q)'
         /\ AsksOnce(q) /\ WaitsAt(q, 1) => ~Waits(q)'
<1>1. /\ Len(queue) \in Nat \ {0}
      /\ DOMAIN queue = 1 .. Len(queue) /\ DOMAIN queue' = 1 .. Len(queue) - 1
      /\ \A i \in 1 .. Len(queue) - 1 : queue'[i] = queue[i + 1]
  BY Dequeued
<1>2. \A i \in DOMAIN queue' :
        i + 1 \in DOMAIN queue /\ i + 1 # 1 /\ (WaitsAt(q, i)' <=> WaitsAt(q, i + 1))
  BY <1>1 DEF WaitsAt
<1>3. 1 \in DOMAIN queue
  BY <1>1
<1>4. ASSUME AsksOnce(q) PROVE AsksOnce(q)'
  <2> SUFFICES ASSUME NEW i \in DOMAIN queue', NEW j \in DOMAIN queue',
                      WaitsAt(q, i)', WaitsAt(q, j)'
               PROVE  i = j
    BY DEF AsksOnce
  <2>1. i + 1 = j + 1
    BY <1>2, <1>4 DEF AsksOnce
  <2>2. QED
    BY <1>1, <2>1
<1>5. AsksOnce(q) /\ WaitsAt(q, 1) => ~Waits(q)'
  BY <1>2, <1>3 DEF AsksOnce, Waits
<1>6. QED
  BY <1>2, <1>3, <1>4, <1>5 DEF Waits

(***************************************************************************)
(* The first of the queue gets a connection: if it is a request that asked *)
(* for one of its own, it does not wait any more.                          *)
(***************************************************************************)
LEMMA HoldAssign ==
  ASSUME HoldInv, Assign
  PROVE  OneConnection' /\ OnlyTransactional'
<1> DEFINE t == Head(queue)
<1>1. t \in Task /\ t = queue[1]
  BY Dequeued DEF HoldInv, TypeOK, Assign
<1>2. PICK c \in Connections : holder' = [holder EXCEPT ![c] = t]
  BY DEF Assign
<1>3. UNCHANGED <<kind, ops>>
  BY DEF Assign
<1>4. t # NoTask
  BY <1>1, PoolAssumption
<1>5. \A q \in Requests : \A d \in Connections \ {c} : Owns(q, d)' <=> Owns(q, d)
  BY <1>2 DEF Owns, HoldInv, TypeOK
<1>6. \A q \in Requests : Owns(q, c)' <=> WaitsAt(q, 1)
  BY <1>1, <1>2, <1>4 DEF Owns, WaitsAt, HoldInv, TypeOK
<1> HIDE DEF t
<1> SUFFICES ASSUME NEW q \in Requests
             PROVE  /\ ConnectsOnce(ops[q])'
                    /\ HasConnect(ops[q])' => ~Waits(q)' /\ ~Keeps(q)'
                    /\ AsksOnce(q)'
                    /\ Waits(q)' => ~Keeps(q)'
                    /\ \A d, e \in Connections : Owns(q, d)' /\ Owns(q, e)' => d = e
                    /\ HasConnect(ops[q])' \/ Waits(q)' \/ Keeps(q)' => kind[q]' \in Transactional
  BY DEF OneConnection, OnlyTransactional
<1>7. /\ Waits(q)' => Waits(q)
      /\ WaitsAt(q, 1) => Waits(q) /\ ~Waits(q)'
      /\ AsksOnce(q)'
  BY Advances DEF HoldInv, TypeOK, OneConnection, Assign
<1>8. /\ ConnectsOnce(ops[q])' <=> ConnectsOnce(ops[q])
      /\ HasConnect(ops[q])' <=> HasConnect(ops[q])
  BY <1>3 DEF ConnectsOnce, HasConnect
<1>9. Keeps(q)' => Keeps(q) \/ WaitsAt(q, 1)
  BY <1>5, <1>6 DEF Keeps
<1>10. \A d, e \in Connections : Owns(q, d)' /\ Owns(q, e)' => d = e
  <2>1. CASE WaitsAt(q, 1)
    <3>1. ~Keeps(q)
      BY <1>7, <2>1 DEF HoldInv, OneConnection
    <3>2. QED
      BY <1>5, <3>1 DEF Keeps
  <2>2. CASE ~WaitsAt(q, 1)
    <3>1. \A d, e \in Connections : Owns(q, d) /\ Owns(q, e) => d = e
      BY DEF HoldInv, OneConnection
    <3>2. QED
      BY <1>5, <1>6, <2>2, <3>1
  <2>3. QED
    BY <2>1, <2>2
<1>11. QED
  BY <1>3, <1>7, <1>8, <1>9, <1>10 DEF HoldInv, OneConnection, OnlyTransactional

(***************************************************************************)
(* A step on an own connection gives it back or keeps it.                  *)
(***************************************************************************)
LEMMA HoldOwnStep ==
  ASSUME HoldInv, NEW r \in Requests, OnOwnConnection(r)
  PROVE  OneConnection' /\ OnlyTransactional'
<1>1. PICK c \in Connections :
        Begin(r, c) \/ OwnSave(r, c) \/ Commit(r, c) \/ Rollback(r, c) \/ Release(r, c)
  BY DEF OnOwnConnection
<1>2. UNCHANGED <<kind, queue>>
  BY DEF OnOwnConnection
<1>3. \/ ops[r] # <<>> /\ Advance(r)
      \/ \E isHttp \in BOOLEAN : Throw(r, isHttp)
      \/ ops' = [ops EXCEPT ![r] = Report(r, FALSE)]
      \/ ops' = [ops EXCEPT ![r] = <<"release">> \o Report(r, FALSE)]
  BY <1>1 DEF Begin, OwnSave, Commit, Rollback, Release, At
<1>4. \A q \in Requests : Shrinks(q)
  BY <1>3, OpsShrink DEF HoldInv, TypeOK
<1>5. UNCHANGED holder \/ holder' = [holder EXCEPT ![c] = NoTask]
  BY <1>1 DEF Begin, OwnSave, Commit, Rollback, Release, GiveBack
<1>6. \A q \in Requests, d \in Connections : Owns(q, d)' => Owns(q, d)
  BY <1>5 DEF Owns, HoldInv, TypeOK
<1>7. QED
  BY <1>2, <1>4, <1>6, HoldKept DEF HoldInv, Waits, AsksOnce, WaitsAt

(***************************************************************************)
(* A query ends, and its connection goes back.                             *)
(***************************************************************************)
LEMMA HoldRun ==
  ASSUME HoldInv, NEW c \in Connections, Run(c)
  PROVE  OneConnection' /\ OnlyTransactional'
<1> DEFINE t == holder[c]
<1>1. t \in Task /\ t.of \in Requests
  BY DEF HoldInv, TypeOK, Run, Task
<1>2. UNCHANGED <<kind, queue>> /\ holder' = [holder EXCEPT ![c] = NoTask]
  BY DEF Run, GiveBack
<1>3. UNCHANGED ops \/ \E isHttp \in BOOLEAN : Throw(t.of, isHttp)
  <2>1. CASE Succeed(c)
    BY <2>1 DEF Succeed, Resume
  <2>2. CASE Fail(c)
    <3>1. Reject(t)
      BY <2>2 DEF Fail
    <3>2. UNCHANGED ops \/ Throw(t.of, FALSE)
      BY <1>1, <3>1 DEF Reject, CaughtInFilter, HoldInv, TypeOK
    <3>3. QED
      BY <3>2
  <2>3. QED
    BY <2>1, <2>2 DEF Run
<1>4. \A q \in Requests : Shrinks(q)
  BY <1>1, <1>3, OpsShrink DEF HoldInv, TypeOK
<1>5. \A q \in Requests, d \in Connections : Owns(q, d)' => Owns(q, d)
  BY <1>2 DEF Owns, HoldInv, TypeOK
<1>6. QED
  BY <1>2, <1>4, <1>5, HoldKept DEF HoldInv, Waits, AsksOnce, WaitsAt

(***************************************************************************)
(* The first of the queue is told that no connection could be opened.      *)
(***************************************************************************)
LEMMA HoldOpenFails ==
  ASSUME HoldInv, OpenFails
  PROVE  OneConnection' /\ OnlyTransactional'
<1> DEFINE t == Head(queue)
<1>1. queue \in Seq(Task) /\ queue # <<>> /\ queue' = Tail(queue)
  BY DEF HoldInv, TypeOK, OpenFails
<1>2. t \in Task /\ t.of \in Requests
  BY <1>1, Dequeued DEF Task
<1>3. UNCHANGED ops \/ Throw(t.of, FALSE)
  BY <1>2 DEF OpenFails, Reject, CaughtInFilter, HoldInv, TypeOK
<1> HIDE DEF t
<1>4. \A q \in Requests : Shrinks(q)
  <2>1. UNCHANGED ops \/ \E isHttp \in BOOLEAN : Throw(t.of, isHttp)
    BY <1>3
  <2>2. QED
    BY <1>2, <2>1, OpsShrink DEF HoldInv, TypeOK
<1>5. \A q \in Requests : (Waits(q)' => Waits(q)) /\ (AsksOnce(q) => AsksOnce(q)')
  BY <1>1, Advances
<1>6. UNCHANGED kind /\ \A q \in Requests, d \in Connections : Owns(q, d)' => Owns(q, d)
  BY DEF OpenFails, connections, Owns
<1>7. QED
  BY <1>4, <1>5, <1>6, HoldKept DEF HoldInv

(***************************************************************************)
(* The invariant holds at first, and every step of Next preserves it.      *)
(***************************************************************************)
LEMMA HoldInit == Init => HoldInv
<1> SUFFICES ASSUME Init PROVE HoldInv
  OBVIOUS
<1>1. TypeOK
  BY TypeInit
<1>2. ASSUME NEW r \in Requests
      PROVE  ConnectsOnce(ops[r]) /\ (HasConnect(ops[r]) => kind[r] \in Transactional)
  <2>1. kind[r] \in Kinds /\ ops[r] = Program[kind[r]]
    BY PoolAssumption DEF Init
  <2>2. QED
    BY <2>1, Programs
<1>3. ASSUME NEW r \in Requests PROVE ~Waits(r) /\ AsksOnce(r) /\ \A c \in Connections : ~Owns(r, c)
  BY DEF Init, Waits, AsksOnce, Owns
<1>4. QED
  BY <1>1, <1>2, <1>3 DEF HoldInv, OneConnection, OnlyTransactional, Keeps

LEMMA HoldStep == HoldInv /\ [Next]_vars => HoldInv'
<1> SUFFICES ASSUME HoldInv, [Next]_vars PROVE OneConnection' /\ OnlyTransactional'
  BY TypeStep DEF HoldInv
<1>1. ASSUME NEW r \in Requests, Handle(r) PROVE OneConnection' /\ OnlyTransactional'
  <2>1. CASE Call(r)
    <3>1. PICK op \in Single : At(r, op) /\ Submit(r, op, 1, TRUE)
      BY <2>1 DEF Call
    <3>2. CASE op = "connect"
      BY <3>1, <3>2, HoldConnect
    <3>3. CASE op # "connect"
      BY <3>1, <3>3, HoldSubmit DEF At
    <3>4. QED
      BY <3>2, <3>3
  <2>2. CASE Fork(r)
    <3>1. ops[r] # <<>> /\ \E op \in {"save", "statement"} : Submit(r, op, Parallel, TRUE)
      BY <2>2 DEF Fork, At
    <3>2. Parallel \in Nat /\ {"save", "statement"} \subseteq Single \ {"connect"}
      BY PoolAssumption DEF Single
    <3>3. QED
      BY <3>1, <3>2, HoldSubmit
  <2>3. CASE Background(r)
    <3>1. ops[r] # <<>> /\ Submit(r, "saveLoaded", 1, FALSE) /\ "saveLoaded" \in Single \ {"connect"}
      BY <2>3 DEF Background, At, Single
    <3>2. QED
      BY <3>1, HoldSubmit
  <2>4. CASE Answer(r)
    <3>1. ops[r] # <<>> /\ Advance(r) /\ UNCHANGED <<kind, queue, connections>>
      BY <2>4 DEF Answer, At
    <3>2. \A q \in Requests : Shrinks(q)
      BY <3>1, OpsShrink DEF HoldInv, TypeOK
    <3>3. QED
      BY <3>1, <3>2, HoldKept DEF HoldInv, connections, Waits, AsksOnce, WaitsAt, Owns
  <2>5. CASE OnOwnConnection(r)
    BY <2>5, HoldOwnStep
  <2>6. QED
    BY <1>1, <2>1, <2>2, <2>3, <2>4, <2>5 DEF Handle
<1>2. ASSUME NEW c \in Connections, Run(c) PROVE OneConnection' /\ OnlyTransactional'
  BY <1>2, HoldRun
<1>3. CASE Assign
  BY <1>3, HoldAssign
<1>4. CASE OpenFails
  BY <1>4, HoldOpenFails
<1>5. CASE IdleTimeout \/ UNCHANGED vars
  <2>1. UNCHANGED <<kind, ops, queue, holder>>
    BY <1>5 DEF IdleTimeout, vars, requests, connections
  <2>2. \A q \in Requests : Shrinks(q)
    BY <2>1 DEF Shrinks
  <2>3. QED
    BY <2>1, <2>2, HoldKept DEF HoldInv, Waits, AsksOnce, WaitsAt, Owns
<1>6. QED
  BY <1>1, <1>2, <1>3, <1>4, <1>5 DEF Next

(***************************************************************************)
(* With fewer requests that keep a connection than connections, there is   *)
(* always one that is free or runs a query: if each belonged to a request, *)
(* these requests would be as many as the connections.                     *)
(***************************************************************************)
LEMMA HoldersAreFew ==
  ASSUME HoldInv, FewerHolders
  PROVE  \E c \in Connections : holder[c] = NoTask \/ holder[c].op # "connect"
<1> SUFFICES ASSUME \A c \in Connections : holder[c] # NoTask /\ holder[c].op = "connect"
             PROVE  FALSE
  OBVIOUS
<1> DEFINE holders == {r \in Requests : kind[r] \in Transactional}
           f == [c \in Connections |-> holder[c].of]
<1>1. Cardinality(holders) < Cardinality(Connections)
  BY DEF FewerHolders, HoldInv, TypeOK
<1>2. ASSUME NEW c \in Connections
      PROVE  holder[c].of \in Requests /\ Owns(holder[c].of, c)
  BY DEF Owns, HoldInv, TypeOK, Task
<1>3. \A c \in Connections : f[c] \in holders
  BY <1>2 DEF HoldInv, OnlyTransactional, Keeps
<1>4. \A c, d \in Connections : f[c] = f[d] => c = d
  BY <1>2 DEF HoldInv, OneConnection
<1>5. f \in Injection(Connections, holders)
  BY <1>3, <1>4 DEF Injection, IsInjective
<1>6. IsFiniteSet(holders) /\ IsFiniteSet(Connections)
  BY PoolAssumption, FS_Subset
<1>7. Cardinality(Connections) <= Cardinality(holders)
  BY <1>5, <1>6, FS_Injection
<1>8. Cardinality(Connections) \in Nat /\ Cardinality(holders) \in Nat
  BY <1>6, FS_CardinalityType
<1>9. QED
  BY <1>1, <1>7, <1>8

(***************************************************************************)
(* Whatever the requests, and however many they are: as long as those that *)
(* keep a connection are fewer than the connections, no request waits for  *)
(* a connection while all are kept by requests that may wait themselves.   *)
(***************************************************************************)
THEOREM WaitingEnds == ASSUME FewerHolders PROVE Spec => []WaitingIsNotInVain
<1>1. HoldInv => WaitingIsNotInVain
  BY HoldersAreFew DEF WaitingIsNotInVain
<1>2. QED
  BY <1>1, HoldInit, HoldStep, PTL DEF Spec

----------------------------------------------------------------------------
(***************************************************************************)
(* Transactions.  Only loginWithSocialNetwork can return without ending    *)
(* its transaction.  Until it has done so every connection is clean when   *)
(* it is not kept.  Whoever comes to a release in another way has ended    *)
(* its transaction, whatever it found on its connection.                   *)
(***************************************************************************)
AtRelease(r) == ops[r] # <<>> /\ ops[r][1] = "release"
Ending(r)    == ops[r] # <<>> /\ ops[r][1] \in {"commit", "rollback"}
Releases(r)  == kind[r] \notin EarlyReturns /\ AtRelease(r)

ProgramsEnd     == \A r \in Requests : kind[r] \notin EarlyReturns => EndsBeforeRelease(ops[r])
LeaksAreEarly   == \A r \in leaks : kind[r] \in EarlyReturns
SharedIsClean   ==
    leaks = {} => \A c \in Connections : (\A r \in Requests : ~Owns(r, c)) => IsClean(c)
ReleasedIsClean == \A r \in Requests, c \in Connections : Owns(r, c) /\ Releases(r) => IsClean(c)
ReleasersHold   == \A r \in Requests : Releases(r) => ~Waits(r)
WrittenIsStored == leaks = {} => written \subseteq stored

CleanOK ==
    /\ ProgramsEnd /\ LeaksAreEarly /\ SharedIsClean
    /\ ReleasedIsClean /\ ReleasersHold /\ WrittenIsStored

CleanInv == HoldInv /\ CleanOK

\* r does not come to a release by this step.
Stays(r) == Releases(r)' => Releases(r)

(***************************************************************************)
(* An exception leads nobody to a release: a rollback comes first.         *)
(***************************************************************************)
LEMMA ThrowEnds ==
  ASSUME ops \in [Requests -> Seq(Ops)], ProgramsEnd, NEW r \in Requests, UNCHANGED kind,
         NEW isHttp \in BOOLEAN, Throw(r, isHttp)
  PROVE  ProgramsEnd' /\ \A q \in Requests : Stays(q)
<1> DEFINE s == Undo(r) \o Report(r, isHttp \/ Undo(r) # <<>>)
<1>1. EndsBeforeRelease(s) /\ (s # <<>> => s[1] # "release")
  BY Exceptions
<1>2. ops' = [ops EXCEPT ![r] = s]
  BY DEF Throw
<1> HIDE DEF s
<1>3. ops'[r] = s /\ \A q \in Requests : q # r => ops'[q] = ops[q]
  BY <1>2
<1>4. ASSUME NEW q \in Requests
      PROVE  (kind[q] \notin EarlyReturns => EndsBeforeRelease(ops[q])') /\ Stays(q)
  <2>1. kind[q] \notin EarlyReturns => EndsBeforeRelease(ops'[q])
    BY <1>1, <1>3 DEF ProgramsEnd
  <2>2. kind[q] \notin EarlyReturns => EndsBeforeRelease(ops[q])'
    BY <2>1 DEF EndsBeforeRelease
  <2>3. Stays(q)
    BY <1>1, <1>3 DEF Stays, Releases, AtRelease
  <2>4. QED
    BY <2>2, <2>3
<1>5. QED
  BY <1>4 DEF ProgramsEnd

(***************************************************************************)
(* A request comes to a release only by a commit or a rollback.            *)
(***************************************************************************)
LEMMA OpsEnd ==
  ASSUME ops \in [Requests -> Seq(Ops)], ProgramsEnd, NEW r \in Requests, UNCHANGED kind,
         \/ ops[r] # <<>> /\ Advance(r)
         \/ \E isHttp \in BOOLEAN : Throw(r, isHttp)
         \/ ops' = [ops EXCEPT ![r] = Report(r, FALSE)]
         \/ Ending(r) /\ ops' = [ops EXCEPT ![r] = <<"release">> \o Report(r, FALSE)]
         \/ UNCHANGED ops
  PROVE  /\ ProgramsEnd'
         /\ \A q \in Requests : Stays(q) \/ (q = r /\ Ending(r))
<1>1. CASE UNCHANGED ops
  BY <1>1 DEF ProgramsEnd, Stays, Releases, AtRelease, EndsBeforeRelease
<1>2. ASSUME NEW s \in Seq(Ops), ops' = [ops EXCEPT ![r] = s],
             kind[r] \notin EarlyReturns =>
               EndsBeforeRelease(s) /\ (s # <<>> => s[1] # "release" \/ Ending(r))
      PROVE  /\ ProgramsEnd'
             /\ \A q \in Requests : Stays(q) \/ (q = r /\ Ending(r))
  <2>1. ops'[r] = s /\ \A q \in Requests : q # r => ops'[q] = ops[q]
    BY <1>2
  <2>2. ASSUME NEW q \in Requests, kind[q] \notin EarlyReturns PROVE EndsBeforeRelease(ops[q])'
    <3>1. EndsBeforeRelease(ops'[q])
      BY <1>2, <2>1, <2>2 DEF ProgramsEnd
    <3>2. QED
      BY <3>1 DEF EndsBeforeRelease
  <2>3. ProgramsEnd'
    BY <2>2 DEF ProgramsEnd
  <2>4. \A q \in Requests : Stays(q) \/ (q = r /\ Ending(r))
    BY <1>2, <2>1 DEF Stays, Releases, AtRelease
  <2>5. QED
    BY <2>3, <2>4
<1>3. CASE ops[r] # <<>> /\ Advance(r)
  <2>1. /\ Tail(ops[r]) \in Seq(Ops)
        /\ kind[r] \notin EarlyReturns =>
             /\ EndsBeforeRelease(Tail(ops[r]))
             /\ Tail(ops[r]) # <<>> /\ Tail(ops[r])[1] = "release" =>
                  ops[r][1] \in {"commit", "rollback"}
    BY <1>3, Rests DEF ProgramsEnd
  <2>2. QED
    BY <1>2, <1>3, <2>1 DEF Advance, Ending
<1>4. CASE \E isHttp \in BOOLEAN : Throw(r, isHttp)
  BY <1>4, ThrowEnds
<1>5. CASE ops' = [ops EXCEPT ![r] = Report(r, FALSE)]
  <2>1. Report(r, FALSE) \in {<<>>, <<"fail">>}
    BY DEF Report
  <2>2. \A s \in {<<>>, <<"fail">>} :
          s \in Seq(Ops) /\ EndsBeforeRelease(s) /\ (s # <<>> => s[1] # "release")
    <3>1. <<>> \in Seq(Ops) /\ EndsBeforeRelease(<<>>)
      BY DEF EndsBeforeRelease
    <3>2. <<"fail">> \in Seq(Ops) /\ EndsBeforeRelease(<<"fail">>) /\ <<"fail">>[1] # "release"
      BY DEF EndsBeforeRelease, Ops
    <3>3. QED
      BY <3>1, <3>2
  <2>3. QED
    BY <1>2, <1>5, <2>1, <2>2
<1>6. CASE Ending(r) /\ ops' = [ops EXCEPT ![r] = <<"release">> \o Report(r, FALSE)]
  <2> DEFINE s == <<"release">> \o Report(r, FALSE)
  <2>1. s \in Seq(Ops) /\ EndsBeforeRelease(s)
    BY FailedRollback
  <2> HIDE DEF s
  <2>2. Ending(r) /\ ops' = [ops EXCEPT ![r] = s]
    BY <1>6 DEF s
  <2>3. QED
    BY <1>2, <2>1, <2>2
<1>7. QED
  BY <1>1, <1>3, <1>4, <1>5, <1>6

(***************************************************************************)
(* A step that spoils no connection, makes no other owner and leads nobody *)
(* to a release preserves the cleanness.                                   *)
(***************************************************************************)
LEMMA CleanKept ==
  ASSUME CleanOK, ProgramsEnd', UNCHANGED <<kind, leaks>>,
         leaks = {} => WrittenIsStored',
         \A r \in Requests : Stays(r),
         \A r \in Requests : Waits(r)' => Waits(r) \/ ~AtRelease(r),
         \A c \in Connections : IsClean(c) => IsClean(c)',
         \A r \in Requests, c \in Connections : Owns(r, c)' <=> Owns(r, c)
  PROVE  CleanOK'
<1>1. LeaksAreEarly' /\ SharedIsClean' /\ ReleasedIsClean'
  BY DEF CleanOK, LeaksAreEarly, SharedIsClean, ReleasedIsClean, Stays
<1>2. ReleasersHold'
  BY DEF CleanOK, ReleasersHold, Stays, Releases
<1>3. WrittenIsStored'
  BY DEF WrittenIsStored
<1>4. QED
  BY <1>1, <1>2, <1>3 DEF CleanOK

(***************************************************************************)
(* The calls on an own connection.                                         *)
(***************************************************************************)
LEMMA CleanOwnStep ==
  ASSUME CleanInv, NEW r \in Requests, OnOwnConnection(r)
  PROVE  CleanOK'
<1>1. PICK c \in Connections :
        /\ Owns(r, c)
        /\ Begin(r, c) \/ OwnSave(r, c) \/ Commit(r, c) \/ Rollback(r, c) \/ Release(r, c)
  BY DEF OnOwnConnection
<1>2. /\ ops \in [Requests -> Seq(Ops)]
      /\ tx \in [Connections -> {"none", "open", "aborted"}]
      /\ unsaved \in [Connections -> SUBSET Row]
      /\ holder \in [Connections -> Task \cup {NoTask}]
      /\ UNCHANGED <<kind, queue, written>>
  BY DEF CleanInv, HoldInv, TypeOK, OnOwnConnection
<1>3. leaks \subseteq leaks' /\ (leaks = {} => written' \subseteq stored')
  <2>1. stored' = stored \/ stored' = stored \cup unsaved[c]
    BY <1>1 DEF Begin, OwnSave, Commit, Rollback, Release
  <2>2. leaks' = leaks \/ leaks' = leaks \cup {r}
    BY <1>1 DEF Begin, OwnSave, Commit, Rollback, Release
  <2>3. QED
    BY <1>2, <2>1, <2>2 DEF CleanInv, CleanOK, WrittenIsStored
<1>4. ops[r] # <<>> /\ ops[r][1] = Head(ops[r])
  <2>1. ops[r] # <<>>
    BY <1>1 DEF Begin, OwnSave, Commit, Rollback, Release, At
  <2>2. QED
    BY <1>2, <2>1
<1>5. /\ ProgramsEnd'
      /\ \A q \in Requests : Stays(q) \/ (q = r /\ Ending(r))
  <2>1. \/ ops[r] # <<>> /\ Advance(r)
        \/ \E isHttp \in BOOLEAN : Throw(r, isHttp)
        \/ ops' = [ops EXCEPT ![r] = Report(r, FALSE)]
        \/ Ending(r) /\ ops' = [ops EXCEPT ![r] = <<"release">> \o Report(r, FALSE)]
    <3>1. CASE Rollback(r, c)
      BY <1>4, <3>1 DEF Rollback, At, Ending
    <3>2. CASE ~Rollback(r, c)
      BY <1>1, <1>4, <3>2 DEF Begin, OwnSave, Commit, Release
    <3>3. QED
      BY <3>1, <3>2
  <2>2. QED
    BY <1>2, <2>1, OpsEnd DEF CleanInv, CleanOK
<1>6. \A q \in Requests : Owns(q, c) => q = r
  BY <1>1 DEF Owns
<1>7. \A d \in Connections : Owns(r, d) => d = c
  BY <1>1 DEF CleanInv, HoldInv, OneConnection
<1>8. ReleasersHold'
  <2>1. ~Waits(r)
    BY <1>1 DEF CleanInv, HoldInv, OneConnection, Keeps
  <2>2. \A q \in Requests : Waits(q)' <=> Waits(q)
    BY <1>2 DEF Waits, WaitsAt
  <2>3. QED
    BY <1>5, <2>1, <2>2 DEF CleanInv, CleanOK, ReleasersHold, Stays
<1>9. CASE Begin(r, c) \/ OwnSave(r, c)
  <2>1. UNCHANGED <<holder, leaks>> /\ ops[r][1] \in {"begin", "ownSave"}
    BY <1>4, <1>9 DEF Begin, OwnSave, At
  <2>2. \A q \in Requests, d \in Connections : Owns(q, d)' <=> Owns(q, d)
    BY <2>1 DEF Owns
  <2>3. \A q \in Requests : Stays(q)
    BY <1>5, <2>1 DEF Ending
  <2>4. ~Releases(r)
    BY <2>1 DEF Releases, AtRelease
  <2>5. \A d \in Connections \ {c} : IsClean(d)' <=> IsClean(d)
    BY <1>2, <1>9 DEF Begin, OwnSave, Leave, IsClean
  <2>6. SharedIsClean'
    BY <1>1, <2>1, <2>2, <2>5 DEF CleanInv, CleanOK, SharedIsClean
  <2>7. ReleasedIsClean'
    BY <1>6, <2>2, <2>3, <2>4, <2>5 DEF CleanInv, CleanOK, ReleasedIsClean, Stays
  <2>8. LeaksAreEarly' /\ WrittenIsStored'
    BY <1>2, <1>3, <2>1 DEF CleanInv, CleanOK, LeaksAreEarly, WrittenIsStored
  <2>9. QED
    BY <1>5, <1>8, <2>6, <2>7, <2>8 DEF CleanOK
<1>10. CASE Commit(r, c) \/ Rollback(r, c)
  <2>1. UNCHANGED <<holder, leaks>> /\ Leave(c, "none", {})
    BY <1>10 DEF Commit, Rollback
  <2>2. \A q \in Requests, d \in Connections : Owns(q, d)' <=> Owns(q, d)
    BY <2>1 DEF Owns
  <2>3. /\ IsClean(c)'
        /\ \A d \in Connections \ {c} : IsClean(d)' <=> IsClean(d)
    BY <1>2, <2>1 DEF Leave, IsClean
  <2>4. SharedIsClean'
    BY <2>1, <2>2, <2>3 DEF CleanInv, CleanOK, SharedIsClean
  <2>5. ReleasedIsClean'
    BY <1>5, <1>7, <2>2, <2>3 DEF CleanInv, CleanOK, ReleasedIsClean, Stays
  <2>6. LeaksAreEarly' /\ WrittenIsStored'
    BY <1>2, <1>3, <2>1 DEF CleanInv, CleanOK, LeaksAreEarly, WrittenIsStored
  <2>7. QED
    BY <1>5, <1>8, <2>4, <2>5, <2>6 DEF CleanOK
<1>11. CASE Release(r, c)
  <2>1. /\ ops[r][1] = "release" /\ UNCHANGED <<tx, unsaved>>
        /\ holder' = [holder EXCEPT ![c] = NoTask]
        /\ leaks' = IF IsClean(c) THEN leaks ELSE leaks \cup {r}
    BY <1>4, <1>11 DEF Release, At, GiveBack
  <2>2. IsClean(c) \/ kind[r] \in EarlyReturns
    BY <1>1, <1>4, <2>1 DEF CleanInv, CleanOK, ReleasedIsClean, Releases, AtRelease
  <2>3. \A d \in Connections : IsClean(d)' <=> IsClean(d)
    BY <2>1 DEF IsClean
  <2>4. /\ \A q \in Requests : \A d \in Connections \ {c} : Owns(q, d)' <=> Owns(q, d)
        /\ \A q \in Requests : ~Owns(q, c)'
    BY <1>2, <2>1 DEF Owns
  <2>5. \A q \in Requests : Stays(q)
    BY <1>5, <2>1 DEF Ending
  <2>6. LeaksAreEarly'
    BY <1>2, <2>1, <2>2 DEF CleanInv, CleanOK, LeaksAreEarly
  <2>7. SharedIsClean'
    <3>1. leaks' = {} => leaks = {} /\ IsClean(c)
      BY <2>1
    <3>2. QED
      BY <2>3, <2>4, <3>1 DEF CleanInv, CleanOK, SharedIsClean
  <2>8. ReleasedIsClean'
    BY <2>3, <2>4, <2>5 DEF CleanInv, CleanOK, ReleasedIsClean, Stays
  <2>9. WrittenIsStored'
    BY <1>3 DEF WrittenIsStored
  <2>10. QED
    BY <1>5, <1>8, <2>6, <2>7, <2>8, <2>9 DEF CleanOK
<1>12. QED
  BY <1>1, <1>9, <1>10, <1>11

(***************************************************************************)
(* A query.  If nobody has left a transaction open its connection is clean *)
(* before, so that none takes its row, and clean after.                    *)
(***************************************************************************)
LEMMA CleanRun ==
  ASSUME CleanInv, NEW c \in Connections, Run(c)
  PROVE  CleanOK'
<1> DEFINE t == holder[c]
<1>1. /\ ops \in [Requests -> Seq(Ops)]
      /\ tx \in [Connections -> {"none", "open", "aborted"}]
      /\ unsaved \in [Connections -> SUBSET Row]
      /\ holder \in [Connections -> Task \cup {NoTask}]
      /\ t.of \in Requests
      /\ UNCHANGED <<kind, queue, leaks>>
  BY DEF CleanInv, HoldInv, TypeOK, Run, Task
<1>2. t # NoTask /\ t.op # "connect" /\ holder' = [holder EXCEPT ![c] = NoTask]
  BY DEF Run, GiveBack
<1>3. \A q \in Requests, d \in Connections : Owns(q, d)' <=> Owns(q, d)
  BY <1>1, <1>2 DEF Owns
<1>4. leaks = {} => IsClean(c)
  BY <1>2 DEF CleanInv, CleanOK, SharedIsClean, Owns
<1>5. IsClean(c) => UNCHANGED <<tx, unsaved>> \/ Leave(c, "none", {})
  BY DEF Run, Succeed, Fail, Spoiled, IsClean
<1>6. \A d \in Connections : IsClean(d) => IsClean(d)'
  <2>1. \A d \in Connections \ {c} : tx'[d] = tx[d] /\ unsaved'[d] = unsaved[d]
    <3>1. UNCHANGED <<tx, unsaved>> \/ \E status, rows : Leave(c, status, rows)
      BY DEF Run, Succeed, Fail
    <3>2. QED
      BY <1>1, <3>1 DEF Leave
  <2>2. IsClean(c) => IsClean(c)'
    BY <1>1, <1>5 DEF Leave, IsClean
  <2>3. QED
    BY <2>1, <2>2 DEF IsClean
<1>7. ProgramsEnd' /\ \A q \in Requests : Stays(q)
  <2>1. CASE UNCHANGED ops
    BY <1>1, <2>1 DEF CleanInv, CleanOK, ProgramsEnd, Stays, Releases, AtRelease, EndsBeforeRelease
  <2>2. ASSUME NEW isHttp \in BOOLEAN, Throw(t.of, isHttp)
        PROVE  ProgramsEnd' /\ \A q \in Requests : Stays(q)
    <3>1. PICK r \in Requests : r = t.of
      BY <1>1
    <3>2. Throw(r, isHttp)
      BY <2>2, <3>1
    <3>3. QED
      BY <1>1, <3>2, ThrowEnds DEF CleanInv, CleanOK
  <2>3. UNCHANGED ops \/ \E isHttp \in BOOLEAN : Throw(t.of, isHttp)
    <3>1. CASE Succeed(c)
      BY <3>1 DEF Succeed, Resume
    <3>2. CASE Fail(c)
      BY <1>1, <3>2 DEF Fail, Reject, CaughtInFilter
    <3>3. QED
      BY <3>1, <3>2 DEF Run
  <2>4. QED
    BY <2>1, <2>2, <2>3
<1>8. ASSUME leaks = {} PROVE WrittenIsStored'
  <2>1. CASE Fail(c)
    BY <1>1, <1>8, <2>1 DEF Fail, CleanInv, CleanOK, WrittenIsStored
  <2>2. CASE Succeed(c)
    <3>1. written' = written \cup {row \in {<<t.of, t.nr>>} : IsAwaited(t) /\ t.op \in Writes}
      BY <2>2 DEF Succeed, Resume
    <3>2. tx[c] = "none"
      BY <1>4, <1>8 DEF IsClean
    <3>3. \/ t.op \in {"check", "find"} /\ stored' = stored
          \/ stored' = stored \cup unsaved[c] \cup {row \in {<<t.of, t.nr>>} : t.op \in Writes}
      BY <2>2, <3>2 DEF Succeed
    <3>4. t.op \in {"check", "find"} => t.op \notin Writes
      BY DEF Writes
    <3>5. written \subseteq stored
      BY <1>8 DEF CleanInv, CleanOK, WrittenIsStored
    <3> HIDE DEF t
    <3>6. QED
      BY <3>1, <3>3, <3>4, <3>5 DEF WrittenIsStored
  <2>3. QED
    BY <2>1, <2>2 DEF Run
<1>9. \A q \in Requests : Waits(q)' => Waits(q)
  BY <1>1 DEF Waits, WaitsAt
<1>10. QED
  BY <1>1, <1>3, <1>6, <1>7, <1>8, <1>9, CleanKept DEF CleanInv

(***************************************************************************)
(* A connection is assigned: whoever gets one is not at a release.         *)
(***************************************************************************)
LEMMA CleanAssign ==
  ASSUME CleanInv, Assign
  PROVE  CleanOK'
<1>1. /\ holder \in [Connections -> Task \cup {NoTask}]
      /\ queue \in Seq(Task) /\ queue # <<>> /\ queue' = Tail(queue)
      /\ UNCHANGED <<kind, ops, tx, unsaved, stored, written, leaks>>
  BY DEF CleanInv, HoldInv, TypeOK, Assign
<1>2. PICK c \in Connections : holder' = [holder EXCEPT ![c] = Head(queue)] /\ holder[c] = NoTask
  <2>1. PICK c \in Connections :
          /\ holder' = [holder EXCEPT ![c] = Head(queue)]
          /\ \/ idle # <<>> /\ c = Last(idle)
             \/ c \in Unopened
    BY DEF Assign
  <2>2. ASSUME idle # <<>>, c = Last(idle) PROVE holder[c] = NoTask
    <3>1. idle \in Seq(Connections) /\ \A i \in DOMAIN idle : holder[idle[i]] = NoTask
      BY DEF CleanInv, HoldInv, TypeOK
    <3>2. Len(idle) \in DOMAIN idle
      BY <2>2, <3>1
    <3>3. QED
      BY <2>2, <3>1, <3>2 DEF Last
  <2>3. QED
    BY <2>1, <2>2 DEF Unopened
<1>3. \A d \in Connections : IsClean(d)' <=> IsClean(d)
  BY <1>1 DEF IsClean
<1>4. leaks = {} => IsClean(c)
  BY <1>2 DEF CleanInv, CleanOK, SharedIsClean, Owns
<1>5. \A q \in Requests : \A d \in Connections \ {c} : Owns(q, d)' <=> Owns(q, d)
  BY <1>1, <1>2 DEF Owns
<1>6. \A q \in Requests : Owns(q, c)' => Waits(q)
  <2>1. Head(queue) = queue[1] /\ 1 \in DOMAIN queue
    BY <1>1
  <2>2. QED
    BY <1>1, <1>2, <2>1 DEF Owns, Waits, WaitsAt
<1>7. \A q \in Requests : Releases(q)' <=> Releases(q)
  BY <1>1 DEF Releases, AtRelease
<1>8. SharedIsClean'
  BY <1>1, <1>3, <1>4, <1>5 DEF CleanInv, CleanOK, SharedIsClean
<1>9. ReleasedIsClean'
  BY <1>3, <1>5, <1>6, <1>7 DEF CleanInv, CleanOK, ReleasedIsClean, ReleasersHold
<1>10. ReleasersHold'
  <2>1. \A q \in Requests : Waits(q)' => Waits(q)
    BY <1>1, Advances
  <2>2. QED
    BY <1>7, <2>1 DEF CleanInv, CleanOK, ReleasersHold
<1>11. ProgramsEnd' /\ LeaksAreEarly' /\ WrittenIsStored'
  BY <1>1 DEF CleanInv, CleanOK, ProgramsEnd, EndsBeforeRelease, LeaksAreEarly, WrittenIsStored
<1>12. QED
  BY <1>8, <1>9, <1>10, <1>11 DEF CleanOK

(***************************************************************************)
(* The invariant holds at first, and every step of Next preserves it.      *)
(***************************************************************************)
LEMMA CleanInit == Init => CleanInv
<1> SUFFICES ASSUME Init PROVE CleanInv
  OBVIOUS
<1>1. HoldInv
  BY HoldInit
<1>2. ASSUME NEW r \in Requests
      PROVE  /\ kind[r] \notin EarlyReturns => EndsBeforeRelease(ops[r])
             /\ ~AtRelease(r)
  <2>1. kind[r] \in Kinds /\ ops[r] = Program[kind[r]]
    BY PoolAssumption DEF Init
  <2>2. QED
    BY <2>1, Programs DEF AtRelease
<1>3. (\A c \in Connections : IsClean(c)) /\ leaks = {} /\ written = {}
  BY DEF Init, IsClean
<1>4. QED
  BY <1>1, <1>2, <1>3 DEF CleanInv, CleanOK, ProgramsEnd, LeaksAreEarly, SharedIsClean,
       ReleasedIsClean, ReleasersHold, WrittenIsStored, Releases

LEMMA CleanStep == CleanInv /\ [Next]_vars => CleanInv'
<1> SUFFICES ASSUME CleanInv, [Next]_vars PROVE CleanOK'
  BY HoldStep DEF CleanInv
<1>1. ops \in [Requests -> Seq(Ops)] /\ queue \in Seq(Task)
  BY DEF CleanInv, HoldInv, TypeOK
<1>2. ASSUME UNCHANGED <<kind, connections, stored, written, leaks>>,
             ProgramsEnd', \A q \in Requests : Stays(q),
             \A q \in Requests : Waits(q)' => Waits(q) \/ ~AtRelease(q)
      PROVE  CleanOK'
  <2>1. \A q \in Requests, c \in Connections : Owns(q, c)' <=> Owns(q, c)
    BY <1>2 DEF connections, Owns
  <2>2. \A c \in Connections : IsClean(c) => IsClean(c)'
    BY <1>2 DEF connections, IsClean
  <2>3. WrittenIsStored'
    BY <1>2 DEF CleanInv, CleanOK, WrittenIsStored
  <2>4. QED
    BY <1>2, <2>1, <2>2, <2>3, CleanKept DEF CleanInv
<1>3. ASSUME NEW r \in Requests, Handle(r)
      PROVE  CleanOK'
  <2>1. CASE Call(r) \/ Fork(r) \/ Background(r) \/ Answer(r)
    <3>1. /\ UNCHANGED <<kind, connections, stored, written, leaks>>
          /\ Advance(r) /\ ops[r] # <<>>
          /\ \E op \in Single \cup {"saves", "statements", "background", "answer", "fail"} : At(r, op)
      BY <2>1 DEF Call, Fork, Background, Answer, Submit, At
    <3>2. ops[r][1] \notin {"commit", "rollback", "release"}
      BY <1>1, <3>1 DEF At, Single
    <3>3. ProgramsEnd' /\ \A q \in Requests : Stays(q)
      BY <1>1, <3>1, <3>2, OpsEnd DEF CleanInv, CleanOK, Ending
    <3>4. ASSUME NEW q \in Requests, Waits(q)' PROVE Waits(q) \/ ~AtRelease(q)
      <4>1. CASE q = r
        BY <3>2, <4>1 DEF AtRelease
      <4>2. CASE q # r
        <5>1. CASE Answer(r)
          BY <3>4, <5>1 DEF Answer, Waits, WaitsAt
        <5>2. ASSUME NEW op \in Single, NEW n \in Nat, NEW awaited \in BOOLEAN,
                     Submit(r, op, n, awaited)
              PROVE  Waits(q)
          <6>1. /\ TypeOK' /\ Len(queue') = Len(queue) + n
                /\ \A i \in 1 .. Len(queue) : queue'[i] = queue[i]
                /\ Join(r, op, n)
            BY <3>1, <5>2, Submitted DEF CleanInv, HoldInv
          <6>2. queue' \in Seq(Task)
            BY <6>1 DEF TypeOK
          <6>3. PICK i \in DOMAIN queue' : queue'[i].op = "connect" /\ queue'[i].of = q
            BY <3>4 DEF Waits, WaitsAt
          <6>4. i \in 1 .. Len(queue)
            BY <1>1, <4>2, <6>1, <6>2, <6>3 DEF Join
          <6>5. QED
            BY <1>1, <6>1, <6>3, <6>4 DEF Waits, WaitsAt
        <5>3. \/ Answer(r)
              \/ \E op \in Single, n \in Nat, awaited \in BOOLEAN : Submit(r, op, n, awaited)
          <6>1. /\ "save" \in Single /\ "statement" \in Single /\ "saveLoaded" \in Single
                /\ Parallel \in Nat
            BY PoolAssumption DEF Single
          <6>2. QED
            BY <2>1, <6>1 DEF Call, Fork, Background
        <5>4. QED
          BY <5>1, <5>2, <5>3
      <4>3. QED
        BY <4>1, <4>2
    <3>5. QED
      BY <1>2, <3>1, <3>3, <3>4
  <2>2. CASE OnOwnConnection(r)
    BY <2>2, CleanOwnStep
  <2>3. QED
    BY <1>3, <2>1, <2>2 DEF Handle
<1>4. ASSUME NEW c \in Connections, Run(c)
      PROVE  CleanOK'
  BY <1>4, CleanRun
<1>5. CASE Assign
  BY <1>5, CleanAssign
<1>6. CASE OpenFails
  <2>1. /\ UNCHANGED <<kind, connections, stored, written, leaks>>
        /\ queue # <<>> /\ queue' = Tail(queue)
        /\ Reject(Head(queue)) /\ Head(queue).of \in Requests
    BY <1>6, Dequeued DEF OpenFails, CleanInv, HoldInv, TypeOK, Task
  <2>2. PICK r \in Requests : r = Head(queue).of
    BY <2>1
  <2>3. UNCHANGED ops \/ Throw(r, FALSE)
    BY <1>1, <2>1, <2>2 DEF Reject, CaughtInFilter
  <2>4. ProgramsEnd' /\ \A q \in Requests : Stays(q)
    <3>1. CASE UNCHANGED ops
      BY <2>1, <3>1
         DEF CleanInv, CleanOK, ProgramsEnd, Stays, Releases, AtRelease, EndsBeforeRelease
    <3>2. CASE Throw(r, FALSE)
      BY <1>1, <2>1, <3>2, ThrowEnds DEF CleanInv, CleanOK
    <3>3. QED
      BY <2>3, <3>1, <3>2
  <2>5. \A q \in Requests : Waits(q)' => Waits(q)
    BY <1>1, <2>1, Advances
  <2>6. QED
    BY <1>2, <2>1, <2>4, <2>5
<1>7. CASE IdleTimeout
  <2>1. UNCHANGED <<kind, ops, queue, holder, stored, written, leaks>>
    BY <1>7 DEF IdleTimeout, requests
  <2>2. PICK c \in Connections : Leave(c, "none", {})
    <3>1. PICK i \in DOMAIN idle : Leave(idle[i], "none", {})
      BY <1>7 DEF IdleTimeout
    <3>2. idle[i] \in Connections
      BY DEF CleanInv, HoldInv, TypeOK
    <3>3. QED
      BY <3>1, <3>2
  <2>3. \A d \in Connections : IsClean(d) => IsClean(d)'
    BY <2>2 DEF Leave, IsClean, CleanInv, HoldInv, TypeOK
  <2>4. ProgramsEnd' /\ (\A q \in Requests : Stays(q)) /\ WrittenIsStored'
    BY <2>1 DEF CleanInv, CleanOK, ProgramsEnd, Stays, Releases, AtRelease, EndsBeforeRelease,
                WrittenIsStored
  <2>5. \A q \in Requests, d \in Connections : Owns(q, d)' <=> Owns(q, d)
    BY <2>1 DEF Owns
  <2>6. \A q \in Requests : Waits(q)' => Waits(q)
    BY <2>1 DEF Waits, WaitsAt
  <2>7. QED
    BY <2>1, <2>3, <2>4, <2>5, <2>6, CleanKept DEF CleanInv
<1>8. CASE UNCHANGED vars
  <2>1. UNCHANGED <<kind, ops, queue, connections, stored, written, leaks>>
    BY <1>8 DEF vars, requests
  <2>2. ProgramsEnd' /\ \A q \in Requests : Stays(q)
    BY <2>1 DEF CleanInv, CleanOK, ProgramsEnd, Stays, Releases, AtRelease, EndsBeforeRelease
  <2>3. \A q \in Requests : Waits(q)' => Waits(q)
    BY <2>1 DEF Waits, WaitsAt
  <2>4. QED
    BY <1>2, <2>1, <2>2, <2>3
<1>9. QED
  BY <1>3, <1>4, <1>5, <1>6, <1>7, <1>8 DEF Next

(***************************************************************************)
(* Whatever fails, is refused or runs in parallel, and whatever the        *)
(* requests are: only the early returns of loginWithSocialNetwork give a   *)
(* connection back within a transaction.  Until one has done so, what a    *)
(* client was told is done is committed, whichever connection a query ran  *)
(* on.                                                                     *)
(***************************************************************************)
THEOREM AnswersAreStored == Spec => []OnlyEarlyReturnsLoseRows
<1>1. CleanInv => OnlyEarlyReturnsLoseRows
  BY DEF CleanInv, CleanOK, LeaksAreEarly, WrittenIsStored, OnlyEarlyReturnsLoseRows,
         AnsweredIsStored
<1>2. QED
  BY <1>1, CleanInit, CleanStep, PTL DEF Spec

----------------------------------------------------------------------------
(***************************************************************************)
(* Progress.  A handler waits only for calls that are in line or running,  *)
(* it has the connection that its next call needs, and until it has        *)
(* answered it still has an answer ahead of it.                            *)
(***************************************************************************)
UsesOwn(s) == \E i \in DOMAIN s : s[i] \in OwnCalls
Replies(s) == \E i \in DOMAIN s : s[i] \in {"answer", "fail"}

\* The calls on an own connection come between the connect and the release.
InOrder(s) ==
    /\ \A i, j \in DOMAIN s : s[i] = "connect" /\ s[j] \in OwnCalls => i < j
    /\ \A i, j \in DOMAIN s : s[i] = "release" /\ s[j] \in OwnCalls => j <= i

LEMMA ProgramsAreInOrder ==
  ASSUME NEW k \in Kinds
  PROVE  /\ InOrder(Program[k]) /\ Replies(Program[k])
         /\ UsesOwn(Program[k]) => HasConnect(Program[k])
<1> USE DEF InOrder, Replies, UsesOwn, HasConnect, OwnCalls
<1>1. k \in {"signUp", "firstSocial", "linkSocial", "social", "signIn", "createNewPassword",
             "verifyEmail", "createCountry", "wrapped", "createRoom", "reserve"}
  BY DEF Kinds, Program
<1>2. CASE k = "signUp"
  BY <1>2 DEF Program, SignUpProgram
<1>3. CASE k = "firstSocial"
  BY <1>3 DEF Program, FirstSocialProgram
<1>4. CASE k = "linkSocial"
  BY <1>4 DEF Program, LinkSocialProgram
<1>5. CASE k = "social"
  BY <1>5 DEF Program, SocialProgram
<1>6. CASE k = "signIn"
  BY <1>6 DEF Program, SignInProgram
<1>7. CASE k = "createNewPassword"
  BY <1>7 DEF Program, ResetProgram
<1>8. CASE k = "verifyEmail"
  BY <1>8 DEF Program, VerifyProgram
<1>9. CASE k = "createCountry"
  BY <1>9 DEF Program, CountryProgram
<1>10. CASE k = "createRoom"
  BY <1>10 DEF Program, RoomProgram
<1>11. CASE k = "reserve"
  BY <1>11 DEF Program, ReserveProgram
<1>12. CASE k = "wrapped"
  BY <1>12 DEF Program, WrappedProgram
<1>13. QED
  BY <1>1, <1>2, <1>3, <1>4, <1>5, <1>6, <1>7, <1>8, <1>9, <1>10, <1>11, <1>12

\* After an exception a request that has not answered will, and what it undoes is its own.
LEMMA ExceptionsAreInOrder ==
  ASSUME NEW r, NEW isHttp \in BOOLEAN
  PROVE  LET s == Undo(r) \o Report(r, isHttp)
         IN  /\ InOrder(s) /\ ~HasConnect(s)
             /\ answer[r] = "none" => Replies(s)
             /\ UsesOwn(s) => Keeps(r)
<1> USE DEF InOrder, Replies, UsesOwn, HasConnect, OwnCalls
<1>1. Undo(r) \in {<<"rollback", "release">>, <<>>}
  BY DEF Undo
<1>2. /\ Report(r, isHttp) \in {<<"log", "fail">>, <<"fail">>, <<>>}
      /\ answer[r] = "none" => Report(r, isHttp) # <<>>
  BY DEF Report, LoggedFailure
<1>3. Undo(r) # <<>> => Keeps(r)
  BY DEF Undo, Keeps
<1> DEFINE s == Undo(r) \o Report(r, isHttp)
<1>4. CASE Undo(r) = <<>>
  <2>1. s = Report(r, isHttp)
    BY <1>2, <1>4
  <2>2. QED
    BY <2>1, <1>2
<1>5. CASE Undo(r) = <<"rollback", "release">> /\ Report(r, isHttp) = <<"log", "fail">>
  <2>1. <<"rollback", "release">> \in Seq(Ops) /\ <<"log", "fail">> \in Seq(Ops)
    BY DEF Ops, Single
  <2>2. s \in Seq(Ops) /\ Len(s) = 4
    BY <1>5, <2>1, ConcatProperties
  <2>3. s[1] = "rollback" /\ s[2] = "release" /\ s[3] = "log" /\ s[4] = "fail"
    BY <1>5, <2>1
  <2> HIDE DEF s
  <2>4. QED
    BY <1>3, <1>5, <2>2, <2>3 DEF s
<1>6. CASE Undo(r) = <<"rollback", "release">> /\ Report(r, isHttp) = <<"fail">>
  <2>1. <<"rollback", "release">> \in Seq(Ops) /\ <<"fail">> \in Seq(Ops)
    BY DEF Ops, Single
  <2>2. s \in Seq(Ops) /\ Len(s) = 3
    BY <1>6, <2>1, ConcatProperties
  <2>3. s[1] = "rollback" /\ s[2] = "release" /\ s[3] = "fail"
    BY <1>6, <2>1
  <2> HIDE DEF s
  <2>4. QED
    BY <1>3, <1>6, <2>2, <2>3 DEF s
<1>7. CASE Undo(r) = <<"rollback", "release">> /\ Report(r, isHttp) = <<>>
  <2>1. s = <<"rollback", "release">>
    BY <1>7
  <2>2. QED
    BY <2>1, <1>2, <1>3, <1>7
<1>8. QED
  BY <1>1, <1>2, <1>4, <1>5, <1>6, <1>7

LEMMA RestsAreInOrder ==
  ASSUME NEW s \in Seq(Ops), s # <<>>, InOrder(s)
  PROVE  /\ InOrder(Tail(s))
         /\ UsesOwn(Tail(s)) => UsesOwn(s)
         /\ Replies(s) /\ s[1] \notin {"answer", "fail"} => Replies(Tail(s))
         /\ HasConnect(s) /\ s[1] # "connect" => HasConnect(Tail(s))
         /\ s[1] = "release" => ~UsesOwn(Tail(s))
         /\ s[1] \in OwnCalls => ~HasConnect(s)
<1>1. /\ Len(s) \in Nat \ {0} /\ DOMAIN s = 1 .. Len(s)
      /\ DOMAIN Tail(s) = 1 .. Len(s) - 1
      /\ \A i \in 1 .. Len(s) - 1 : Tail(s)[i] = s[i + 1]
  OBVIOUS
<1> DEFINE rest == Tail(s)
<1> HIDE DEF rest
<1>2. \A i \in DOMAIN rest : i + 1 \in DOMAIN s /\ i \in Nat \ {0} /\ rest[i] = s[i + 1]
  BY <1>1 DEF rest
<1>3. \A i \in DOMAIN s : i = 1 \/ (i - 1 \in DOMAIN rest /\ rest[i - 1] = s[i])
  BY <1>1 DEF rest
<1>4. InOrder(rest)
  <2>1. ASSUME NEW i \in DOMAIN rest, NEW j \in DOMAIN rest,
               rest[i] = "connect", rest[j] \in OwnCalls
        PROVE  i < j
    <3>1. i + 1 < j + 1
      BY <1>2, <2>1 DEF InOrder
    <3>2. QED
      BY <1>2, <3>1
  <2>2. ASSUME NEW i \in DOMAIN rest, NEW j \in DOMAIN rest,
               rest[i] = "release", rest[j] \in OwnCalls
        PROVE  j <= i
    <3>1. j + 1 <= i + 1
      BY <1>2, <2>2 DEF InOrder
    <3>2. QED
      BY <1>2, <3>1
  <2>3. QED
    BY <2>1, <2>2 DEF InOrder
<1>5. UsesOwn(rest) => UsesOwn(s)
  BY <1>2 DEF UsesOwn
<1>6. Replies(s) /\ s[1] \notin {"answer", "fail"} => Replies(rest)
  BY <1>3 DEF Replies
<1>7. HasConnect(s) /\ s[1] # "connect" => HasConnect(rest)
  BY <1>3 DEF HasConnect
<1>8. s[1] = "release" => ~UsesOwn(rest)
  <2> SUFFICES ASSUME s[1] = "release", NEW j \in DOMAIN rest, rest[j] \in OwnCalls
               PROVE  FALSE
    BY DEF UsesOwn
  <2>1. j + 1 <= 1 /\ j \in Nat \ {0}
    BY <1>1, <1>2 DEF InOrder
  <2>2. QED
    BY <2>1
<1>9. s[1] \in OwnCalls => ~HasConnect(s)
  <2> SUFFICES ASSUME s[1] \in OwnCalls, NEW i \in DOMAIN s, s[i] = "connect"
               PROVE  FALSE
    BY DEF HasConnect
  <2>1. i < 1 /\ i \in 1 .. Len(s)
    BY <1>1 DEF InOrder
  <2>2. QED
    BY <2>1
<1>10. QED
  BY <1>4, <1>5, <1>6, <1>7, <1>8, <1>9 DEF rest

----------------------------------------------------------------------------
(* The inductive invariant of progress.                                    *)

\* A call has one number, in line and on its connection.
NumbersOnce ==
    /\ \A i, j \in DOMAIN queue :
         queue[i].of = queue[j].of /\ queue[i].nr = queue[j].nr => i = j
    /\ \A i \in DOMAIN queue, c \in Connections :
         holder[c] # NoTask /\ queue[i].of = holder[c].of => queue[i].nr # holder[c].nr
    /\ \A i \in DOMAIN queue : queue[i].nr <= issued[queue[i].of]
    /\ \A c \in Connections : holder[c] # NoTask => holder[c].nr <= issued[holder[c].of]

AwaitsConnect(r) == \E i \in DOMAIN queue : WaitsAt(r, i) /\ queue[i].nr \in awaiting[r]

IsUnderWay(r, nr) == IsInLine(r, nr) \/ IsRunning(r, nr)

AnswerIsAhead(r)   == InOrder(ops[r]) /\ (answer[r] = "none" => Replies(ops[r]))
HasWhatItUses(r)   == UsesOwn(ops[r]) => HasConnect(ops[r]) \/ Keeps(r) \/ AwaitsConnect(r)
AwaitsWhatIsDone(r) == \A nr \in awaiting[r] : IsUnderWay(r, nr)

GoesOn(r) == AnswerIsAhead(r) /\ HasWhatItUses(r) /\ AwaitsWhatIsDone(r)

AliveInv == TypeOK /\ NumbersOnce /\ \A r \in Requests : GoesOn(r)

LEMMA AliveInit == Init => AliveInv
<1> SUFFICES ASSUME Init PROVE AliveInv
  OBVIOUS
<1>1. TypeOK
  BY TypeInit
<1>2. \A r \in Requests : kind[r] \in Kinds /\ ops[r] = Program[kind[r]]
  BY PoolAssumption DEF Init
<1>3. NumbersOnce
  BY DEF Init, NumbersOnce
<1>4. \A r \in Requests : GoesOn(r)
  BY <1>2, ProgramsAreInOrder DEF Init, GoesOn, AnswerIsAhead, HasWhatItUses, AwaitsWhatIsDone
<1>5. QED
  BY <1>1, <1>3, <1>4 DEF AliveInv

(***************************************************************************)
(* A request whose program a step leaves alone.                            *)
(***************************************************************************)
LEMMA Bystander ==
  ASSUME NEW q \in Requests, GoesOn(q),
         ops'[q] = ops[q], answer'[q] = answer[q], awaiting'[q] \subseteq awaiting[q],
         Keeps(q) => Keeps(q)',
         AwaitsConnect(q) => AwaitsConnect(q)' \/ Keeps(q)',
         \A nr \in awaiting'[q] : IsUnderWay(q, nr) => IsUnderWay(q, nr)'
  PROVE  GoesOn(q)'
BY DEF GoesOn, AnswerIsAhead, HasWhatItUses, AwaitsWhatIsDone, InOrder, Replies, UsesOwn,
       HasConnect

(***************************************************************************)
(* A request that hears of an exception.                                   *)
(***************************************************************************)
LEMMA Thrown ==
  ASSUME NEW q \in Requests, GoesOn(q), ops \in [Requests -> Seq(Ops)],
         NEW isHttp \in BOOLEAN, Throw(q, isHttp),
         answer'[q] = answer[q], awaiting'[q] \subseteq awaiting[q],
         Keeps(q) => Keeps(q)',
         \A nr \in awaiting'[q] : IsUnderWay(q, nr) => IsUnderWay(q, nr)'
  PROVE  GoesOn(q)'
<1> DEFINE http == isHttp \/ Undo(q) # <<>>
           s    == Undo(q) \o Report(q, http)
<1>1. ops'[q] = s /\ http \in BOOLEAN
  BY DEF Throw
<1>2. /\ InOrder(s) /\ ~HasConnect(s)
      /\ answer[q] = "none" => Replies(s)
      /\ UsesOwn(s) => Keeps(q)
  <2> HIDE DEF http
  <2> QED
    BY <1>1, ExceptionsAreInOrder
<1> HIDE DEF http, s
<1>3. AnswerIsAhead(q)'
  BY <1>1, <1>2 DEF AnswerIsAhead, InOrder, Replies
<1>4. HasWhatItUses(q)'
  BY <1>1, <1>2 DEF HasWhatItUses, UsesOwn
<1>5. AwaitsWhatIsDone(q)'
  BY DEF GoesOn, AwaitsWhatIsDone
<1>6. QED
  BY <1>3, <1>4, <1>5 DEF GoesOn

(***************************************************************************)
(* The call t is over, well or badly; the other calls are as they were.    *)
(***************************************************************************)
LEMMA TaskEnds ==
  ASSUME AliveInv, NEW t \in Task, UNCHANGED answer,
         \/ t.op # "connect" /\ Settled(t) /\ UNCHANGED ops
         \/ ~IsAwaited(t) /\ UNCHANGED <<awaiting, ops>>
         \/ /\ Settled(t) \/ awaiting' = [awaiting EXCEPT ![t.of] = {}]
            /\ \E isHttp \in BOOLEAN : Throw(t.of, isHttp),
         \A q \in Requests : Keeps(q) => Keeps(q)',
         \A q \in Requests : \A nr :
            IsUnderWay(q, nr) /\ (q = t.of => nr # t.nr) => IsUnderWay(q, nr)',
         \A i \in DOMAIN queue :
            \/ queue[i] = t
            \/ /\ queue[i].of = t.of => queue[i].nr # t.nr
               /\ \E j \in DOMAIN queue' : queue'[j] = queue[i]
  PROVE  \A q \in Requests : GoesOn(q)'
<1>1. /\ ops \in [Requests -> Seq(Ops)] /\ awaiting \in [Requests -> SUBSET Nat]
      /\ t.of \in Requests /\ \A q \in Requests : GoesOn(q)
  BY DEF AliveInv, TypeOK, Task
<1>2. ASSUME NEW q \in Requests, q # t.of
      PROVE  GoesOn(q)'
  <2>1. ops'[q] = ops[q] /\ awaiting'[q] = awaiting[q]
    BY <1>1, <1>2 DEF Settled, Throw
  <2>2. AwaitsConnect(q) => AwaitsConnect(q)'
    BY <1>2, <2>1 DEF AwaitsConnect, WaitsAt
  <2>3. QED
    BY <1>1, <1>2, <2>1, <2>2, Bystander
<1>3. ASSUME NEW q \in Requests, q = t.of
      PROVE  GoesOn(q)'
  <2>1. awaiting'[q] \subseteq awaiting[q] /\ t.nr \notin awaiting'[q]
    BY <1>1, <1>3 DEF Settled, IsAwaited
  <2>2. \A nr \in awaiting'[q] : IsUnderWay(q, nr) => IsUnderWay(q, nr)'
    BY <1>1, <1>3, <2>1
  <2>3. GoesOn(q) /\ (Keeps(q) => Keeps(q)') /\ answer'[q] = answer[q]
    BY <1>1
  <2>4. CASE \E isHttp \in BOOLEAN : Throw(q, isHttp)
    BY <1>1, <2>1, <2>2, <2>3, <2>4, Thrown
  <2>5. CASE /\ UNCHANGED ops
             /\ \/ t.op # "connect" /\ Settled(t)
                \/ ~IsAwaited(t) /\ UNCHANGED awaiting
    <3>1. AwaitsConnect(q) => AwaitsConnect(q)'
      <4> SUFFICES ASSUME NEW i \in DOMAIN queue, WaitsAt(q, i), queue[i].nr \in awaiting[q]
                   PROVE  AwaitsConnect(q)'
        BY DEF AwaitsConnect
      <4>1. CASE queue[i] = t
        BY <1>1, <1>3, <2>5, <4>1 DEF WaitsAt, IsAwaited
      <4>2. CASE queue[i] # t
        <5>1. PICK j \in DOMAIN queue' : queue'[j] = queue[i]
          BY <4>2
        <5>2. queue[i].nr \in awaiting'[q]
          BY <1>1, <1>3, <2>5, <4>2 DEF Settled, WaitsAt
        <5>3. QED
          BY <5>1, <5>2 DEF AwaitsConnect, WaitsAt
      <4>3. QED
        BY <4>1, <4>2
    <3>2. ops'[q] = ops[q]
      BY <2>5
    <3>3. QED
      BY <1>1, <2>1, <2>2, <2>3, <3>1, <3>2, Bystander
  <2>6. QED
    BY <1>3, <2>4, <2>5
<1>4. QED
  BY <1>2, <1>3

(***************************************************************************)
(* A handler makes its next call.                                          *)
(***************************************************************************)
LEMMA AliveSubmit ==
  ASSUME AliveInv, NEW r \in Requests, NEW op \in Single, NEW n \in Nat, n # 0,
         NEW awaited \in BOOLEAN, Submit(r, op, n, awaited),
         awaiting[r] = {}, ops[r] # <<>>, ops[r][1] \notin OwnCalls \cup {"answer", "fail"},
         ops[r][1] = "connect" => op = "connect" /\ awaited = TRUE
  PROVE  AliveInv'
<1>1. /\ TypeOK /\ NumbersOnce /\ issued \in [Requests -> Nat] /\ issued[r] \in Nat
      /\ queue \in Seq(Task) /\ ops \in [Requests -> Seq(Ops)]
  BY DEF AliveInv, TypeOK
<1>2. /\ issued'[r] = issued[r] + n
      /\ \A q \in Requests :
           issued[q] \in Nat /\ issued'[q] \in Nat /\ issued[q] <= issued'[q]
  BY <1>1 DEF Submit
<1> DEFINE m == Len(queue)
<1>3. /\ TypeOK' /\ m \in Nat
      /\ DOMAIN queue = 1 .. m /\ DOMAIN queue' = 1 .. m + n
      /\ \A i \in 1 .. m : queue'[i] = queue[i] /\ queue[i] \in Task
      /\ \A i \in m + 1 .. m + n :
           queue'[i].of = r /\ queue'[i].op = op /\ queue'[i].nr = issued[r] + (i - m)
  <2>1. n \in Nat
    OBVIOUS
  <2>2. /\ TypeOK'
        /\ Len(queue') = Len(queue) + n
        /\ \A i \in 1 .. Len(queue) : queue'[i] = queue[i]
        /\ Join(r, op, n)
    <3> HIDE DEF m
    <3> QED
      BY <1>1, <2>1, Submitted
  <2>3. queue' \in Seq(Task)
    BY <2>2 DEF TypeOK
  <2>4. m \in Nat /\ DOMAIN queue = 1 .. m /\ \A i \in 1 .. m : queue[i] \in Task
    BY <1>1
  <2>5. DOMAIN queue' = 1 .. m + n
    BY <2>2, <2>3
  <2>6. QED
    BY <2>2, <2>4, <2>5 DEF Join
<1> HIDE DEF m
<1>4. holder' = holder /\ answer' = answer /\ \A c \in Connections : holder[c] # NoTask =>
        holder[c] \in Task
  BY <1>1 DEF Submit, connections, TypeOK
<1>5. NumbersOnce'
  <2>1. \A i \in 1 .. m : queue[i].of = r => queue[i].nr <= issued[r]
    BY <1>1, <1>3 DEF NumbersOnce
  <2>2. \A c \in Connections : holder[c] # NoTask /\ holder[c].of = r => holder[c].nr <= issued[r]
    BY <1>1 DEF NumbersOnce
  <2>3. \A i \in 1 .. m : queue[i].nr \in Nat /\ queue[i].of \in Requests
    BY <1>3 DEF Task
  <2>4. \A c \in Connections : holder[c] # NoTask => holder[c].nr \in Nat /\ holder[c].of \in Requests
    BY <1>4 DEF Task
  <2>5. \A i \in m + 1 .. m + n :
          /\ queue'[i].of = r /\ queue'[i].nr = issued[r] + (i - m)
          /\ i - m \in 1 .. n /\ queue'[i].nr > issued[r]
    BY <1>1, <1>3
  <2>6. ASSUME NEW i \in DOMAIN queue', NEW j \in DOMAIN queue',
               queue'[i].of = queue'[j].of, queue'[i].nr = queue'[j].nr
        PROVE  i = j
    <3>1. CASE i \in 1 .. m /\ j \in 1 .. m
      BY <1>1, <1>3, <2>6, <3>1 DEF NumbersOnce
    <3>2. CASE i \in 1 .. m /\ j \in m + 1 .. m + n
      BY <1>1, <1>3, <2>1, <2>3, <2>5, <2>6, <3>2
    <3>3. CASE i \in m + 1 .. m + n /\ j \in 1 .. m
      <4>1. queue[j].of = r /\ queue'[i].nr = queue[j].nr /\ queue'[i].nr > issued[r]
        BY <1>3, <2>5, <2>6, <3>3
      <4>2. queue[j].nr <= issued[r] /\ queue[j].nr \in Nat
        BY <2>1, <2>3, <3>3, <4>1
      <4>3. QED
        BY <1>1, <4>1, <4>2
    <3>4. CASE i \in m + 1 .. m + n /\ j \in m + 1 .. m + n
      BY <1>1, <1>3, <2>5, <2>6, <3>4
    <3>5. QED
      BY <1>3, <3>1, <3>2, <3>3, <3>4
  <2>7. ASSUME NEW i \in DOMAIN queue', NEW c \in Connections,
               holder'[c] # NoTask, queue'[i].of = holder'[c].of
        PROVE  queue'[i].nr # holder'[c].nr
    <3>1. CASE i \in 1 .. m
      BY <1>1, <1>3, <1>4, <2>7, <3>1 DEF NumbersOnce
    <3>2. CASE i \in m + 1 .. m + n
      BY <1>1, <1>4, <2>2, <2>4, <2>5, <2>7, <3>2
    <3>3. QED
      BY <1>3, <3>1, <3>2
  <2>8. \A i \in DOMAIN queue' : queue'[i].nr <= issued'[queue'[i].of]
    <3>1. \A i \in 1 .. m : queue[i].nr <= issued[queue[i].of]
      BY <1>1, <1>3 DEF NumbersOnce
    <3>2. \A i \in 1 .. m : queue'[i].nr <= issued'[queue'[i].of]
      <4> TAKE i \in 1 .. m
      <4>1. queue'[i] = queue[i] /\ queue[i].nr <= issued[queue[i].of]
        BY <1>3, <3>1
      <4>2. issued[queue[i].of] <= issued'[queue[i].of]
        BY <1>2, <2>3
      <4>3. QED
        BY <1>2, <2>3, <4>1, <4>2
    <3>3. \A i \in m + 1 .. m + n : queue'[i].nr <= issued'[queue'[i].of]
      BY <1>1, <1>2, <2>5
    <3>4. QED
      BY <1>3, <3>2, <3>3
  <2>9. \A c \in Connections : holder'[c] # NoTask => holder'[c].nr <= issued'[holder'[c].of]
    BY <1>1, <1>2, <1>4, <2>4 DEF NumbersOnce
  <2>10. QED
    BY <2>6, <2>7, <2>8, <2>9 DEF NumbersOnce
<1>6. \A q \in Requests : (Keeps(q) => Keeps(q)')
  BY <1>4 DEF Keeps, Owns
<1>7. \A q, nr : IsUnderWay(q, nr) => IsUnderWay(q, nr)'
  BY <1>3, <1>4 DEF IsUnderWay, IsInLine, IsRunning
<1>8. ASSUME NEW q \in Requests, q # r
      PROVE  GoesOn(q)'
  <2>1. ops'[q] = ops[q] /\ awaiting'[q] = awaiting[q]
    BY <1>8, <1>1 DEF Submit, Advance, TypeOK
  <2>2. AwaitsConnect(q) => AwaitsConnect(q)'
    BY <1>3, <2>1 DEF AwaitsConnect, WaitsAt
  <2>3. QED
    BY <1>4, <1>6, <1>7, <2>1, <2>2, Bystander DEF AliveInv
<1>9. GoesOn(r)'
  <2>1. GoesOn(r) /\ ops[r] \in Seq(Ops) /\ ops'[r] = Tail(ops[r])
    BY <1>1 DEF AliveInv, TypeOK, Submit, Advance
  <2>2. awaiting'[r] = IF awaited THEN issued[r] + 1 .. issued[r] + n ELSE {}
    BY <1>1 DEF Submit, TypeOK
  <2>3. AwaitsWhatIsDone(r)'
    <3> SUFFICES ASSUME awaited, NEW nr \in issued[r] + 1 .. issued[r] + n
                 PROVE  IsInLine(r, nr)'
      BY <2>2 DEF AwaitsWhatIsDone, IsUnderWay
    <3>1. m + (nr - issued[r]) \in m + 1 .. m + n
      BY <1>1, <1>3
    <3>2. queue'[m + (nr - issued[r])].nr = nr /\ queue'[m + (nr - issued[r])].of = r
      BY <1>1, <1>3, <3>1
    <3>3. QED
      BY <1>3, <3>1, <3>2 DEF IsInLine
  <2>4. AnswerIsAhead(r)'
    BY <1>4, <2>1, RestsAreInOrder DEF GoesOn, AnswerIsAhead, InOrder, Replies
  <2>5. UsesOwn(ops'[r]) => HasConnect(ops'[r]) \/ Keeps(r)' \/ AwaitsConnect(r)'
    <3>1. CASE ops[r][1] = "connect"
      <4>1. m + 1 \in DOMAIN queue' /\ queue'[m + 1].op = "connect" /\ queue'[m + 1].of = r
        BY <1>3, <3>1
      <4>2. queue'[m + 1].nr \in awaiting'[r]
        <5>1. m + 1 \in m + 1 .. m + n /\ (m + 1) - m = 1 /\ awaited
          BY <1>3, <3>1
        <5>2. queue'[m + 1].nr = issued[r] + 1
          BY <1>3, <5>1
        <5>3. issued[r] + 1 \in issued[r] + 1 .. issued[r] + n
          BY <1>1
        <5>4. QED
          BY <2>2, <5>1, <5>2, <5>3
      <4>3. QED
        BY <4>1, <4>2 DEF AwaitsConnect, WaitsAt
    <3>2. CASE ops[r][1] # "connect"
      <4>1. ~AwaitsConnect(r)
        BY DEF AwaitsConnect
      <4>2. QED
        BY <1>6, <2>1, <3>2, <4>1, RestsAreInOrder DEF GoesOn, AnswerIsAhead, HasWhatItUses
    <3>3. QED
      BY <3>1, <3>2
  <2>6. QED
    BY <2>3, <2>4, <2>5 DEF GoesOn, HasWhatItUses, UsesOwn, HasConnect
<1>10. QED
  BY <1>3, <1>5, <1>8, <1>9 DEF AliveInv

(***************************************************************************)
(* Calls keep their numbers apart when none is added.                      *)
(***************************************************************************)
LEMMA NumbersKept ==
  ASSUME TypeOK, NumbersOnce, issued' = issued,
         \/ /\ queue' = queue
            /\ \A c \in Connections : holder'[c] \in {holder[c], NoTask}
         \/ /\ queue # <<>> /\ queue' = Tail(queue)
            /\ \A c \in Connections : holder'[c] \in {holder[c], Head(queue)}
  PROVE  NumbersOnce'
<1>1. CASE /\ queue' = queue
           /\ \A c \in Connections : holder'[c] \in {holder[c], NoTask}
  BY <1>1 DEF NumbersOnce
<1>2. CASE /\ queue # <<>> /\ queue' = Tail(queue)
           /\ \A c \in Connections : holder'[c] \in {holder[c], Head(queue)}
  <2>1. /\ Head(queue) = queue[1]
        /\ queue' \in Seq(Task)
        /\ Len(queue) \in Nat \ {0}
        /\ Len(queue') = Len(queue) - 1
        /\ \A i \in 1 .. Len(queue) - 1 : queue'[i] = queue[i + 1]
    BY <1>2, Dequeued DEF TypeOK
  <2>2. /\ \A i \in DOMAIN queue' : i \in Nat \ {0} /\ i + 1 \in DOMAIN queue
                                    /\ queue'[i] = queue[i + 1]
        /\ 1 \in DOMAIN queue
    BY <2>1 DEF TypeOK
  <2>3. \A i, j \in DOMAIN queue' :
          queue'[i].of = queue'[j].of /\ queue'[i].nr = queue'[j].nr => i = j
    <3> SUFFICES ASSUME NEW i \in DOMAIN queue', NEW j \in DOMAIN queue',
                        queue'[i].of = queue'[j].of, queue'[i].nr = queue'[j].nr
                 PROVE  i = j
      OBVIOUS
    <3>1. i + 1 = j + 1
      BY <2>2 DEF NumbersOnce
    <3>2. QED
      BY <2>2, <3>1
  <2>4. ASSUME NEW i \in DOMAIN queue', NEW c \in Connections,
               holder'[c] # NoTask, queue'[i].of = holder'[c].of
        PROVE  queue'[i].nr # holder'[c].nr
    <3>1. CASE holder'[c] = holder[c]
      <4>1. i + 1 \in DOMAIN queue /\ queue[i + 1].of = holder[c].of /\ holder[c] # NoTask
        BY <2>2, <2>4, <3>1
      <4>2. queue[i + 1].nr # holder[c].nr
        BY <4>1 DEF NumbersOnce
      <4>3. QED
        BY <2>2, <3>1, <4>2
    <3>2. CASE holder'[c] = queue[1]
      <4>1. i + 1 # 1
        BY <2>2
      <4>2. QED
        BY <2>2, <2>4, <3>2, <4>1 DEF NumbersOnce
    <3>3. QED
      BY <1>2, <2>1, <3>1, <3>2
  <2>5. \A i \in DOMAIN queue' : queue'[i].nr <= issued'[queue'[i].of]
    BY <2>2 DEF NumbersOnce
  <2>6. \A c \in Connections : holder'[c] # NoTask => holder'[c].nr <= issued'[holder'[c].of]
    BY <1>2, <2>1, <2>2 DEF NumbersOnce
  <2>7. QED
    BY <2>3, <2>4, <2>5, <2>6 DEF NumbersOnce
<1>3. QED
  BY <1>1, <1>2

(***************************************************************************)
(* A query ends.                                                           *)
(***************************************************************************)
LEMMA AliveRun ==
  ASSUME AliveInv, NEW c \in Connections, Run(c)
  PROVE  AliveInv'
<1>1. /\ TypeOK /\ TypeOK' /\ NumbersOnce /\ holder[c] \in Task
      /\ holder[c] # NoTask /\ holder[c].op # "connect"
      /\ holder \in [Connections -> Task \cup {NoTask}]
      /\ holder' = [holder EXCEPT ![c] = NoTask]
      /\ UNCHANGED <<issued, answer, queue>>
  <2>1. Next
    BY DEF Next
  <2>2. QED
    BY <2>1, TypeStep DEF AliveInv, TypeOK, Run, GiveBack
<1>2. NumbersOnce'
  BY <1>1, NumbersKept
<1>3. \A q \in Requests : Keeps(q) => Keeps(q)'
  BY <1>1 DEF Keeps, Owns
<1>4. PICK t \in Task : t = holder[c]
  BY <1>1
<1>5. \A q \in Requests : \A nr :
         IsUnderWay(q, nr) /\ (q = t.of => nr # t.nr) => IsUnderWay(q, nr)'
  BY <1>1, <1>4 DEF IsUnderWay, IsInLine, IsRunning
<1>6. \A i \in DOMAIN queue :
         /\ queue[i].of = t.of => queue[i].nr # t.nr
         /\ queue'[i] = queue[i] /\ i \in DOMAIN queue'
  BY <1>1, <1>4 DEF NumbersOnce
<1>7. \/ t.op # "connect" /\ Settled(t) /\ UNCHANGED ops
      \/ ~IsAwaited(t) /\ UNCHANGED <<awaiting, ops>>
      \/ /\ Settled(t) \/ awaiting' = [awaiting EXCEPT ![t.of] = {}]
         /\ \E isHttp \in BOOLEAN : Throw(t.of, isHttp)
  <2>1. Succeed(c) \/ Fail(c)
    BY DEF Run
  <2>2. CASE Succeed(c)
    BY <1>1, <1>4, <2>2 DEF Succeed, Resume
  <2>3. CASE Fail(c)
    <3>1. Reject(t)
      BY <1>4, <2>3 DEF Fail
    <3>2. [ops EXCEPT ![t.of] = CaughtInFilter(t.of)] = ops
      BY <1>1 DEF CaughtInFilter, TypeOK
    <3>3. QED
      BY <1>1, <1>4, <3>1, <3>2 DEF Reject
  <2>4. QED
    BY <2>1, <2>2, <2>3
<1>8. \A q \in Requests : GoesOn(q)'
  BY <1>1, <1>3, <1>5, <1>6, <1>7, TaskEnds
<1>9. QED
  BY <1>1, <1>2, <1>8 DEF AliveInv

(***************************************************************************)
(* The first in line gets a connection, or none can be opened for it.      *)
(***************************************************************************)
LEMMA AliveAssign ==
  ASSUME AliveInv, Assign
  PROVE  AliveInv'
<1>1. TypeOK /\ TypeOK' /\ NumbersOnce
  <2>1. Next
    BY DEF Next
  <2>2. QED
    BY <2>1, TypeStep DEF AliveInv
<1>2. /\ Head(queue) \in Task /\ Head(queue) = queue[1] /\ 1 \in DOMAIN queue
      /\ \A i \in DOMAIN queue :
           i = 1 \/ (i - 1 \in DOMAIN queue' /\ queue'[i - 1] = queue[i])
  BY <1>1, Dequeued DEF TypeOK, Assign
<1>3. PICK t \in Task : t = Head(queue)
  BY <1>2
<1>4. /\ \/ t.op = "connect" /\ Settled(t)
         \/ t.op # "connect" /\ UNCHANGED awaiting
      /\ UNCHANGED <<ops, issued, answer>>
  BY <1>3 DEF Assign
<1>5. PICK c \in Connections : holder' = [holder EXCEPT ![c] = t] /\ holder[c] = NoTask
  <2>1. PICK c \in Connections :
          /\ holder' = [holder EXCEPT ![c] = t]
          /\ \/ idle # <<>> /\ c = Last(idle)
             \/ idle = <<>> /\ c \in Unopened
    BY <1>3 DEF Assign
  <2>2. idle # <<>> => Len(idle) \in DOMAIN idle
    BY <1>1 DEF TypeOK
  <2>3. holder[c] = NoTask
    BY <1>1, <2>1, <2>2 DEF TypeOK, Last, Unopened
  <2>4. QED
    BY <2>1, <2>3
<1>6. holder \in [Connections -> Task \cup {NoTask}] /\ t # NoTask
  BY <1>1, PoolAssumption DEF TypeOK
<1>7. NumbersOnce'
  BY <1>1, <1>2, <1>3, <1>4, <1>5, <1>6, NumbersKept DEF Assign
<1>8. \A q \in Requests : Keeps(q) => Keeps(q)'
  BY <1>5, <1>6 DEF Keeps, Owns
<1>9. \A q \in Requests : \A nr :
        IsUnderWay(q, nr) /\ (q = t.of /\ t.op = "connect" => nr # t.nr) => IsUnderWay(q, nr)'
  <2> SUFFICES ASSUME NEW q \in Requests, NEW nr, IsUnderWay(q, nr),
                      q = t.of /\ t.op = "connect" => nr # t.nr
               PROVE  IsUnderWay(q, nr)'
    OBVIOUS
  <2>1. CASE IsRunning(q, nr)
    BY <1>5, <1>6, <2>1 DEF IsUnderWay, IsRunning
  <2>2. CASE IsInLine(q, nr)
    <3>1. PICK i \in DOMAIN queue : queue[i].of = q /\ queue[i].nr = nr
      BY <2>2 DEF IsInLine
    <3>2. CASE i = 1
      <4>1. holder'[c] = t /\ t.of = q /\ t.nr = nr /\ t.op # "connect"
        BY <1>2, <1>3, <1>5, <1>6, <3>1, <3>2
      <4>2. QED
        BY <1>6, <4>1 DEF IsUnderWay, IsRunning
    <3>3. CASE i # 1
      BY <1>2, <3>1, <3>3 DEF IsUnderWay, IsInLine
    <3>4. QED
      BY <3>2, <3>3
  <2>3. QED
    BY <2>1, <2>2 DEF IsUnderWay
<1>10. ASSUME NEW q \in Requests
       PROVE  GoesOn(q)'
  <2>1. GoesOn(q) /\ awaiting \in [Requests -> SUBSET Nat]
    BY <1>1 DEF AliveInv, TypeOK
  <2>2. /\ awaiting'[q] \subseteq awaiting[q]
        /\ q = t.of /\ t.op = "connect" => t.nr \notin awaiting'[q]
        /\ ~(q = t.of /\ t.op = "connect") => awaiting'[q] = awaiting[q]
    BY <1>4, <2>1 DEF Settled
  <2>3. \A nr \in awaiting'[q] : IsUnderWay(q, nr) => IsUnderWay(q, nr)'
    BY <1>9, <2>2
  <2>4. CASE q = t.of /\ t.op = "connect"
    <3>1. Keeps(q)'
      BY <1>5, <1>6, <2>4 DEF Keeps, Owns
    <3>2. ops'[q] = ops[q] /\ answer'[q] = answer[q]
      BY <1>4
    <3>3. QED
      BY <2>1, <2>2, <2>3, <3>1, <3>2, Bystander
  <2>5. CASE ~(q = t.of /\ t.op = "connect")
    <3>1. AwaitsConnect(q) => AwaitsConnect(q)'
      <4> SUFFICES ASSUME NEW i \in DOMAIN queue, WaitsAt(q, i), queue[i].nr \in awaiting[q]
                   PROVE  AwaitsConnect(q)'
        BY DEF AwaitsConnect
      <4>1. i # 1
        BY <1>2, <1>3, <2>5 DEF WaitsAt
      <4>2. QED
        BY <1>2, <2>2, <2>5, <4>1 DEF AwaitsConnect, WaitsAt
    <3>2. ops'[q] = ops[q] /\ answer'[q] = answer[q]
      BY <1>4
    <3>3. QED
      BY <1>8, <2>1, <2>2, <2>3, <3>1, <3>2, Bystander
  <2>6. QED
    BY <2>4, <2>5
<1>11. QED
  BY <1>1, <1>7, <1>10 DEF AliveInv

LEMMA AliveOpenFails ==
  ASSUME AliveInv, OpenFails
  PROVE  AliveInv'
<1>1. TypeOK /\ TypeOK' /\ NumbersOnce
  <2>1. Next
    BY DEF Next
  <2>2. QED
    BY <2>1, TypeStep DEF AliveInv
<1>2. /\ Head(queue) \in Task /\ Head(queue) = queue[1] /\ 1 \in DOMAIN queue
      /\ \A i \in DOMAIN queue :
           i = 1 \/ (i - 1 \in DOMAIN queue' /\ queue'[i - 1] = queue[i])
  BY <1>1, Dequeued DEF TypeOK, OpenFails
<1>3. PICK t \in Task : t = Head(queue)
  BY <1>2
<1>4. UNCHANGED <<issued, answer, holder>>
  BY DEF OpenFails, connections
<1>5. NumbersOnce'
  BY <1>1, <1>4, NumbersKept DEF OpenFails
<1>6. \A q \in Requests : Keeps(q) => Keeps(q)'
  BY <1>4 DEF Keeps, Owns
<1>7. \A i \in DOMAIN queue :
        \/ queue[i] = t
        \/ /\ queue[i].of = t.of => queue[i].nr # t.nr
           /\ \E j \in DOMAIN queue' : queue'[j] = queue[i]
  BY <1>1, <1>2, <1>3 DEF NumbersOnce
<1>8. \A q \in Requests : \A nr :
        IsUnderWay(q, nr) /\ (q = t.of => nr # t.nr) => IsUnderWay(q, nr)'
  BY <1>4, <1>7 DEF IsUnderWay, IsInLine, IsRunning
<1>9. \/ t.op # "connect" /\ Settled(t) /\ UNCHANGED ops
      \/ ~IsAwaited(t) /\ UNCHANGED <<awaiting, ops>>
      \/ /\ Settled(t) \/ awaiting' = [awaiting EXCEPT ![t.of] = {}]
         /\ \E isHttp \in BOOLEAN : Throw(t.of, isHttp)
  <2>1. Reject(t)
    BY <1>3 DEF OpenFails
  <2>2. [ops EXCEPT ![t.of] = CaughtInFilter(t.of)] = ops
    BY <1>1 DEF CaughtInFilter, TypeOK
  <2>3. QED
    BY <2>1, <2>2 DEF Reject
<1>10. \A q \in Requests : GoesOn(q)'
  BY <1>4, <1>6, <1>7, <1>8, <1>9, TaskEnds
<1>11. QED
  BY <1>1, <1>5, <1>10 DEF AliveInv

(***************************************************************************)
(* The response is sent; other calls may follow it.                        *)
(***************************************************************************)
LEMMA AliveAnswer ==
  ASSUME AliveInv, NEW r \in Requests, Answer(r)
  PROVE  AliveInv' \/ ~TypeOK'
<1> SUFFICES ASSUME TypeOK' PROVE AliveInv'
  OBVIOUS
<1>1. /\ TypeOK /\ NumbersOnce /\ ops \in [Requests -> Seq(Ops)]
      /\ answer \in [Requests -> {"none", "success", "error"}]
      /\ UNCHANGED <<awaiting, issued, queue, holder>>
  BY DEF AliveInv, TypeOK, Answer, connections
<1>2. NumbersOnce'
  BY <1>1 DEF NumbersOnce
<1>3. \A q \in Requests : (Keeps(q) => Keeps(q)') /\ (AwaitsConnect(q) => AwaitsConnect(q)')
  BY <1>1 DEF Keeps, Owns, AwaitsConnect, WaitsAt
<1>4. \A q \in Requests : \A nr : IsUnderWay(q, nr) => IsUnderWay(q, nr)'
  BY <1>1 DEF IsUnderWay, IsInLine, IsRunning
<1>5. /\ ops[r] # <<>> /\ ops[r][1] \in {"answer", "fail"}
      /\ ops'[r] = Tail(ops[r]) /\ answer'[r] # "none"
      /\ \A q \in Requests : q # r => ops'[q] = ops[q] /\ answer'[q] = answer[q]
  BY <1>1 DEF Answer, At, Advance
<1>6. ASSUME NEW q \in Requests, q # r
      PROVE  GoesOn(q)'
  BY <1>1, <1>3, <1>4, <1>5, <1>6, Bystander DEF AliveInv
<1>7. GoesOn(r)'
  <2>1. GoesOn(r) /\ ops[r] \in Seq(Ops) /\ InOrder(ops[r])
    BY <1>1 DEF AliveInv, GoesOn, AnswerIsAhead
  <2>2. /\ InOrder(Tail(ops[r]))
        /\ UsesOwn(Tail(ops[r])) => UsesOwn(ops[r])
        /\ HasConnect(ops[r]) => HasConnect(Tail(ops[r]))
    BY <1>5, <2>1, RestsAreInOrder
  <2>3. AnswerIsAhead(r)'
    BY <1>5, <2>2 DEF AnswerIsAhead, InOrder
  <2>4. HasWhatItUses(r)'
    BY <1>3, <1>5, <2>1, <2>2 DEF GoesOn, HasWhatItUses, UsesOwn, HasConnect
  <2>5. AwaitsWhatIsDone(r)'
    BY <1>1, <1>4, <2>1 DEF GoesOn, AwaitsWhatIsDone
  <2>6. QED
    BY <2>3, <2>4, <2>5 DEF GoesOn
<1>8. QED
  BY <1>2, <1>6, <1>7 DEF AliveInv

(***************************************************************************)
(* A call on the own connection.                                           *)
(***************************************************************************)
LEMMA AliveOwnStep ==
  ASSUME AliveInv, NEW r \in Requests, OnOwnConnection(r)
  PROVE  AliveInv' \/ ~TypeOK'
<1> SUFFICES ASSUME TypeOK' PROVE AliveInv'
  OBVIOUS
<1>1. /\ TypeOK /\ NumbersOnce /\ ops \in [Requests -> Seq(Ops)]
      /\ holder \in [Connections -> Task \cup {NoTask}]
      /\ UNCHANGED <<awaiting, issued, queue, answer>>
  BY DEF AliveInv, TypeOK, OnOwnConnection
<1>2. PICK c \in Connections :
        /\ Owns(r, c)
        /\ Begin(r, c) \/ OwnSave(r, c) \/ Commit(r, c) \/ Rollback(r, c) \/ Release(r, c)
  BY DEF OnOwnConnection
<1>3. /\ awaiting[r] = {} /\ ops[r] # <<>>
      /\ \/ /\ ops[r][1] # "release" /\ holder' = holder
            /\ ops[r][1] \in OwnCalls
            /\ \/ Advance(r)
               \/ Throw(r, TRUE)
               \/ ops' = [ops EXCEPT ![r] = Report(r, FALSE)]
               \/ ops' = [ops EXCEPT ![r] = <<"release">> \o Report(r, FALSE)]
         \/ /\ ops[r][1] = "release" /\ holder' = [holder EXCEPT ![c] = NoTask]
            /\ Advance(r)
  <2> USE DEF At, OwnCalls
  <2>1. CASE Begin(r, c)
    <3>1. holder' = holder /\ (Advance(r) \/ ops' = [ops EXCEPT ![r] = Report(r, FALSE)])
      BY <2>1, Zenon DEF Begin
    <3>2. awaiting[r] = {} /\ ops[r] # <<>> /\ ops[r][1] = "begin"
      BY <2>1 DEF Begin
    <3>3. QED
      BY <3>1, <3>2
  <2>2. CASE OwnSave(r, c)
    <3>1. holder' = holder /\ (Advance(r) \/ Throw(r, TRUE))
      BY <2>2, Zenon DEF OwnSave
    <3>2. awaiting[r] = {} /\ ops[r] # <<>> /\ ops[r][1] = "ownSave"
      BY <2>2 DEF OwnSave
    <3>3. QED
      BY <3>1, <3>2
  <2>3. CASE Commit(r, c)
    <3>1. holder' = holder /\ (Advance(r) \/ Throw(r, TRUE))
      BY <2>3, Zenon DEF Commit
    <3>2. awaiting[r] = {} /\ ops[r] # <<>> /\ ops[r][1] = "commit"
      BY <2>3 DEF Commit
    <3>3. QED
      BY <3>1, <3>2
  <2>4. CASE Rollback(r, c)
    <3>1. /\ holder' = holder
          /\ Advance(r) \/ ops' = [ops EXCEPT ![r] = <<"release">> \o Report(r, FALSE)]
      BY <2>4, Zenon DEF Rollback
    <3>2. awaiting[r] = {} /\ ops[r] # <<>> /\ ops[r][1] = "rollback"
      BY <2>4 DEF Rollback
    <3>3. QED
      BY <3>1, <3>2
  <2>5. CASE Release(r, c)
    BY <2>5 DEF Release, GiveBack
  <2>6. QED
    BY <1>2, <2>1, <2>2, <2>3, <2>4, <2>5
<1>4. NumbersOnce'
  BY <1>1, <1>3, NumbersKept
<1>5. \A q \in Requests : \A nr : IsUnderWay(q, nr) => IsUnderWay(q, nr)'
  <2>1. \A d \in Connections : holder[d] # NoTask /\ holder[d].op # "connect" =>
          holder'[d] = holder[d]
    BY <1>1, <1>2, <1>3 DEF Owns
  <2>2. QED
    BY <1>1, <2>1 DEF IsUnderWay, IsInLine, IsRunning
<1>6. ASSUME NEW q \in Requests, q # r
      PROVE  GoesOn(q)'
  <2>1. ops'[q] = ops[q]
    BY <1>1, <1>3, <1>6 DEF Advance, Throw
  <2>2. Keeps(q) => Keeps(q)'
    BY <1>1, <1>2, <1>3, <1>6 DEF Keeps, Owns
  <2>3. AwaitsConnect(q) => AwaitsConnect(q)'
    BY <1>1 DEF AwaitsConnect, WaitsAt
  <2>4. QED
    BY <1>1, <1>5, <2>1, <2>2, <2>3, Bystander DEF AliveInv
<1>7. GoesOn(r)'
  <2>1. GoesOn(r) /\ ops[r] \in Seq(Ops) /\ InOrder(ops[r]) /\ answer'[r] = answer[r]
    BY <1>1 DEF AliveInv, GoesOn, AnswerIsAhead
  <2>2. AwaitsWhatIsDone(r)'
    BY <1>1, <1>3 DEF AwaitsWhatIsDone
  <2>3. holder' = holder => Keeps(r)'
    BY <1>2 DEF Keeps, Owns
  <2>4. CASE Advance(r)
    <3>1. /\ InOrder(ops'[r])
          /\ answer[r] = "none" => Replies(ops'[r])
          /\ ops[r][1] = "release" => ~UsesOwn(ops'[r])
      <4>1. ops'[r] = Tail(ops[r]) /\ ops[r][1] \notin {"answer", "fail"}
        BY <1>1, <1>3, <2>4 DEF Advance, OwnCalls
      <4>2. QED
        BY <1>3, <2>1, <4>1, RestsAreInOrder DEF GoesOn, AnswerIsAhead
    <3>2. AnswerIsAhead(r)'
      BY <2>1, <3>1 DEF AnswerIsAhead, InOrder, Replies
    <3>3. HasWhatItUses(r)'
      BY <1>3, <2>3, <3>1 DEF HasWhatItUses, UsesOwn
    <3>4. QED
      BY <2>2, <3>2, <3>3 DEF GoesOn
  <2>5. CASE ~Advance(r) /\ Throw(r, TRUE)
    BY <1>1, <1>3, <1>5, <2>1, <2>3, <2>5, Thrown
  <2>6. CASE ~Advance(r) /\ ops' = [ops EXCEPT ![r] = Report(r, FALSE)]
    <3>1. ops'[r] = Report(r, FALSE) /\ ops'[r] \in {<<"fail">>, <<>>}
          /\ (ops'[r] = <<>> => answer[r] # "none")
      BY <1>1, <2>6 DEF Report
    <3>2. InOrder(ops'[r]) /\ (answer[r] = "none" => Replies(ops'[r])) /\ ~UsesOwn(ops'[r])
      <4>1. CASE ops'[r] = <<"fail">>
        BY <4>1 DEF InOrder, Replies, UsesOwn, OwnCalls
      <4>2. CASE ops'[r] = <<>>
        <5>1. InOrder(<<>>) /\ ~UsesOwn(<<>>)
          BY DEF InOrder, UsesOwn
        <5>2. QED
          BY <3>1, <4>2, <5>1
      <4>3. QED
        BY <3>1, <4>1, <4>2
    <3>3. QED
      BY <2>1, <2>2, <3>2 DEF GoesOn, AnswerIsAhead, HasWhatItUses, InOrder, Replies, UsesOwn
  <2>7. CASE ~Advance(r) /\ ops' = [ops EXCEPT ![r] = <<"release">> \o Report(r, FALSE)]
    <3> DEFINE s == <<"release">> \o Report(r, FALSE)
    <3>1. /\ s \in {<<"release">>, <<"release", "fail">>}
          /\ answer[r] = "none" => s = <<"release", "fail">>
      BY FailedRollback
    <3>2. ops'[r] = s
      BY <1>1, <2>7
    <3> HIDE DEF s
    <3>3. InOrder(s) /\ (answer[r] = "none" => Replies(s))
      BY <3>1 DEF InOrder, Replies, OwnCalls
    <3>4. AnswerIsAhead(r)'
      BY <2>1, <3>2, <3>3 DEF AnswerIsAhead, InOrder, Replies
    <3>5. ops[r][1] # "release" /\ Keeps(r)'
      <4>1. ops[r][1] # "release"
        BY <1>3, <2>7
      <4>2. QED
        BY <1>3, <2>3, <4>1
    <3>6. QED
      BY <2>2, <3>4, <3>5 DEF GoesOn, HasWhatItUses
  <2>8. QED
    BY <1>3, <2>4, <2>5, <2>6, <2>7
<1>8. QED
  BY <1>4, <1>6, <1>7 DEF AliveInv

(***************************************************************************)
(* What touches no request: an idle connection is closed, or nothing.      *)
(***************************************************************************)
LEMMA AliveIdle ==
  ASSUME AliveInv, TypeOK', UNCHANGED <<requests, queue, holder>>
  PROVE  AliveInv'
<1>1. UNCHANGED <<kind, ops, awaiting, issued, answer, queue, holder>>
  BY DEF requests
<1>2. NumbersOnce'
  BY <1>1 DEF AliveInv, NumbersOnce
<1>3. ASSUME NEW q \in Requests
      PROVE  GoesOn(q)'
  <2>1. /\ Keeps(q) => Keeps(q)'
        /\ AwaitsConnect(q) => AwaitsConnect(q)'
        /\ \A nr \in awaiting'[q] : IsUnderWay(q, nr) => IsUnderWay(q, nr)'
    BY <1>1 DEF Keeps, Owns, AwaitsConnect, WaitsAt, IsUnderWay, IsInLine, IsRunning
  <2>2. ops'[q] = ops[q] /\ answer'[q] = answer[q] /\ awaiting'[q] \subseteq awaiting[q]
    BY <1>1
  <2>3. GoesOn(q)
    BY DEF AliveInv
  <2>4. QED
    BY <2>1, <2>2, <2>3, Bystander
<1>4. QED
  BY <1>2, <1>3 DEF AliveInv

LEMMA AliveStep == AliveInv /\ [Next]_vars => AliveInv'
<1> SUFFICES ASSUME AliveInv, [Next]_vars PROVE AliveInv'
  OBVIOUS
<1>1. TypeOK /\ TypeOK'
  BY TypeStep DEF AliveInv
<1>2. ASSUME NEW r \in Requests, Handle(r)
      PROVE  AliveInv'
  <2>1. CASE Call(r)
    <3>1. PICK op \in Single : At(r, op) /\ Submit(r, op, 1, TRUE)
      BY <2>1 DEF Call
    <3>2. /\ awaiting[r] = {} /\ ops[r] # <<>> /\ ops[r][1] = op
          /\ op \notin OwnCalls \cup {"answer", "fail"}
      BY <3>1 DEF At, Single, OwnCalls
    <3>3. PICK n \in Nat : n = 1 /\ Submit(r, op, n, TRUE)
      BY <3>1
    <3>4. n # 0
      BY <3>3
    <3>5. QED
      BY <3>2, <3>3, <3>4, AliveSubmit
  <2>2. CASE Fork(r)
    <3>1. PICK op \in {"save", "statement"} : Submit(r, op, Parallel, TRUE)
      BY <2>2 DEF Fork
    <3>2. /\ awaiting[r] = {} /\ ops[r] # <<>>
          /\ ops[r][1] \notin OwnCalls \cup {"answer", "fail", "connect"}
      <4>1. At(r, "saves") \/ At(r, "statements")
        BY <2>2 DEF Fork
      <4>2. QED
        BY <4>1 DEF At, OwnCalls
    <3>3. op \in Single /\ Parallel \in Nat /\ Parallel # 0
      BY PoolAssumption DEF Single
    <3>4. QED
      BY <3>1, <3>2, <3>3, AliveSubmit
  <2>3. CASE Background(r)
    <3>1. "saveLoaded" \in Single /\ Submit(r, "saveLoaded", 1, FALSE)
      BY <2>3 DEF Background, Single
    <3>2. /\ awaiting[r] = {} /\ ops[r] # <<>>
          /\ ops[r][1] \notin OwnCalls \cup {"answer", "fail", "connect"}
      BY <2>3 DEF Background, At, OwnCalls
    <3>3. PICK n \in Nat : n = 1 /\ Submit(r, "saveLoaded", n, FALSE)
      BY <3>1
    <3>4. n # 0
      BY <3>3
    <3>5. QED
      BY <3>1, <3>2, <3>3, <3>4, AliveSubmit
  <2>4. CASE Answer(r)
    BY <1>1, <2>4, AliveAnswer
  <2>5. CASE OnOwnConnection(r)
    BY <1>1, <2>5, AliveOwnStep
  <2>6. QED
    BY <1>2, <2>1, <2>2, <2>3, <2>4, <2>5 DEF Handle
<1>3. ASSUME NEW c \in Connections, Run(c)
      PROVE  AliveInv'
  BY <1>3, AliveRun
<1>4. CASE Assign
  BY <1>4, AliveAssign
<1>5. CASE OpenFails
  BY <1>5, AliveOpenFails
<1>6. CASE IdleTimeout
  BY <1>1, <1>6, AliveIdle DEF IdleTimeout
<1>7. CASE UNCHANGED vars
  BY <1>1, <1>7, AliveIdle DEF vars, connections
<1>8. QED
  BY <1>2, <1>3, <1>4, <1>5, <1>6, <1>7 DEF Next

(***************************************************************************)
(* Until it is answered a request can go on, or each call it awaits runs   *)
(* or is in line: for every number of connections, every workload and      *)
(* every number of parallel queries, whatever fails or is refused.         *)
(***************************************************************************)
THEOREM NobodyGetsStuck == Spec => []NobodyIsStuck
<1>1. Init => AliveInv
  BY AliveInit
<1>2. AliveInv => NobodyIsStuck
  <2> SUFFICES ASSUME AliveInv, NEW r \in Requests, answer[r] = "none", awaiting[r] = {}
               PROVE  CanGoOn(r)
    BY DEF AliveInv, GoesOn, AwaitsWhatIsDone, IsUnderWay, NobodyIsStuck
  <2>1. /\ ops[r] \in Seq(Ops) /\ InOrder(ops[r]) /\ Replies(ops[r]) /\ HasWhatItUses(r)
        /\ ~AwaitsConnect(r)
    BY DEF AliveInv, TypeOK, GoesOn, AnswerIsAhead, AwaitsConnect
  <2>2. ops[r] # <<>> /\ 1 \in DOMAIN ops[r] /\ Head(ops[r]) = ops[r][1]
    <3>1. ops[r] # <<>>
      BY <2>1 DEF Replies
    <3>2. QED
      BY <2>1, <3>1
  <2>3. ops[r][1] \in OwnCalls => Keeps(r)
    BY <2>1, <2>2, RestsAreInOrder DEF HasWhatItUses, UsesOwn
  <2>4. QED
    BY <2>2, <2>3 DEF CanGoOn, Keeps
<1>3. QED
  BY <1>1, <1>2, AliveStep, PTL DEF Spec

----------------------------------------------------------------------------
(* With FewerHolders the worker as a whole does not come to a stop.        *)

\* A handler goes on, a query runs, or there is a connection for the first in the queue.
SomethingMoves ==
    \/ \E r \in Requests : CanGoOn(r)
    \/ \E c \in Connections : holder[c] # NoTask /\ holder[c].op # "connect"
    \/ queue # <<>> /\ \E c \in Connections : holder[c] = NoTask

NoDeadlock == (\E r \in Requests : answer[r] = "none") => SomethingMoves

(***************************************************************************)
(* While a request waits for its response there is something that moves:   *)
(* requests never all wait for connections that others of them keep, as    *)
(* sign-ups do when they are as many as the connections (main.ts:62 counts *)
(* on their being answered).                                               *)
(***************************************************************************)
THEOREM NobodyWaitsInACircle == ASSUME FewerHolders PROVE Spec => []NoDeadlock
<1>1. NobodyIsStuck /\ WaitingIsNotInVain => NoDeadlock
  <2> SUFFICES ASSUME NobodyIsStuck, WaitingIsNotInVain,
                      NEW r \in Requests, answer[r] = "none", ~CanGoOn(r)
               PROVE  SomethingMoves
    BY DEF NoDeadlock, SomethingMoves
  <2>1. PICK nr \in awaiting[r] : IsInLine(r, nr) \/ IsRunning(r, nr)
    BY DEF NobodyIsStuck
  <2>2. CASE IsInLine(r, nr)
    <3>1. queue # <<>>
      BY <2>2 DEF IsInLine
    <3>2. QED
      BY <3>1 DEF WaitingIsNotInVain, SomethingMoves
  <2>3. CASE IsRunning(r, nr)
    BY <2>3 DEF IsRunning, SomethingMoves
  <2>4. QED
    BY <2>1, <2>2, <2>3
<1>2. Spec => []NobodyIsStuck
  BY NobodyGetsStuck
<1>3. Spec => []WaitingIsNotInVain
  BY WaitingEnds
<1>4. QED
  BY <1>1, <1>2, <1>3, PTL
=============================================================================
