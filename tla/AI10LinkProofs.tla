---------------------------- MODULE AI10LinkProofs ----------------------------
(***************************************************************************)
(* Theorems about AI10Link for Slack = 0: a RESET is sent only when every  *)
(* earlier one was answered or its answer was lost.  They hold for every   *)
(* directory, page size and ring size, and whatever the line does.         *)
(***************************************************************************)
EXTENDS AI10Link, FiniteSetTheorems, SequenceTheorems, TLAPS

(* No RESET is on its way when another one may be sent. *)
LEMMA NoneUnanswered ==
    ASSUME Slack = 0, TypeOK, Unanswered <= Slack
    PROVE  ~Resetting
<1> DEFINE R == {i \in DOMAIN commands : commands[i].cmd = "RESET"}
<1>1. DOMAIN commands = 1 .. Len(commands) /\ Len(commands) \in Nat
  BY LenProperties DEF TypeOK
<1>2. IsFiniteSet(R)
  <2>1. IsFiniteSet(1 .. Len(commands)) /\ R \in SUBSET (1 .. Len(commands))
    BY <1>1, FS_Interval
  <2> QED BY <2>1, FS_Subset
<1>3. Cardinality(R) \in Nat /\ Cardinality(R) <= 0
  BY <1>2, FS_CardinalityType DEF Unanswered
<1>4. R = {}
  BY <1>2, <1>3, FS_EmptySet
<1> QED BY <1>4 DEF Resetting

(* The commands of the operations. *)
LEMMA CommandOf ==
    /\ \A k \in Kinds : Command(k) \in {"VERIFY", "ENROLL", "DELETE", "LIST"}
    /\ \A k \in VerifyKinds : Command(k) = "VERIFY"
    /\ Command("enroll") = "ENROLL" /\ Command("delete") = "DELETE" /\ Command("list") = "LIST"
<1>1. \A k \in VerifyKinds : Command(k) = "VERIFY"
  BY DEF Command, VerifyKinds
<1>2. Command("enroll") = "ENROLL" /\ Command("delete") = "DELETE" /\ Command("list") = "LIST"
  BY DEF Command, VerifyKinds
<1> QED BY <1>1, <1>2 DEF Kinds, AsyncKinds, VerifyKinds

LEMMA CallTyped ==
    ASSUME NEW c \in Calls
    PROVE  c.kind \in Kinds /\ c.ids \in SUBSET Ids /\ c.n \in Numbers /\ c.n # 0 /\ c # NoCall
  BY LinkAssumption DEF Calls, NoCall, Kinds, AsyncKinds

(* What receiving a frame does to the ring. *)
LEMMA RingGrows ==
    ASSUME ring \in Seq(Frames), rxError \in {0, 1}, lost \in {0, 1},
           NEW f \in Frames, Receive(f)
    PROVE  /\ ring' \in Seq(Frames) /\ rxError' \in {0, 1} /\ lost' \in {0, 1}
           /\ rxError' = 0 => rxError = 0
           /\ lost' = 0 => lost = 0
           /\ Len(ring) \in Nat /\ DOMAIN ring = 1 .. Len(ring) /\ DOMAIN ring' = 1 .. Len(ring')
           /\ \/ ring' = ring /\ (lost' = 1 \/ rxError' = 1)
              \/ /\ Len(ring') = Len(ring) + 1
                 /\ ring'[Len(ring')] \in {f, BadFrame}
                 /\ \A j \in DOMAIN ring : ring'[j] = ring[j]
<1>1. BadFrame \in Frames
  BY DEF BadFrame, Frame, Frames
<1>2. Len(ring) \in Nat /\ DOMAIN ring = 1 .. Len(ring)
  BY LenProperties
<1>3. /\ rxError' = rxError \/ rxError' = 1
      /\ lost' = lost \/ lost' = 1
      /\ \/ ring' = ring /\ (lost' = 1 \/ rxError' = 1)
         \/ \E g \in {f, BadFrame} : ring' = Append(ring, g)
  BY DEF Receive
<1>4. ASSUME NEW g \in {f, BadFrame}, ring' = Append(ring, g)
      PROVE  /\ ring' \in Seq(Frames) /\ Len(ring') = Len(ring) + 1
             /\ ring'[Len(ring')] = g /\ \A j \in DOMAIN ring : ring'[j] = ring[j]
             /\ DOMAIN ring' = 1 .. Len(ring')
  BY <1>1, <1>2, <1>4, AppendProperties, LenProperties
<1>5. CASE ring' = ring /\ (lost' = 1 \/ rxError' = 1)
  BY <1>2, <1>3, <1>5
<1>6. CASE \E g \in {f, BadFrame} : ring' = Append(ring, g)
  BY <1>2, <1>3, <1>4, <1>6
<1> QED BY <1>3, <1>5, <1>6

(* The sensor answers the command it is working on with frame f. *)
Answer(f) ==
    /\ working # Nothing /\ working.of \in Calls
    /\ f \in Frames /\ f.cmd = Command(working.of.kind) /\ f.n = working.of.n
    /\ f.ids \subseteq db' /\ db' \in SUBSET Ids
    /\ Receive(f)
    /\ UNCHANGED <<hostVars, commands>>
    /\ \/ working' = Nothing
       \/ working' \in [of : {working.of}, left : SUBSET Ids]
    /\ working.of.kind \in {"identify", "match", "enroll", "delete"} => working' = Nothing
    /\ working.of.kind = "list" => /\ LastPage(f) => working' = Nothing
                                   /\ working.left \subseteq f.ids \cup working'.left
    /\ working'.left \subseteq working.left
    /\ working.of.kind = "delete" => f.ids = {} /\ working.of.ids \cap db' = {} /\ db' \subseteq db
    /\ working.of.kind # "delete" => db \subseteq db'
    /\ working.of.kind # "enroll" => db' \subseteq db

LEMMA AnswerInv == ASSUME IInv, NEW f, Answer(f) PROVE IInv'
<1> USE DEF Answer
<1>1. /\ ring' \in Seq(Frames) /\ rxError' \in {0, 1} /\ lost' \in {0, 1}
      /\ rxError' = 0 => rxError = 0
      /\ lost' = 0 => lost = 0
      /\ Len(ring) \in Nat /\ DOMAIN ring = 1 .. Len(ring) /\ DOMAIN ring' = 1 .. Len(ring')
      /\ \/ ring' = ring /\ (lost' = 1 \/ rxError' = 1)
         \/ /\ Len(ring') = Len(ring) + 1
            /\ ring'[Len(ring')] \in {f, BadFrame}
            /\ \A j \in DOMAIN ring : ring'[j] = ring[j]
  BY RingGrows DEF IInv, TypeOK
<1>2. UNCHANGED <<hpc, call, ret, cleanup, out, taken, commands>>
  BY DEF hostVars
<1>3. /\ f.cmd \in {"VERIFY", "ENROLL", "DELETE", "LIST"} /\ BadFrame.cmd = "BAD"
      /\ BadFrame.n = 0
  BY CommandOf, CallTyped DEF BadFrame, Frame
<1>4. \A i \in DOMAIN commands : commands[i].cmd = "RESET" /\ i = Len(commands)
  BY DEF IInv, OneCommand
<1>5. \A j \in DOMAIN ring : ring[j].cmd # "RESET"
  BY DEF IInv, Boundary, Quiet
<1>6. \A j \in DOMAIN ring' : \/ j \in DOMAIN ring /\ ring'[j] = ring[j]
                              \/ j = Len(ring') /\ ring'[j] \in {f, BadFrame}
  <2>1. CASE ring' = ring
    BY <2>1
  <2>2. CASE /\ Len(ring') = Len(ring) + 1
             /\ ring'[Len(ring')] \in {f, BadFrame}
             /\ \A j \in DOMAIN ring : ring'[j] = ring[j]
    BY <1>1, <2>2
  <2> QED BY <1>1, <2>1, <2>2
<1>7. TypeOK'
  <2>1. working' = Nothing \/ working' \in [of : Calls, left : SUBSET Ids]
    OBVIOUS
  <2> QED BY <1>1, <1>2, <2>1 DEF IInv, TypeOK
<1>8. OneCommand'
  BY <1>2, <1>4 DEF OneCommand
<1>9. Boundary'
  BY <1>3, <1>5, <1>6 DEF Boundary
<1>10. OwnWork'
  <2>1. working' = Nothing \/ working'.of = working.of
    OBVIOUS
  <2> QED BY <1>2, <2>1 DEF IInv, OwnWork, Own
<1>11. EndsKnown'
  BY <1>2 DEF IInv, EndsKnown
<1>12. ASSUME Own PROVE working.of = call
  BY <1>12 DEF IInv, OwnWork
<1>13. ASSUME hpc = "command"
       PROVE  /\ working.of = call /\ commands = <<>> /\ ~Resetting
              /\ \A j \in DOMAIN ring : ~FinalFrame(ring[j])
  <2>1. working.of = call /\ ~Resetting
    BY <1>12, <1>13 DEF IInv, OwnFrames, Own
  <2>2. DOMAIN commands = {}
    BY <1>4, <2>1 DEF Resetting
  <2>3. commands = <<>>
    BY <2>2, LenProperties DEF IInv, TypeOK
  <2> QED BY <1>13, <2>1, <2>3 DEF IInv, OwnFrames, Quiet
<1>14. OwnFrames'
  <2> SUFFICES ASSUME hpc = "command" PROVE OwnFrames'
    BY <1>2 DEF OwnFrames
  <2>1. ~Resetting' /\ commands' = <<>>
    BY <1>2, <1>13 DEF Resetting
  <2>2. ASSUME NEW j \in DOMAIN ring'
        PROVE  /\ ring'[j].cmd \in {"BAD", Command(call.kind)}
               /\ FinalFrame(ring'[j]) => j = Len(ring') /\ working' = Nothing
               /\ ring'[j].cmd # "BAD" => /\ ring'[j].n = call.n /\ ring'[j].ids \subseteq db'
                                          /\ call.kind = "delete" =>
                                                 ring'[j].ids = {} /\ call.ids \cap db' = {}
    <3>1. CASE j \in DOMAIN ring /\ ring'[j] = ring[j]
      <4>1. ~FinalFrame(ring[j]) /\ call.kind # "delete"
        BY <1>13, <3>1 DEF FinalFrame
      <4> QED BY <1>13, <3>1, <4>1 DEF IInv, OwnFrames
    <3>2. CASE j = Len(ring') /\ ring'[j] = f
      BY <1>3, <1>13, <3>2 DEF FinalFrame
    <3>3. CASE j = Len(ring') /\ ring'[j] = BadFrame
      BY <1>3, <1>13, <3>3 DEF FinalFrame
    <3> QED BY <1>6, <3>1, <3>2, <3>3
  <2>3. \A j \in DOMAIN ring' : FinalFrame(ring[j])' <=> FinalFrame(ring'[j])
    BY <1>2 DEF FinalFrame, LastPage
  <2> QED BY <1>2, <2>1, <2>2, <2>3 DEF OwnFrames, Quiet
<1>15. PagesAccounted'
  <2> SUFFICES ASSUME hpc = "command", call.kind = "list", lost' = 0, rxError' = 0,
                      \A j \in DOMAIN ring' : ring'[j].cmd # "BAD"
               PROVE  \A x \in db' : \/ x \in out \/ x \in working'.left
                                     \/ \E j \in DOMAIN ring' : x \in ring'[j].ids
    BY <1>2 DEF PagesAccounted
  <2>1. /\ Len(ring') = Len(ring) + 1 /\ ring'[Len(ring')] = f
        /\ \A j \in DOMAIN ring : ring'[j] = ring[j]
    BY <1>1, <1>3
  <2>2. \A j \in DOMAIN ring : ring[j].cmd # "BAD" /\ j \in DOMAIN ring'
    BY <1>1, <2>1
  <2>3. db' = db /\ working.left \subseteq f.ids \cup working'.left
    BY <1>13
  <2>4. \A x \in db : \/ x \in out \/ x \in working.left
                      \/ \E j \in DOMAIN ring : x \in ring[j].ids
    BY <1>1, <1>13, <2>2 DEF IInv, PagesAccounted
  <2>5. Len(ring') \in DOMAIN ring'
    BY <1>1, <2>1
  <2> QED BY <2>1, <2>2, <2>3, <2>4, <2>5
<1>16. AnswersAreTrue'
  <2>1. out' \subseteq db'
    <3>1. CASE out = {}
      BY <1>2, <3>1
    <3>2. CASE working.of.kind # "delete"
      BY <1>2, <3>2 DEF IInv, AnswersAreTrue
    <3>3. CASE out # {} /\ working.of.kind = "delete"
      BY <1>12, <3>3 DEF IInv, EndsKnown, Own
    <3> QED BY <3>1, <3>2, <3>3
  <2>2. ASSUME hpc = "idle", call.kind = "delete", ret = "OK" PROVE call.ids \cap db' = {}
    <3>1. Own
      BY <2>2 DEF IInv, EndsKnown, Own, NoCall
    <3> QED BY <1>12, <2>2, <3>1
  <2> QED BY <1>2, <2>1, <2>2 DEF AnswersAreTrue
<1>17. ListIsComplete'
  <2> SUFFICES ASSUME hpc = "idle", call.kind = "list", ret = "OK", lost' = 0 PROVE out = db'
    BY <1>2 DEF ListIsComplete
  <2>1. Own
    BY DEF IInv, EndsKnown, Own, NoCall
  <2>2. db' = db
    BY <1>12, <2>1
  <2> QED BY <1>1, <2>2 DEF IInv, ListIsComplete
<1>18. QuietWhenDone'
  BY <1>2 DEF IInv, QuietWhenDone
<1>19. LeftStored'
  <2>1. working.left \subseteq db /\ (working.of.kind # "list" => working.left = {})
    BY DEF IInv, LeftStored
  <2>2. working'.left \subseteq db'
    BY <2>1
  <2>3. working' = Nothing => working'.left = {}
    BY DEF Nothing
  <2>4. working' # Nothing => working'.of = working.of
    OBVIOUS
  <2> QED BY <2>1, <2>2, <2>3, <2>4 DEF LeftStored
<1> QED BY <1>7, <1>8, <1>9, <1>10, <1>11, <1>14, <1>15, <1>16, <1>17, <1>18, <1>19 DEF IInv

(* The four ways the sensor answers. *)
LEMMA SensorAnswersInv ==
    ASSUME IInv, SensorVerifies \/ SensorEnrolls \/ SensorDeletes \/ SensorListsPage
    PROVE  IInv'
<1>1. /\ working # Nothing /\ working.of.kind # "none" =>
             working \in [of : Calls, left : SUBSET Ids]
      /\ working = Nothing => working.of.kind = "none"
      /\ Nothing.left = {}
      /\ db \in SUBSET Ids
  BY DEF IInv, TypeOK, Nothing, NoCall
<1>2. CASE SensorVerifies
  <2>1. working # Nothing /\ working \in [of : Calls, left : SUBSET Ids]
        /\ Command(working.of.kind) = "VERIFY"
    BY <1>1, <1>2, CommandOf DEF SensorVerifies, VerifyKinds
  <2>2. PICK f \in Frames : /\ Receive(f) /\ f.cmd = "VERIFY" /\ f.n = working.of.n
                            /\ f.ids \subseteq db
    <3>1. \A id \in db : Frame("VERIFY", "OK", {id}, working.of.n) \in Frames
      BY <1>1, <2>1, CallTyped DEF Frame, Frames
    <3>2. \A s \in {"UNKNOWN_USER", "REJECTED"} : Frame("VERIFY", s, {}, working.of.n) \in Frames
      BY <2>1, CallTyped DEF Frame, Frames
    <3>3. CASE \E id \in db : Receive(Frame("VERIFY", "OK", {id}, working.of.n))
      <4>1. PICK id \in db : Receive(Frame("VERIFY", "OK", {id}, working.of.n))
        BY <3>3
      <4> QED BY <3>1, <4>1 DEF Frame
    <3>4. CASE \E s \in {"UNKNOWN_USER", "REJECTED"} : Receive(Frame("VERIFY", s, {}, working.of.n))
      <4>1. PICK s \in {"UNKNOWN_USER", "REJECTED"} : Receive(Frame("VERIFY", s, {}, working.of.n))
        BY <3>4
      <4> QED BY <3>2, <4>1 DEF Frame
    <3> QED BY <1>2, <3>3, <3>4 DEF SensorVerifies
  <2>3. /\ UNCHANGED <<hostVars, commands, db>>
        /\ working' = IF working.of.kind = "identify_continuous" THEN working ELSE Nothing
        /\ working.of.kind \in VerifyKinds
    BY <1>2 DEF SensorVerifies
  <2>4. working' = Nothing \/ working' \in [of : {working.of}, left : SUBSET Ids]
    BY <2>1, <2>3
  <2>5. Answer(f)
    BY <1>1, <2>1, <2>2, <2>3, <2>4 DEF Answer, VerifyKinds
  <2> QED BY <2>5, AnswerInv
<1>3. CASE SensorEnrolls
  <2>1. working # Nothing /\ working \in [of : Calls, left : SUBSET Ids]
        /\ Command(working.of.kind) = "ENROLL" /\ working.of.kind = "enroll"
    BY <1>1, <1>3, CommandOf DEF SensorEnrolls
  <2>2. PICK f \in Frames : /\ Receive(f) /\ f.cmd = "ENROLL" /\ f.n = working.of.n
                            /\ f.ids \subseteq db' /\ db \subseteq db' /\ db' \in SUBSET Ids
    <3>1. \A id \in Ids : Frame("ENROLL", "OK", {id}, working.of.n) \in Frames
      BY <2>1, CallTyped DEF Frame, Frames
    <3>2. Frame("ENROLL", "REJECTED", {}, working.of.n) \in Frames
      BY <2>1, CallTyped DEF Frame, Frames
    <3>3. CASE \E id \in Ids \ db : /\ db' = db \cup {id}
                                    /\ Receive(Frame("ENROLL", "OK", {id}, working.of.n))
      <4>1. PICK id \in Ids \ db : /\ db' = db \cup {id}
                                   /\ Receive(Frame("ENROLL", "OK", {id}, working.of.n))
        BY <3>3
      <4> QED BY <1>1, <3>1, <4>1 DEF Frame
    <3>4. CASE UNCHANGED db /\ Receive(Frame("ENROLL", "REJECTED", {}, working.of.n))
      BY <1>1, <3>2, <3>4 DEF Frame
    <3> QED BY <1>3, <3>3, <3>4 DEF SensorEnrolls
  <2>3. UNCHANGED <<hostVars, commands>> /\ working' = Nothing
    BY <1>3 DEF SensorEnrolls
  <2>4. Answer(f)
    BY <1>1, <2>1, <2>2, <2>3 DEF Answer
  <2> QED BY <2>4, AnswerInv
<1>4. CASE SensorDeletes
  <2>1. working # Nothing /\ working \in [of : Calls, left : SUBSET Ids]
        /\ Command(working.of.kind) = "DELETE" /\ working.of.kind = "delete"
    BY <1>1, <1>4, CommandOf DEF SensorDeletes
  <2>2. PICK f \in Frames : Receive(f) /\ f.cmd = "DELETE" /\ f.n = working.of.n /\ f.ids = {}
    <3>1. \A s \in {"OK", "UNKNOWN_USER"} : Frame("DELETE", s, {}, working.of.n) \in Frames
      BY <2>1, CallTyped DEF Frame, Frames
    <3>2. PICK s \in {"OK", "UNKNOWN_USER"} : Receive(Frame("DELETE", s, {}, working.of.n))
      BY <1>4 DEF SensorDeletes
    <3> QED BY <3>1, <3>2 DEF Frame
  <2>3. UNCHANGED <<hostVars, commands>> /\ working' = Nothing /\ db' = db \ working.of.ids
    BY <1>4 DEF SensorDeletes
  <2>4. Answer(f)
    BY <1>1, <2>1, <2>2, <2>3 DEF Answer
  <2> QED BY <2>4, AnswerInv
<1>5. CASE SensorListsPage
  <2>1. working # Nothing /\ working \in [of : Calls, left : SUBSET Ids]
        /\ Command(working.of.kind) = "LIST" /\ working.of.kind = "list"
    BY <1>1, <1>5, CommandOf DEF SensorListsPage
  <2>2. PICK page \in SUBSET working.left :
            /\ IF Cardinality(working.left) < PageSize
               THEN page = working.left /\ working' = Nothing
               ELSE /\ Cardinality(page) = PageSize
                    /\ working' = [working EXCEPT !.left = working.left \ page]
            /\ Receive(Frame("LIST", "OK", page, working.of.n))
    BY <1>5 DEF SensorListsPage
  <2>3. working.left \subseteq db /\ UNCHANGED <<hostVars, commands, db>>
    BY <1>5 DEF IInv, LeftStored, SensorListsPage
  <2> DEFINE f == Frame("LIST", "OK", page, working.of.n)
  <2>4. /\ f \in Frames /\ f.cmd = "LIST" /\ f.n = working.of.n /\ f.ids = page
        /\ Receive(f)
    BY <1>1, <2>1, <2>2, <2>3, CallTyped DEF Frame, Frames
  <2> HIDE DEF f
  <2>5. LastPage(f) /\ page = working.left => page \subseteq f.ids
    BY <2>4
  <2>6. ASSUME Cardinality(working.left) < PageSize PROVE Answer(f)
    BY <1>1, <2>1, <2>2, <2>3, <2>4, <2>5, <2>6 DEF Answer
  <2>7. ASSUME ~(Cardinality(working.left) < PageSize) PROVE Answer(f)
    <3>1. Cardinality(page) = PageSize /\ working' = [working EXCEPT !.left = working.left \ page]
      BY <2>2, <2>7
    <3>2. ~LastPage(f)
      BY <2>4, <3>1, LinkAssumption DEF LastPage
    <3>3. /\ working' \in [of : {working.of}, left : SUBSET Ids]
          /\ working'.left = working.left \ page
      <4>1. working.left \ page \in SUBSET Ids
        BY <2>1
      <4>2. ASSUME NEW rest \in SUBSET Ids, working' = [working EXCEPT !.left = rest]
            PROVE  working' \in [of : {working.of}, left : SUBSET Ids] /\ working'.left = rest
        BY <2>1, <4>2
      <4> QED BY <3>1, <4>1, <4>2
    <3> QED BY <1>1, <2>1, <2>3, <2>4, <3>2, <3>3 DEF Answer
  <2> QED BY <2>6, <2>7, AnswerInv
<1> QED BY <1>2, <1>3, <1>4, <1>5

(* Taking the head of a sequence. *)
LEMMA Shifted ==
    ASSUME NEW S, NEW s \in Seq(S), s # <<>>
    PROVE  /\ Len(s) \in Nat /\ Len(s) >= 1 /\ DOMAIN s = 1 .. Len(s)
           /\ Head(s) = s[1] /\ Head(s) \in S
           /\ Tail(s) \in Seq(S) /\ Len(Tail(s)) = Len(s) - 1 /\ DOMAIN Tail(s) = 1 .. Len(Tail(s))
           /\ \A i \in DOMAIN Tail(s) : i + 1 \in DOMAIN s /\ Tail(s)[i] = s[i + 1]
           /\ Len(s) = 1 => Tail(s) = <<>>
<1>1. Len(s) \in Nat /\ Len(s) >= 1 /\ DOMAIN s = 1 .. Len(s)
  BY EmptySeq, LenProperties
<1>2. /\ Head(s) = s[1] /\ Head(s) \in S
      /\ Tail(s) \in Seq(S) /\ Len(Tail(s)) = Len(s) - 1
      /\ \A i \in 1 .. Len(Tail(s)) : Tail(s)[i] = s[i + 1]
  BY <1>1, HeadTailProperties
<1>3. DOMAIN Tail(s) = 1 .. Len(Tail(s))
  BY <1>2, LenProperties
<1>4. ASSUME Len(s) = 1 PROVE Tail(s) = <<>>
  <2>1. Len(Tail(s)) = 0
    BY <1>2, <1>4
  <2>2. \A q \in Seq(S) : q # <<>> => Len(q) \in Nat \ {0}
    BY EmptySeq
  <2> QED BY <1>2, <2>1, <2>2
<1> QED BY <1>1, <1>2, <1>3, <1>4

(* Adding to the end of a sequence. *)
LEMMA Appended ==
    ASSUME NEW S, NEW s \in Seq(S), NEW e \in S
    PROVE  LET t == Append(s, e) IN
           /\ Len(s) \in Nat /\ DOMAIN s = 1 .. Len(s)
           /\ t \in Seq(S) /\ Len(t) = Len(s) + 1 /\ DOMAIN t = 1 .. Len(t)
           /\ \A i \in DOMAIN s : t[i] = s[i]
           /\ t[Len(t)] = e
           /\ t # <<>>
<1> DEFINE t == Append(s, e)
<1>1. Len(s) \in Nat /\ DOMAIN s = 1 .. Len(s)
  BY LenProperties
<1>2. t \in Seq(S) /\ Len(t) = Len(s) + 1 /\ (\A i \in 1 .. Len(s) : t[i] = s[i])
      /\ t[Len(s) + 1] = e
  BY AppendProperties
<1>3. DOMAIN t = 1 .. Len(t)
  BY <1>2, LenProperties
<1>4. t # <<>>
  BY <1>1, <1>2, EmptySeq
<1> QED BY <1>1, <1>2, <1>3, <1>4

LEMMA SensorTakesInv == ASSUME IInv, SensorTakes PROVE IInv'
<1> DEFINE c == Head(commands)
<1>1. /\ Len(commands) \in Nat /\ Len(commands) >= 1 /\ DOMAIN commands = 1 .. Len(commands)
      /\ c = commands[1] /\ c \in Commands
      /\ commands' \in Seq(Commands) /\ Len(commands') = Len(commands) - 1
      /\ DOMAIN commands' = 1 .. Len(commands')
      /\ \A i \in DOMAIN commands' : i + 1 \in DOMAIN commands /\ commands'[i] = commands[i + 1]
      /\ Len(commands) = 1 => commands' = <<>>
  BY Shifted DEF IInv, TypeOK, SensorTakes
<1>2. /\ UNCHANGED <<hpc, call, ret, cleanup, out, taken, db>> /\ commands # <<>>
      /\ IF c.cmd = "RESET"
         THEN working' = Nothing /\ Receive(Frame("RESET", "OK", {}, c.of.n))
         ELSE /\ working' = [of |-> c.of, left |-> IF c.cmd = "LIST" THEN db ELSE {}]
              /\ UNCHANGED rxVars
  BY DEF SensorTakes, hostVars
<1>3. c.of \in Calls /\ c.of.kind \in Kinds /\ c.of.n \in Numbers /\ Nothing.left = {}
  BY <1>1, CallTyped DEF Commands, Nothing
<1>4. \A j \in DOMAIN ring : ring[j].cmd # "RESET"
  BY <1>2 DEF IInv, Boundary, Quiet
<1>5. \/ c.cmd = "RESET" /\ Len(commands) = 1
      \/ c.cmd # "RESET" /\ c.cmd = Command(c.of.kind) /\ working = Nothing
  <2>1. \/ c.cmd = "RESET" /\ 1 = Len(commands)
        \/ working = Nothing /\ c.cmd = Command(c.of.kind)
    BY <1>1 DEF IInv, OneCommand
  <2>2. Command(c.of.kind) # "RESET"
    BY <1>3, CommandOf
  <2> QED BY <2>1, <2>2
<1> HIDE DEF c
<1>6. EndsKnown'
  BY <1>2 DEF IInv, EndsKnown
<1>7. AnswersAreTrue' /\ QuietWhenDone'
  BY <1>2 DEF IInv, AnswersAreTrue, QuietWhenDone
<1>8. CASE c.cmd = "RESET" /\ Len(commands) = 1
  <2>1. commands' = <<>> /\ working' = Nothing /\ DOMAIN commands' = {}
    BY <1>1, <1>2, <1>8
  <2>2. Frame("RESET", "OK", {}, c.of.n) \in Frames
    BY <1>3 DEF Frame, Frames
  <2>3. /\ ring' \in Seq(Frames) /\ rxError' \in {0, 1} /\ lost' \in {0, 1}
        /\ lost' = 0 => lost = 0
        /\ Len(ring) \in Nat /\ DOMAIN ring = 1 .. Len(ring) /\ DOMAIN ring' = 1 .. Len(ring')
        /\ \/ ring' = ring
           \/ Len(ring') = Len(ring) + 1 /\ \A j \in DOMAIN ring : ring'[j] = ring[j]
    BY <1>2, <1>8, <2>2, RingGrows DEF IInv, TypeOK
  <2>4. Resetting
    BY <1>1, <1>8 DEF Resetting
  <2>5. hpc # "command"
    BY <2>4 DEF IInv, OwnFrames
  <2>6. TypeOK'
    BY <1>2, <2>1, <2>3, <1>1 DEF IInv, TypeOK
  <2>7. OneCommand' /\ OwnWork'
    BY <1>2, <2>1 DEF IInv, OneCommand, OwnWork, Own
  <2>8. Boundary'
    <3>1. ~Resetting' /\ Quiet'
      BY <2>1 DEF Resetting, Quiet
    <3>2. \A j \in DOMAIN ring' : ring'[j].cmd = "RESET" => j = Len(ring')
      <4>1. CASE ring' = ring
        BY <1>4, <4>1
      <4>2. CASE Len(ring') = Len(ring) + 1 /\ \A j \in DOMAIN ring : ring'[j] = ring[j]
        <5>1. \A j \in DOMAIN ring' : j \in DOMAIN ring \/ j = Len(ring')
          BY <2>3, <4>2
        <5> QED BY <1>4, <4>2, <5>1
      <4> QED BY <2>3, <4>1, <4>2
    <3> QED BY <3>1, <3>2 DEF Boundary
  <2>9. OwnFrames' /\ PagesAccounted'
    BY <1>2, <2>5 DEF OwnFrames, PagesAccounted
  <2>10. LeftStored'
    BY <1>3, <2>1 DEF LeftStored
  <2>11. ListIsComplete'
    BY <1>2, <2>3 DEF IInv, ListIsComplete
  <2> QED BY <1>6, <1>7, <2>6, <2>7, <2>8, <2>9, <2>10, <2>11 DEF IInv
<1>9. CASE c.cmd # "RESET" /\ c.cmd = Command(c.of.kind) /\ working = Nothing
  <2>1. /\ working' = [of |-> c.of, left |-> IF c.cmd = "LIST" THEN db ELSE {}]
        /\ UNCHANGED <<ring, rxError, lost>>
    BY <1>2, <1>9 DEF rxVars
  <2>2. /\ working' \in [of : Calls, left : SUBSET Ids] /\ working'.of = c.of
        /\ working'.left \subseteq db
        /\ c.of.kind = "list" => working'.left = db
        /\ c.of.kind # "list" => working'.left = {}
    <3>1. db \in SUBSET Ids
      BY DEF IInv, TypeOK
    <3>2. c.cmd = "LIST" <=> c.of.kind = "list"
      BY <1>3, <1>9, CommandOf DEF Kinds, AsyncKinds, VerifyKinds
    <3>3. CASE c.cmd = "LIST"
      BY <1>3, <2>1, <3>1, <3>2, <3>3
    <3>4. CASE c.cmd # "LIST"
      BY <1>3, <2>1, <3>1, <3>2, <3>4
    <3> QED BY <3>3, <3>4
  <2>3. \A i \in DOMAIN commands' : commands'[i].cmd = "RESET" /\ i = Len(commands')
    <3> TAKE i \in DOMAIN commands'
    <3>1. i + 1 # 1 /\ i + 1 \in DOMAIN commands /\ commands'[i] = commands[i + 1]
      BY <1>1
    <3>2. commands[i + 1].cmd = "RESET" /\ i + 1 = Len(commands)
      BY <3>1 DEF IInv, OneCommand
    <3> QED BY <1>1, <3>1, <3>2
  <2>4. TypeOK'
    BY <1>1, <1>2, <2>1, <2>2 DEF IInv, TypeOK
  <2>5. OneCommand'
    BY <2>3 DEF OneCommand
  <2>6. Boundary'
    BY <1>4, <2>1 DEF Boundary
  <2>7. OwnWork'
    BY <1>1, <1>2, <2>2 DEF IInv, OwnWork, Own
  <2>8. hpc = "command" => c.of = call /\ ring = <<>> /\ ~Resetting
    BY <1>1, <1>2 DEF IInv, OwnWork, OwnFrames, Own
  <2>9. hpc = "command" => ~Resetting' /\ DOMAIN ring = {} /\ out = {}
    BY <1>1, <1>2, <2>8 DEF Resetting, IInv, OwnFrames
  <2>10. OwnFrames'
    BY <1>2, <2>1, <2>8, <2>9 DEF OwnFrames
  <2>11. PagesAccounted'
    BY <1>2, <2>1, <2>2, <2>8 DEF PagesAccounted
  <2>12. LeftStored'
    BY <1>2, <2>2 DEF LeftStored
  <2>13. ListIsComplete'
    BY <1>2, <2>1 DEF IInv, ListIsComplete
  <2> QED BY <1>6, <1>7, <2>4, <2>5, <2>6, <2>7, <2>10, <2>11, <2>12, <2>13 DEF IInv
<1> QED BY <1>5, <1>8, <1>9

(* RESET is sent, by an operation that begins or cleans up. *)
LEMMA ResetSentInv ==
    ASSUME Slack = 0, IInv, Start \/ SendCleanup
    PROVE  IInv'
<1>1. /\ call' \in Calls /\ SendReset(call') /\ UNCHANGED <<working, db>>
      /\ \/ /\ hpc' = "reset" /\ ret' = "OK" /\ cleanup' = "OK" /\ out' = {} /\ taken' = 0
         \/ /\ hpc = "finished" /\ hpc' = "cleanup"
            /\ UNCHANGED <<call, ret, cleanup, out, taken>>
  <2>1. CASE Start
    BY <2>1 DEF Start, sensorVars
  <2>2. CASE SendCleanup
    <3>1. call \in Calls /\ call' = call
      BY <2>2 DEF SendCleanup, IInv, TypeOK
    <3> QED BY <2>2, <3>1 DEF SendCleanup, sensorVars
  <2> QED BY <2>1, <2>2
<1> DEFINE r == [cmd |-> "RESET", of |-> call']
<1>2. /\ Unanswered <= Slack
      /\ ring' = <<>> /\ rxError' = 0 /\ lost' = 0
      /\ commands' = Append(commands, r) /\ r \in Commands
  BY <1>1 DEF SendReset, Send, Commands
<1>3. ~Resetting
  BY <1>2, NoneUnanswered DEF IInv
<1>4. /\ Len(commands) \in Nat /\ DOMAIN commands = 1 .. Len(commands)
      /\ commands' \in Seq(Commands) /\ Len(commands') = Len(commands) + 1
      /\ DOMAIN commands' = 1 .. Len(commands')
      /\ \A i \in DOMAIN commands : commands'[i] = commands[i]
      /\ commands'[Len(commands')] = r
      /\ commands' # <<>>
  BY <1>2, Appended DEF IInv, TypeOK
<1>5. \A i \in DOMAIN commands' : \/ i \in DOMAIN commands /\ commands'[i] = commands[i]
                                  \/ i = Len(commands') /\ commands'[i] = r
  BY <1>4
<1>6. r.cmd = "RESET" /\ r.of = call' /\ DOMAIN ring' = {} /\ ring' \in Seq(Frames)
  <2>1. ring' \in Seq(Frames) /\ Len(ring') = 0
    BY <1>2, EmptySeq
  <2> QED BY <2>1, LenProperties
<1> HIDE DEF r
<1>7. hpc' \in {"reset", "cleanup"}
  BY <1>1
<1>8. TypeOK'
  <2>1. /\ hpc' \in HostPoints
        /\ ret' \in Failures \cup {"OK", "EBUSY", "ENOENT", "ENOMEM"}
        /\ cleanup' \in Failures \cup {"OK"}
        /\ out' \in SUBSET Ids /\ taken' \in Numbers \cup {0}
    BY <1>1 DEF IInv, TypeOK, HostPoints
  <2> QED BY <1>1, <1>2, <1>4, <1>6, <2>1 DEF IInv, TypeOK
<1>9. OneCommand'
  <2> SUFFICES ASSUME NEW i \in DOMAIN commands'
               PROVE  \/ commands'[i].cmd = "RESET" /\ i = Len(commands')
                      \/ /\ i = 1 /\ working' = Nothing
                         /\ commands'[i].cmd = Command(commands'[i].of.kind)
    BY DEF OneCommand
  <2>1. CASE i \in DOMAIN commands /\ commands'[i] = commands[i]
    BY <1>1, <1>3, <2>1 DEF IInv, OneCommand, Resetting
  <2>2. CASE i = Len(commands') /\ commands'[i] = r
    BY <1>6, <2>2
  <2> QED BY <1>5, <2>1, <2>2
<1>10. Boundary'
  BY <1>6 DEF Boundary
<1>11. OwnWork'
  <2>1. CASE taken' = 0
    BY <1>7, <2>1 DEF OwnWork, Own
  <2>2. CASE hpc = "finished" /\ UNCHANGED <<call, ret, cleanup, out, taken>>
    <3>1. Own' <=> taken # 0
      BY <1>7, <2>2 DEF Own
    <3>2. taken # 0 => \A i \in DOMAIN commands' : commands'[i].of = call
      BY <1>5, <1>6, <2>2 DEF IInv, OwnWork, Own
    <3> QED BY <1>1, <2>2, <3>1, <3>2 DEF IInv, OwnWork, Own
  <2> QED BY <1>1, <2>1, <2>2
<1>12. OwnFrames' /\ PagesAccounted' /\ ListIsComplete' /\ QuietWhenDone'
  BY <1>7 DEF OwnFrames, PagesAccounted, ListIsComplete, QuietWhenDone
<1>13. LeftStored'
  BY <1>1 DEF IInv, LeftStored
<1>14. EndsKnown' /\ AnswersAreTrue'
  BY <1>1, <1>7 DEF IInv, EndsKnown, AnswersAreTrue
<1> QED BY <1>8, <1>9, <1>10, <1>11, <1>12, <1>13, <1>14 DEF IInv

(* What reading a frame does to the ring. *)
LEMMA RingShrinks ==
    ASSUME IInv, NEW f, Reads(f)
    PROVE  /\ Len(ring) \in Nat /\ Len(ring) >= 1 /\ DOMAIN ring = 1 .. Len(ring)
           /\ f = ring[1] /\ f = Head(ring) /\ f \in Frames /\ rxError = 0
           /\ ring' \in Seq(Frames) /\ Len(ring') = Len(ring) - 1 /\ DOMAIN ring' = 1 .. Len(ring')
           /\ \A j \in DOMAIN ring' : j + 1 \in DOMAIN ring /\ ring'[j] = ring[j + 1]
           /\ Len(ring) = 1 => ring' = <<>>
           /\ UNCHANGED <<rxError, lost>>
           /\ \A j \in DOMAIN ring' : ring'[j].cmd = "RESET" => ~Resetting /\ j = Len(ring') /\ Quiet
<1>1. ring # <<>> /\ ring \in Seq(Frames) /\ ring' = Tail(ring) /\ f = Head(ring)
      /\ rxError = 0 /\ UNCHANGED <<rxError, lost>>
  BY DEF Reads, IInv, TypeOK
<1>2. /\ Len(ring) \in Nat /\ Len(ring) >= 1 /\ DOMAIN ring = 1 .. Len(ring)
      /\ f = ring[1] /\ f \in Frames
      /\ ring' \in Seq(Frames) /\ Len(ring') = Len(ring) - 1 /\ DOMAIN ring' = 1 .. Len(ring')
      /\ \A j \in DOMAIN ring' : j + 1 \in DOMAIN ring /\ ring'[j] = ring[j + 1]
      /\ Len(ring) = 1 => ring' = <<>>
  BY <1>1, Shifted
<1>3. ASSUME NEW j \in DOMAIN ring', ring'[j].cmd = "RESET"
      PROVE  ~Resetting /\ j = Len(ring') /\ Quiet
  <2>1. j + 1 \in DOMAIN ring /\ ring[j + 1].cmd = "RESET"
    BY <1>2, <1>3
  <2>2. ~Resetting /\ j + 1 = Len(ring) /\ Quiet
    BY <2>1 DEF IInv, Boundary
  <2> QED BY <1>2, <2>2
<1> QED BY <1>1, <1>2, <1>3

(* The RESET reply is read. *)
LEMMA ResetReplyRead ==
    ASSUME IInv, Head(ring).cmd = "RESET", Reads(Head(ring))
    PROVE  ring' = <<>> /\ ~Resetting /\ Quiet
<1>1. /\ Len(ring) \in Nat /\ Len(ring) >= 1 /\ DOMAIN ring = 1 .. Len(ring)
      /\ Head(ring) = ring[1] /\ Len(ring) = 1 => ring' = <<>>
  BY RingShrinks
<1> QED BY <1>1 DEF IInv, Boundary

LEMMA SkipReplyInv == ASSUME IInv, SkipReply PROVE IInv'
<1>1. /\ UNCHANGED <<hpc, call, ret, cleanup, out, taken, commands, working, db>>
      /\ Reads(Head(ring)) /\ Head(ring).cmd \notin {Awaited, "BAD"} /\ Waiting
  BY DEF SkipReply, hostVars, sensorVars
<1>2. /\ Len(ring) >= 1 /\ DOMAIN ring = 1 .. Len(ring) /\ Len(ring) \in Nat
      /\ Head(ring) = ring[1]
      /\ ring' \in Seq(Frames) /\ UNCHANGED <<rxError, lost>>
      /\ \A j \in DOMAIN ring' : ring'[j].cmd = "RESET" => ~Resetting /\ j = Len(ring') /\ Quiet
  BY <1>1, RingShrinks
<1>3. hpc \in {"reset", "cleanup"}
  BY <1>1, <1>2 DEF IInv, OwnFrames, Awaited, Waiting
<1>4. TypeOK' /\ OneCommand' /\ LeftStored' /\ EndsKnown' /\ AnswersAreTrue'
  BY <1>1, <1>2 DEF IInv, TypeOK, OneCommand, LeftStored, EndsKnown, AnswersAreTrue
<1>5. Boundary'
  BY <1>1, <1>2 DEF Boundary, Resetting, Quiet
<1>6. OwnWork'
  BY <1>1 DEF IInv, OwnWork, Own
<1>7. OwnFrames' /\ PagesAccounted' /\ ListIsComplete' /\ QuietWhenDone'
  BY <1>1, <1>3 DEF OwnFrames, PagesAccounted, ListIsComplete, QuietWhenDone
<1> QED BY <1>4, <1>5, <1>6, <1>7 DEF IInv

LEMMA WaitFailsInv == ASSUME IInv, WaitFails PROVE IInv'
<1>1. PICK r \in Failures :
        /\ \/ Reads(BadFrame)
           \/ UNCHANGED rxVars
        /\ IF hpc = "cleanup"
           THEN ret' = r /\ cleanup' = r /\ hpc' = "idle"
           ELSE Finish(r) /\ UNCHANGED cleanup
  BY DEF WaitFails
<1>2. /\ UNCHANGED <<call, out, taken, commands, working, db>>
      /\ hpc \in {"reset", "command", "cleanup"} /\ call \in Calls
  BY DEF WaitFails, sensorVars, Waiting, IInv, TypeOK
<1>3. /\ ring' \in Seq(Frames) /\ UNCHANGED <<rxError, lost>>
      /\ \A j \in DOMAIN ring' : ring'[j].cmd = "RESET" => ~Resetting /\ j = Len(ring') /\ Quiet
  <2>1. CASE Reads(BadFrame)
    BY <2>1, RingShrinks
  <2>2. CASE UNCHANGED rxVars
    BY <2>2 DEF IInv, TypeOK, Boundary, rxVars
  <2> QED BY <1>1, <2>1, <2>2
<1>4. /\ ret' = r /\ r # "OK"
      /\ hpc' \in {"idle", "finished"}
      /\ hpc' = "finished" => call.kind \in AsyncKinds \cup {"match"}
      /\ hpc' = "idle" /\ call.kind \in AsyncKinds => cleanup' = r
      /\ cleanup' \in {cleanup, r}
  BY <1>1 DEF Finish, Failures
<1>5. TypeOK'
  BY <1>2, <1>3, <1>4 DEF IInv, TypeOK, HostPoints, Failures
<1>6. Boundary'
  BY <1>2, <1>3 DEF Boundary, Resetting, Quiet
<1>7. OwnWork'
  BY <1>2, <1>4 DEF IInv, OwnWork, Own
<1>8. OwnFrames' /\ PagesAccounted'
  BY <1>4 DEF OwnFrames, PagesAccounted
<1>9. OneCommand' /\ LeftStored'
  BY <1>2 DEF IInv, OneCommand, LeftStored
<1>10. EndsKnown'
  BY <1>2, <1>4 DEF IInv, EndsKnown
<1>11. AnswersAreTrue' /\ ListIsComplete'
  BY <1>2, <1>4 DEF IInv, AnswersAreTrue, ListIsComplete
<1>12. QuietWhenDone'
  BY <1>2, <1>4 DEF QuietWhenDone
<1> QED BY <1>5, <1>6, <1>7, <1>8, <1>9, <1>10, <1>11, <1>12 DEF IInv

LEMMA ResetAcknowledgedInv == ASSUME IInv, ResetAcknowledged PROVE IInv'
<1> DEFINE e == [cmd |-> Command(call.kind), of |-> call]
<1>1. /\ UNCHANGED <<call, cleanup, out, taken, working, db>>
      /\ hpc = "reset" /\ call \in Calls /\ Head(ring).cmd = "RESET" /\ Reads(Head(ring))
      /\ \/ commands' = Append(commands, e) /\ hpc' = "command" /\ UNCHANGED ret
         \/ hpc' = "finished" /\ ret' = "ECANCELED" /\ call.kind \in AsyncKinds /\ UNCHANGED commands
  BY DEF ResetAcknowledged, sensorVars, IInv, TypeOK, Send, Finish
<1>2. /\ ring' = <<>> /\ ring' \in Seq(Frames) /\ DOMAIN ring' = {} /\ UNCHANGED <<rxError, lost>>
  BY <1>1, ResetReplyRead, RingShrinks
<1>3. commands = <<>> /\ working = Nothing /\ DOMAIN commands = {} /\ ~Resetting
  BY <1>1, ResetReplyRead, EmptySeq DEF Quiet, Resetting
<1>4. taken = 0 /\ out = {}
  BY <1>1 DEF IInv, EndsKnown
<1>5. e \in Commands /\ e.cmd # "RESET" /\ e.cmd = Command(call.kind) /\ e.of = call
  BY <1>1, CallTyped, CommandOf DEF Commands
<1> HIDE DEF e
<1>6. Boundary' /\ PagesAccounted'
  <2>1. Boundary'
    BY <1>2 DEF Boundary
  <2>2. hpc' = "command" => commands' # <<>>
    BY <1>1, <1>5, AppendProperties DEF IInv, TypeOK
  <2> QED BY <2>1, <2>2 DEF PagesAccounted
<1>7. LeftStored' /\ EndsKnown'
  BY <1>1, <1>4 DEF IInv, LeftStored, EndsKnown
<1>8. AnswersAreTrue' /\ ListIsComplete' /\ QuietWhenDone'
  BY <1>1, <1>4 DEF AnswersAreTrue, ListIsComplete, QuietWhenDone
<1>9. CASE commands' = Append(commands, e) /\ hpc' = "command" /\ UNCHANGED ret
  <2>1. /\ commands' \in Seq(Commands) /\ Len(commands') = 1 /\ DOMAIN commands' = 1 .. 1
        /\ commands'[1] = e
    <3>1. /\ Len(commands) = 0 /\ commands' \in Seq(Commands)
          /\ Len(commands') = Len(commands) + 1 /\ DOMAIN commands' = 1 .. Len(commands')
          /\ commands'[Len(commands')] = e
      BY <1>3, <1>5, <1>9, Appended, EmptySeq DEF IInv, TypeOK
    <3> QED BY <3>1
  <2>2. \A i \in DOMAIN commands' : i = 1 /\ commands'[i] = e
    BY <2>1
  <2>3. TypeOK'
    BY <1>1, <1>2, <1>9, <2>1 DEF IInv, TypeOK, HostPoints
  <2>4. OneCommand'
    BY <1>1, <1>3, <1>5, <2>2 DEF OneCommand
  <2>5. OwnWork'
    BY <1>1, <1>3, <1>4, <1>5, <2>2 DEF OwnWork
  <2>6. OwnFrames'
    <3>1. ~Resetting'
      BY <1>5, <2>2 DEF Resetting
    <3> QED BY <1>1, <1>2, <1>4, <3>1 DEF OwnFrames
  <2> QED BY <1>6, <1>7, <1>8, <2>3, <2>4, <2>5, <2>6 DEF IInv
<1>10. CASE hpc' = "finished" /\ ret' = "ECANCELED" /\ call.kind \in AsyncKinds /\ UNCHANGED commands
  <2>1. TypeOK'
    BY <1>1, <1>2, <1>10 DEF IInv, TypeOK, HostPoints, Failures
  <2>2. OneCommand' /\ OwnWork' /\ OwnFrames'
    BY <1>1, <1>4, <1>10 DEF IInv, OneCommand, OwnWork, Own, OwnFrames
  <2> QED BY <1>6, <1>7, <1>8, <2>1, <2>2 DEF IInv
<1> QED BY <1>1, <1>9, <1>10

LEMMA CleanupAcknowledgedInv == ASSUME IInv, CleanupAcknowledged PROVE IInv'
<1>1. /\ UNCHANGED <<call, ret, cleanup, out, taken, commands, working, db>>
      /\ hpc = "cleanup" /\ hpc' = "idle" /\ Head(ring).cmd = "RESET" /\ Reads(Head(ring))
      /\ call \in Calls
  BY DEF CleanupAcknowledged, sensorVars, IInv, TypeOK
<1>2. ring' = <<>> /\ ring' \in Seq(Frames) /\ DOMAIN ring' = {} /\ UNCHANGED <<rxError, lost>>
  BY <1>1, ResetReplyRead, RingShrinks
<1>3. Quiet
  BY <1>1, ResetReplyRead
<1>4. call.kind \in AsyncKinds \cup {"match"}
  BY <1>1 DEF IInv, EndsKnown
<1>5. TypeOK'
  BY <1>1, <1>2 DEF IInv, TypeOK, HostPoints
<1>6. OneCommand' /\ OwnWork' /\ LeftStored' /\ EndsKnown'
  BY <1>1 DEF IInv, OneCommand, OwnWork, Own, LeftStored, EndsKnown
<1>7. Boundary' /\ OwnFrames' /\ PagesAccounted'
  BY <1>1, <1>2 DEF Boundary, OwnFrames, PagesAccounted
<1>8. AnswersAreTrue' /\ ListIsComplete'
  BY <1>1, <1>4 DEF IInv, AnswersAreTrue, ListIsComplete, AsyncKinds
<1>9. QuietWhenDone'
  BY <1>1, <1>3 DEF QuietWhenDone, Quiet
<1> QED BY <1>5, <1>6, <1>7, <1>8, <1>9 DEF IInv

(* The call takes an answer: by OwnFrames one to its own command, and a final one *)
(* only when nothing is to follow.                                                *)
LEMMA AcceptReplyInv == ASSUME IInv, AcceptReply PROVE IInv'
<1> DEFINE f == Head(ring)
<1>1. /\ UNCHANGED <<call, cleanup, commands, working, db>>
      /\ hpc = "command" /\ call \in Calls /\ f.cmd = Command(call.kind) /\ Reads(f)
      /\ taken' = f.n
      /\ out' = IF call.kind = "list" THEN out \cup f.ids ELSE f.ids
  BY DEF AcceptReply, Answers, sensorVars, IInv, TypeOK
<1>2. \/ /\ UNCHANGED <<hpc, ret>>
         /\ call.kind = "identify_continuous" \/ (call.kind = "list" /\ ~LastPage(f))
      \/ /\ hpc' = "finished" /\ call.kind \in AsyncKinds \cup {"match"}
         /\ ret' \in {"OK", "EBUSY", "ENOENT", "ENOMEM"}
      \/ /\ hpc' = "idle" /\ call.kind \in {"list", "delete"}
         /\ ret' \in {"OK", "EBUSY", "ENOENT", "ENOMEM"}
         /\ call.kind = "list" /\ ret' = "OK" => LastPage(f)
  <2> DEFINE goesOn == call.kind = "identify_continuous" \/ (call.kind = "list" /\ ~LastPage(f))
  <2>1. \/ UNCHANGED <<hpc, ret>> /\ goesOn
        \/ \E r \in {"EBUSY", "ENOENT", "ENOMEM", "OK"} : Finish(r) /\ (r = "OK" => ~goesOn)
    <3>1. CASE f.status = "REJECTED"
      <4>1. Finish("EBUSY")
        BY <3>1 DEF AcceptReply
      <4> QED BY <4>1
    <3>2. CASE f.status = "UNKNOWN_USER" /\ call.kind \notin {"identify", "identify_continuous"}
      <4>1. Finish("ENOENT")
        BY <3>2 DEF AcceptReply
      <4> QED BY <4>1
    <3>3. CASE /\ f.status # "REJECTED"
               /\ ~(f.status = "UNKNOWN_USER" /\ call.kind \notin {"identify", "identify_continuous"})
      <4>1. CASE goesOn
        <5>1. UNCHANGED <<hpc, ret>>
          BY <3>3, <4>1 DEF AcceptReply
        <5> QED BY <4>1, <5>1
      <4>2. CASE ~goesOn
        <5>1. Finish("ENOMEM") \/ Finish("OK")
          BY <3>3, <4>2 DEF AcceptReply
        <5> QED BY <4>2, <5>1
      <4> QED BY <4>1, <4>2
    <3> QED BY <3>1, <3>2, <3>3
  <2>2. ASSUME NEW r, Finish(r)
        PROVE  /\ ret' = r
               /\ \/ hpc' = "finished" /\ call.kind \in AsyncKinds \cup {"match"}
                  \/ hpc' = "idle" /\ call.kind \in {"list", "delete"}
    BY <1>1, <2>2, CallTyped DEF Finish, Kinds
  <2>3. ASSUME NEW r \in {"EBUSY", "ENOENT", "ENOMEM", "OK"}, Finish(r), r = "OK" => ~goesOn
        PROVE  \/ /\ hpc' = "finished" /\ call.kind \in AsyncKinds \cup {"match"}
                  /\ ret' \in {"OK", "EBUSY", "ENOENT", "ENOMEM"}
               \/ /\ hpc' = "idle" /\ call.kind \in {"list", "delete"}
                  /\ ret' \in {"OK", "EBUSY", "ENOENT", "ENOMEM"}
                  /\ call.kind = "list" /\ ret' = "OK" => LastPage(f)
    BY <2>2, <2>3
  <2>4. CASE UNCHANGED <<hpc, ret>> /\ goesOn
    BY <2>4
  <2>5. CASE \E r \in {"EBUSY", "ENOENT", "ENOMEM", "OK"} : Finish(r) /\ (r = "OK" => ~goesOn)
    <3>1. PICK r \in {"EBUSY", "ENOENT", "ENOMEM", "OK"} : Finish(r) /\ (r = "OK" => ~goesOn)
      BY <2>5
    <3> QED BY <2>3, <3>1
  <2> QED BY <2>1, <2>4, <2>5
<1>3. /\ Len(ring) \in Nat /\ Len(ring) >= 1 /\ DOMAIN ring = 1 .. Len(ring)
      /\ f = ring[1] /\ f \in Frames /\ rxError = 0
      /\ ring' \in Seq(Frames) /\ Len(ring') = Len(ring) - 1 /\ DOMAIN ring' = 1 .. Len(ring')
      /\ \A j \in DOMAIN ring' : j + 1 \in DOMAIN ring /\ ring'[j] = ring[j + 1]
      /\ UNCHANGED <<rxError, lost>>
      /\ \A j \in DOMAIN ring' : ring'[j].cmd = "RESET" => ~Resetting /\ j = Len(ring') /\ Quiet
  BY <1>1, RingShrinks
<1>4. /\ f.cmd # "BAD" /\ f.n = call.n /\ f.n \in Numbers /\ f.n # 0 /\ f.ids \subseteq db
      /\ f.ids \in SUBSET Ids
      /\ FinalFrame(f) => Len(ring) = 1 /\ Quiet
      /\ call.kind = "delete" => f.ids = {} /\ call.ids \cap db = {}
      /\ ring # <<>> /\ ~Resetting /\ commands = <<>>
  <2>1. f.cmd # "BAD" /\ ring # <<>>
    BY <1>1, CallTyped, CommandOf DEF Reads
  <2>2. 1 \in DOMAIN ring
    BY <1>3
  <2>3. f.ids \in SUBSET Ids
    BY <1>3 DEF Frames
  <2> QED BY <1>1, <1>3, <2>1, <2>2, <2>3, CallTyped DEF IInv, OwnFrames
<1>5. FinalFrame(f) <=> \/ call.kind \in {"identify", "match", "enroll", "delete"}
                        \/ call.kind = "list" /\ LastPage(f)
  <2>1. call.kind = "list" => f.cmd = "LIST"
    BY <1>1, CommandOf
  <2> QED BY <2>1 DEF FinalFrame
<1> HIDE DEF f
<1>6. TypeOK'
  <2>1. out' \in SUBSET Ids
    BY <1>1, <1>4 DEF IInv, TypeOK
  <2>2. hpc' \in HostPoints /\ ret' \in Failures \cup {"OK", "EBUSY", "ENOENT", "ENOMEM"}
    BY <1>1, <1>2 DEF IInv, TypeOK, HostPoints
  <2> QED BY <1>1, <1>3, <1>4, <2>1, <2>2 DEF IInv, TypeOK
<1>7. OneCommand' /\ LeftStored'
  BY <1>1 DEF IInv, OneCommand, LeftStored
<1>8. Boundary'
  BY <1>1, <1>3 DEF Boundary, Resetting, Quiet
<1>9. OwnWork'
  BY <1>1, <1>4 DEF IInv, OwnWork, Own
<1>10. OwnFrames'
  <2> SUFFICES ASSUME hpc' = "command" PROVE OwnFrames'
    BY DEF OwnFrames
  <2>1. ~Resetting' /\ commands' = <<>>
    BY <1>1, <1>4 DEF Resetting
  <2>2. ASSUME NEW j \in DOMAIN ring'
        PROVE  /\ ring'[j].cmd \in {"BAD", Command(call.kind)}
               /\ FinalFrame(ring'[j]) => j = Len(ring') /\ Quiet
               /\ ring'[j].cmd # "BAD" => /\ ring'[j].n = call.n /\ ring'[j].ids \subseteq db
                                          /\ call.kind = "delete" =>
                                                 ring'[j].ids = {} /\ call.ids \cap db = {}
    <3>1. j + 1 \in DOMAIN ring /\ ring'[j] = ring[j + 1]
      BY <1>3
    <3>2. FinalFrame(ring'[j]) => j + 1 = Len(ring) /\ Quiet
      BY <1>1, <3>1 DEF IInv, OwnFrames
    <3>3. j + 1 = Len(ring) => j = Len(ring')
      BY <1>3
    <3> QED BY <1>1, <3>1, <3>2, <3>3 DEF IInv, OwnFrames
  <2>3. \A j \in DOMAIN ring' : FinalFrame(ring[j])' <=> FinalFrame(ring'[j])
    BY <1>1 DEF FinalFrame, LastPage
  <2>4. Quiet' <=> Quiet
    BY <1>1 DEF Quiet
  <2> QED BY <1>1, <2>1, <2>2, <2>3, <2>4 DEF OwnFrames
<1>11. ASSUME call.kind = "list", lost = 0, \A j \in DOMAIN ring : ring[j].cmd # "BAD"
       PROVE  \A x \in db : \/ x \in out' \/ x \in working.left
                            \/ \E j \in DOMAIN ring' : x \in ring'[j].ids
  <2> SUFFICES ASSUME NEW x \in db, x \notin out', x \notin working.left
               PROVE  \E j \in DOMAIN ring' : x \in ring'[j].ids
    OBVIOUS
  <2>1. x \notin out /\ x \notin ring[1].ids
    BY <1>1, <1>3, <1>11
  <2>2. PICK j \in DOMAIN ring : x \in ring[j].ids
    BY <1>1, <1>3, <1>4, <1>11, <2>1 DEF IInv, PagesAccounted
  <2>3. j # 1
    BY <2>1, <2>2
  <2>4. j - 1 \in DOMAIN ring' /\ ring'[j - 1] = ring[j]
    <3>1. j \in 1 .. Len(ring)
      BY <1>3
    <3>2. j - 1 \in DOMAIN ring'
      BY <1>3, <2>3, <3>1
    <3>3. ring'[j - 1] = ring[(j - 1) + 1]
      BY <1>3, <3>2
    <3> QED BY <3>1, <3>2, <3>3
  <2> QED BY <2>2, <2>4
<1>12. PagesAccounted'
  <2> SUFFICES ASSUME call.kind = "list", lost = 0, \A j \in DOMAIN ring' : ring'[j].cmd # "BAD"
               PROVE  \A x \in db : \/ x \in out' \/ x \in working.left
                                    \/ \E j \in DOMAIN ring' : x \in ring'[j].ids
    BY <1>1, <1>3 DEF PagesAccounted
  <2>1. \A j \in DOMAIN ring : ring[j].cmd # "BAD"
    <3> TAKE j \in DOMAIN ring
    <3>1. CASE j = 1
      BY <1>3, <1>4, <3>1
    <3>2. CASE j # 1
      <4>1. j \in 1 .. Len(ring)
        BY <1>3
      <4>2. j - 1 \in DOMAIN ring' /\ (j - 1) + 1 = j
        BY <1>3, <3>2, <4>1
      <4>3. ring'[j - 1] = ring[j]
        BY <1>3, <4>2
      <4> QED BY <4>2, <4>3
    <3> QED BY <3>1, <3>2
  <2> QED BY <1>11, <2>1
<1>13. EndsKnown'
  BY <1>1, <1>2, <1>4 DEF IInv, EndsKnown
<1>14. AnswersAreTrue'
  <2>1. out' \subseteq db
    BY <1>1, <1>4 DEF IInv, AnswersAreTrue
  <2> QED BY <1>1, <1>4, <2>1 DEF AnswersAreTrue
<1>15. ASSUME hpc' = "idle", ret' = "OK" PROVE FinalFrame(f) /\ Len(ring) = 1 /\ Quiet
  <2>1. hpc' # hpc /\ call.kind \in {"list", "delete"} /\ (call.kind = "list" => LastPage(f))
    BY <1>1, <1>2, <1>15
  <2>2. FinalFrame(f)
    BY <1>5, <2>1
  <2> QED BY <1>4, <2>2
<1>16. ListIsComplete'
  <2> SUFFICES ASSUME hpc' = "idle", call.kind = "list", ret' = "OK", lost = 0 PROVE out' = db
    BY <1>1, <1>3 DEF ListIsComplete
  <2>1. Len(ring) = 1 /\ Quiet
    BY <1>15
  <2>2. DOMAIN ring' = {} /\ (\A j \in DOMAIN ring : ring[j].cmd # "BAD")
    BY <1>3, <1>4, <2>1
  <2>3. working.left = {}
    BY <2>1 DEF Quiet, Nothing
  <2>4. db \subseteq out'
    BY <1>11, <2>2, <2>3
  <2> QED BY <1>1, <1>14, <2>4 DEF AnswersAreTrue
<1>17. QuietWhenDone'
  <2> SUFFICES ASSUME hpc' = "idle", ret' = "OK" \/ call.kind \in AsyncKinds
               PROVE  Quiet
    BY <1>1 DEF QuietWhenDone, Quiet
  <2>1. call.kind \notin AsyncKinds
    BY <1>1, <1>2 DEF AsyncKinds
  <2> QED BY <1>15, <2>1
<1> QED BY <1>6, <1>7, <1>8, <1>9, <1>10, <1>12, <1>13, <1>14, <1>16, <1>17 DEF IInv

(* The inductive invariant holds of every behaviour in which no RESET is sent while *)
(* another one is unanswered, whatever the sensor, the line and the caller do.      *)
THEOREM Invariance == ASSUME Slack = 0 PROVE Spec => []IInv
<1>1. Init => IInv
  <2> SUFFICES ASSUME Init PROVE IInv
    OBVIOUS
  <2>1. DOMAIN commands = {} /\ DOMAIN ring = {}
        /\ commands \in Seq(Commands) /\ ring \in Seq(Frames)
    BY EmptySeq, LenProperties DEF Init
  <2>2. TypeOK
    BY <2>1 DEF Init, TypeOK, HostPoints
  <2>3. OneCommand /\ Boundary /\ OwnWork /\ OwnFrames /\ PagesAccounted
    BY <2>1 DEF Init, OneCommand, Boundary, OwnWork, Own, OwnFrames, PagesAccounted
  <2>4. LeftStored /\ EndsKnown /\ AnswersAreTrue /\ ListIsComplete /\ QuietWhenDone
    BY DEF Init, Nothing, NoCall, LeftStored, EndsKnown, AnswersAreTrue, ListIsComplete,
           QuietWhenDone, AsyncKinds
  <2> QED BY <2>2, <2>3, <2>4 DEF IInv
<1>2. IInv /\ [Next]_vars => IInv'
  <2> SUFFICES ASSUME IInv, [Next]_vars PROVE IInv'
    OBVIOUS
  <2>1. CASE Sensor
    BY <2>1, SensorTakesInv, SensorAnswersInv DEF Sensor
  <2>2. CASE Start \/ SendCleanup
    BY <2>2, ResetSentInv
  <2>3. CASE SkipReply
    BY <2>3, SkipReplyInv
  <2>4. CASE WaitFails
    BY <2>4, WaitFailsInv
  <2>5. CASE ResetAcknowledged
    BY <2>5, ResetAcknowledgedInv
  <2>6. CASE AcceptReply
    BY <2>6, AcceptReplyInv
  <2>7. CASE CleanupAcknowledged
    BY <2>7, CleanupAcknowledgedInv
  <2>8. CASE UNCHANGED vars
    <3>1. UNCHANGED <<hpc, call, ret, cleanup, out, taken, commands, working, db, ring, rxError, lost>>
      BY <2>8 DEF vars, hostVars, sensorVars, rxVars
    <3>2. TypeOK' /\ OneCommand' /\ Boundary' /\ OwnWork'
      BY <3>1 DEF IInv, TypeOK, OneCommand, Boundary, OwnWork, Own, Resetting, Quiet
    <3>3. OwnFrames' /\ PagesAccounted' /\ LeftStored' /\ EndsKnown'
      BY <3>1 DEF IInv, OwnFrames, PagesAccounted, LeftStored, EndsKnown, Resetting, Quiet,
                  FinalFrame, LastPage
    <3>4. AnswersAreTrue' /\ ListIsComplete' /\ QuietWhenDone'
      BY <3>1 DEF IInv, AnswersAreTrue, ListIsComplete, QuietWhenDone
    <3> QED BY <3>2, <3>3, <3>4 DEF IInv
  <2> QED BY <2>1, <2>2, <2>3, <2>4, <2>5, <2>6, <2>7, <2>8 DEF Next, Driver
<1> QED BY <1>1, <1>2, PTL DEF Spec

(* No operation takes an answer to the command of an earlier one. *)
THEOREM Fresh == ASSUME Slack = 0 PROVE Spec => []ReplyIsFresh
<1>1. IInv => ReplyIsFresh
  BY DEF IInv, OwnWork, ReplyIsFresh
<1> QED BY <1>1, Invariance, PTL

(* What an operation answers is true of the sensor. *)
THEOREM TrueAnswers == ASSUME Slack = 0 PROVE Spec => []AnswersAreTrue
<1>1. IInv => AnswersAreTrue
  BY DEF IInv
<1> QED BY <1>1, Invariance, PTL

(* A listing that returned 0 reported every template, if the line lost no page. *)
THEOREM CompleteList == ASSUME Slack = 0 PROVE Spec => []ListIsComplete
<1>1. IInv => ListIsComplete
  BY DEF IInv
<1> QED BY <1>1, Invariance, PTL

(* After an operation whose last exchange succeeded the sensor has nothing to do. *)
THEOREM QuietAfter == ASSUME Slack = 0 PROVE Spec => []QuietWhenDone
<1>1. IInv => QuietWhenDone
  BY DEF IInv
<1> QED BY <1>1, Invariance, PTL

(* An operation never starts under the name of one that still has a command in the *)
(* sensor, so the theorems above do tell operations apart: at most one other       *)
(* command is under way when RESET is sent.                                        *)
THEOREM NamesDiffer == ASSUME Slack = 0 PROVE Spec => [][Start => call'.n \notin InUse]_vars
<1>1. ASSUME IInv, Start PROVE call'.n \notin InUse
  <2>1. /\ call'.n = CHOOSE n \in Numbers : n \notin InUse
        /\ Unanswered <= Slack
    BY <1>1 DEF Start, SendReset
  <2>2. ~Resetting
    BY <1>1, <2>1, NoneUnanswered DEF IInv
  <2>3. \A i \in DOMAIN commands : i = 1 /\ working = Nothing
    BY <1>1, <2>2 DEF IInv, OneCommand, Resetting
  <2>4. Nothing.of.n = 0
    BY DEF Nothing, NoCall
  <2>5. \E k : \A n \in InUse : n \in {k, 0}
    <3>1. CASE DOMAIN commands = {}
      BY <3>1 DEF InUse
    <3>2. CASE DOMAIN commands # {}
      <4>1. \A n \in InUse : n \in {commands[1].of.n, 0}
        BY <2>3, <2>4, <3>2 DEF InUse
      <4> QED BY <4>1
    <3> QED BY <3>1, <3>2
  <2>6. \E n \in Numbers : n \notin InUse
    BY <2>5, LinkAssumption
  <2> QED BY <2>1, <2>6
<1>2. IInv /\ [Next]_vars => [Start => call'.n \notin InUse]_vars
  BY <1>1
<1> QED BY <1>2, Invariance, PTL DEF Spec
=============================================================================
