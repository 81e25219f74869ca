--------------------------- MODULE ProgressProofs --------------------------
(***************************************************************************)
(* Theorems about the machines that must get somewhere: the research       *)
(* interview, the event relay, the surfaces that show the log, the         *)
(* learning spine. Each holds for any constants its machine assumes. The   *)
(* machines share no variable; each part below is about one of them.       *)
(***************************************************************************)
EXTENDS Interview, EventRelay, ProgressTail, RetroSpine, SequenceFacts, FiniteSetTheorems

-----------------------------------------------------------------------------
(***************************************************************************)
(* Interview: an answer is heard by the question it was given to, or by    *)
(* one that another run of the correlation asked under the same id. The    *)
(* argument: a run numbers its own questions apart (AskedApart), since its *)
(* counter moves on with each answer and stands still only when no more    *)
(* questions follow.                                                       *)
(***************************************************************************)
Question == [id : Ids, by : Interviews]

AnswerEntry == [id : Ids, to : Nat \ {0}]

AskedBy(i) == {k \in DOMAIN questions : questions[k].by = i}

\* the numbers of a run's questions: all apart, none above its counter, and
\* below it whenever the run may still ask
AskedApart(i) ==
    /\ \A k \in AskedBy(i) : questions[k].id.number <= interview[i].asked
    /\ interview[i].doing \in {"off", "eliciting", "replied"} =>
          \A k \in AskedBy(i) : questions[k].id.number < interview[i].asked
    /\ interview[i].doing \in {"replied", "waiting"} => interview[i].asked < MaxQuestions
    /\ interview[i].doing = "waiting" => AskedBy(i) # {}
    /\ \A j, k \in AskedBy(i) : questions[j].id.number = questions[k].id.number => j = k

IdsAreTrue ==
    /\ \A k \in DOMAIN questions : questions[k].id.of = CorrelationOf[questions[k].by]
    /\ \A k \in DOMAIN answers : answers[k].id = questions[answers[k].to].id

\* answer m[2] was given to question m[1], or to another run's
WasFresh(i, m) ==
    LET a == answers[m[2]]
    IN  \/ a.to = m[1]
        \/ /\ questions[a.to].by # i
           /\ CorrelationOf[questions[a.to].by] = CorrelationOf[i]

HeardFresh == \A i \in Interviews : \A n \in DOMAIN heard[i] : WasFresh(i, heard[i][n])

InterviewInv ==
    /\ InterviewTypeOK
    /\ IdsAreTrue
    /\ \A i \in Interviews : AskedApart(i)
    /\ HeardFresh

InterviewFrame == [doing : Stages, asked : 0 .. MaxQuestions, retried : BOOLEAN, confirming : BOOLEAN]

\* a run that waits for an answer has asked
LEMMA OpenIsOwn ==
    ASSUME InterviewInv, NEW i \in Interviews, Doing(i, "waiting")
    PROVE  Open(i) \in AskedBy(i)
<1>1. AskedBy(i) # {} /\ AskedBy(i) \subseteq 1 .. Len(questions) /\ Len(questions) \in Nat
  <2>1. DOMAIN questions = 1 .. Len(questions) /\ Len(questions) \in Nat
    BY Positions DEF InterviewInv, InterviewTypeOK
  <2>2. AskedBy(i) # {}
    BY DEF InterviewInv, AskedApart, Doing
  <2>3. QED
    BY <2>1, <2>2 DEF AskedBy
<1>2. \E k \in AskedBy(i) : \A j \in AskedBy(i) : j <= k
  BY <1>1, LargestExists
<1>3. QED
  BY <1>2 DEF Open, AskedBy

\* what was fresh stays so, whatever is asked and answered later
LEMMA StaysFresh ==
    ASSUME InterviewTypeOK, NEW i \in Interviews, NEW m \in (DOMAIN questions) \X (DOMAIN answers),
           WasFresh(i, m),
           \A k \in DOMAIN questions : questions'[k] = questions[k],
           \A k \in DOMAIN answers : answers'[k] = answers[k]
    PROVE  WasFresh(i, m)'
<1>1. m[2] \in DOMAIN answers
  OBVIOUS
<1>2. answers'[m[2]] = answers[m[2]]
  BY <1>1
<1>3. answers[m[2]].to \in DOMAIN questions
  BY <1>1 DEF InterviewTypeOK
<1>4. questions'[answers[m[2]].to] = questions[answers[m[2]].to]
  BY <1>3
<1>5. QED
  BY <1>2, <1>4 DEF WasFresh

LEMMA HeardStaysFresh ==
    ASSUME InterviewInv, UNCHANGED heard,
           \A k \in DOMAIN questions : questions'[k] = questions[k],
           \A k \in DOMAIN answers : answers'[k] = answers[k]
    PROVE  HeardFresh'
<1> SUFFICES ASSUME NEW i \in Interviews, NEW n \in DOMAIN heard[i] PROVE WasFresh(i, heard[i][n])'
  BY DEF HeardFresh
<1>1. PICK m : m = heard[i][n]
  OBVIOUS
<1>2. m \in (DOMAIN questions) \X (DOMAIN answers)
  <2>1. heard[i] \in Seq((DOMAIN questions) \X (DOMAIN answers))
    BY DEF InterviewInv, InterviewTypeOK
  <2>2. QED
    BY <1>1, <2>1, Positions
<1>3. WasFresh(i, m)
  BY <1>1 DEF InterviewInv, HeardFresh
<1>4. WasFresh(i, m)'
  BY <1>2, <1>3, StaysFresh DEF InterviewInv
<1>5. m = heard'[i][n]
  BY <1>1
<1>6. QED
  BY <1>4, <1>5 DEF WasFresh

\* a step of one run that asks nothing and hears nothing
LEMMA RunMovesOn ==
    ASSUME InterviewInv, NEW i \in Interviews,
           UNCHANGED <<questions, answers, heard>>,
           \A j \in Interviews : j # i => interview'[j] = interview[j],
           interview'[i].asked = interview[i].asked,
           \/ interview'[i].doing \in {"drafting", "announcing", "over"}
           \/ /\ interview[i].doing \in {"off", "eliciting", "replied"}
              /\ \/ interview'[i].doing = "eliciting"
                 \/ interview'[i].doing = "replied" /\ interview[i].asked < MaxQuestions
    PROVE  IdsAreTrue' /\ (\A j \in Interviews : AskedApart(j)') /\ HeardFresh'
<1>1. IdsAreTrue'
  BY DEF InterviewInv, IdsAreTrue
<1>2. HeardFresh'
  BY HeardStaysFresh
<1>3. ASSUME NEW j \in Interviews PROVE AskedApart(j)'
  <2>1. CASE j # i
    BY <2>1 DEF InterviewInv, AskedApart, AskedBy
  <2>2. CASE j = i
    BY <2>2 DEF InterviewInv, AskedApart, AskedBy
  <2>3. QED
    BY <2>1, <2>2
<1>4. QED
  BY <1>1, <1>2, <1>3

\* a step that says only what the run does next
LEMMA TurnGoes ==
    ASSUME InterviewTypeOK, NEW i \in Interviews, NEW next \in Stages, Turn(i, next)
    PROVE  /\ interview' \in [Interviews -> InterviewFrame]
           /\ \A j \in Interviews : j # i => interview'[j] = interview[j]
           /\ interview'[i].asked = interview[i].asked
           /\ interview'[i].doing = next
<1>1. interview \in [Interviews -> InterviewFrame]
  BY DEF InterviewTypeOK, InterviewFrame
<1>2. interview'[i] = [interview[i] EXCEPT !.doing = next]
  BY <1>1 DEF Turn
<1>3. QED
  BY <1>1, <1>2 DEF Turn, InterviewFrame

\* Ask: the new question's number is the counter, above the earlier ones
LEMMA AskingKeeps ==
    ASSUME InterviewInv, NEW i \in Interviews, NEW r \in Replies, Ask(i, r)
    PROVE  InterviewInv'
<1> DEFINE new == [id |-> QuestionId(i), by |-> i]
<1>1. interview[i].doing = "replied" /\ interview[i].asked < MaxQuestions /\ interview[i] \in InterviewFrame
  BY DEF Ask, Doing, InterviewInv, AskedApart, InterviewTypeOK, InterviewFrame
<1>2. new \in Question /\ QuestionId(i).number = interview[i].asked /\ QuestionId(i).of = CorrelationOf[i]
  BY <1>1, InterviewAssumption DEF Question, QuestionId, Ids, InterviewFrame
<1>3. questions \in Seq(Question)
  BY DEF InterviewInv, InterviewTypeOK, Question
<1>4. /\ questions' \in Seq(Question) /\ DOMAIN questions' = (DOMAIN questions) \cup {Len(questions) + 1}
      /\ Len(questions) + 1 \notin DOMAIN questions
      /\ \A k \in DOMAIN questions : questions'[k] = questions[k]
      /\ questions'[Len(questions) + 1] = new
  BY <1>2, <1>3, AppendGrows DEF Ask
<1> HIDE DEF new
<1>5. new.id = QuestionId(i) /\ new.by = i
  BY DEF new
<1>6. /\ \A j \in Interviews : j # i => interview'[j] = interview[j]
      /\ interview'[i].asked = interview[i].asked /\ interview'[i].doing = "waiting"
      /\ interview' \in [Interviews -> InterviewFrame]
  BY <1>1 DEF Ask, InterviewInv, InterviewTypeOK, InterviewFrame, Stages
<1>7. UNCHANGED <<answers, heard, spec, killedRuns>>
  BY DEF Ask
<1>8. InterviewTypeOK'
  <2>1. \A k \in DOMAIN answers : answers[k].to \in DOMAIN questions'
    BY <1>4 DEF InterviewInv, InterviewTypeOK
  <2>2. heard \in [Interviews -> Seq((DOMAIN questions') \X (DOMAIN answers))]
    <3>1. (DOMAIN questions) \X (DOMAIN answers) \subseteq (DOMAIN questions') \X (DOMAIN answers)
      BY <1>4
    <3>2. \A j \in Interviews : heard[j] \in Seq((DOMAIN questions') \X (DOMAIN answers))
      BY <3>1, SeqMonotonic DEF InterviewInv, InterviewTypeOK
    <3>3. QED
      BY <3>2 DEF InterviewInv, InterviewTypeOK
  <2>3. QED
    BY <1>4, <1>6, <1>7, <2>1, <2>2 DEF InterviewInv, InterviewTypeOK, Question, InterviewFrame
<1>9. IdsAreTrue'
  BY <1>2, <1>4, <1>5, <1>7 DEF InterviewInv, IdsAreTrue, InterviewTypeOK
<1>10. ASSUME NEW j \in Interviews PROVE AskedApart(j)'
  <2>1. CASE j # i
    <3>1. AskedBy(j)' = AskedBy(j)
      BY <1>4, <1>5, <2>1 DEF AskedBy
    <3>2. \A k \in AskedBy(j) : questions'[k] = questions[k]
      BY <1>4 DEF AskedBy
    <3>3. QED
      BY <1>6, <2>1, <3>1, <3>2 DEF InterviewInv, AskedApart
  <2>2. CASE j = i
    <3>1. AskedBy(i)' = AskedBy(i) \cup {Len(questions) + 1}
      BY <1>4, <1>5 DEF AskedBy
    <3>2. \A k \in AskedBy(i) : questions'[k] = questions[k] /\ k # Len(questions) + 1
      BY <1>4 DEF AskedBy
    <3>3. questions'[Len(questions) + 1].id.number = interview[i].asked
      BY <1>2, <1>4, <1>5
    <3>4. \A k \in AskedBy(i) : questions[k].id.number < interview[i].asked
      BY <1>1 DEF InterviewInv, AskedApart
    <3>5. \A k \in AskedBy(i) : questions[k].id.number \in Nat
      <4>1. \A k \in DOMAIN questions : questions[k] \in Question
        BY <1>3, Positions
      <4>2. QED
        BY <4>1, InterviewAssumption DEF AskedBy, Question, Ids
    <3>6. interview[i].asked \in Nat
      BY <1>1, InterviewAssumption DEF InterviewFrame
    <3>7. \A k, l \in AskedBy(i)' : questions'[k].id.number = questions'[l].id.number => k = l
      BY <3>1, <3>2, <3>3, <3>4, <3>5, <3>6 DEF InterviewInv, AskedApart
    <3>8. QED
      BY <1>1, <1>6, <2>2, <3>1, <3>2, <3>3, <3>4, <3>5, <3>6, <3>7 DEF AskedApart
  <2>3. QED
    BY <2>1, <2>2
<1>11. HeardFresh'
  BY <1>4, <1>7, HeardStaysFresh
<1>12. QED
  BY <1>8, <1>9, <1>10, <1>11 DEF InterviewInv

\* the operator's answer goes under the id of a question asked
LEMMA AnsweringKeeps ==
    ASSUME InterviewInv, NEW q \in DOMAIN questions, Answer(q)
    PROVE  InterviewInv'
<1> DEFINE new == [id |-> questions[q].id, to |-> q]
<1>1. \A k \in DOMAIN questions : questions[k] \in Question
  BY Positions DEF InterviewInv, InterviewTypeOK, Question
<1>2. q \in Nat \ {0}
  <2>1. q \in 1 .. Len(questions) /\ Len(questions) \in Nat
    BY Positions DEF InterviewInv, InterviewTypeOK
  <2>2. QED
    BY <2>1
<1>3. new \in AnswerEntry
  BY <1>1, <1>2 DEF AnswerEntry, Question
<1>4. answers \in Seq(AnswerEntry)
  BY DEF InterviewInv, InterviewTypeOK, AnswerEntry
<1>5. /\ answers' \in Seq(AnswerEntry) /\ DOMAIN answers' = (DOMAIN answers) \cup {Len(answers) + 1}
      /\ \A k \in DOMAIN answers : answers'[k] = answers[k]
      /\ answers'[Len(answers) + 1] = new
  BY <1>3, <1>4, AppendGrows DEF Answer
<1>6. new.id = questions[q].id /\ new.to = q
  OBVIOUS
<1> HIDE DEF new
<1>7. UNCHANGED <<questions, interview, heard, spec, killedRuns>>
  BY DEF Answer
<1>8. InterviewTypeOK'
  <2>1. heard \in [Interviews -> Seq((DOMAIN questions) \X (DOMAIN answers'))]
    <3>1. (DOMAIN questions) \X (DOMAIN answers) \subseteq (DOMAIN questions) \X (DOMAIN answers')
      BY <1>5
    <3>2. \A j \in Interviews : heard[j] \in Seq((DOMAIN questions) \X (DOMAIN answers'))
      BY <3>1, SeqMonotonic DEF InterviewInv, InterviewTypeOK
    <3>3. QED
      BY <3>2 DEF InterviewInv, InterviewTypeOK
  <2>2. \A k \in DOMAIN answers' : answers'[k].to \in DOMAIN questions
    BY <1>5, <1>6 DEF InterviewInv, InterviewTypeOK
  <2>3. QED
    BY <1>5, <1>7, <2>1, <2>2 DEF InterviewInv, InterviewTypeOK, AnswerEntry
<1>9. IdsAreTrue'
  BY <1>5, <1>6, <1>7 DEF InterviewInv, IdsAreTrue
<1>10. \A j \in Interviews : AskedApart(j)'
  BY <1>7 DEF InterviewInv, AskedApart, AskedBy
<1>11. HeardFresh'
  BY <1>5, <1>7, HeardStaysFresh
<1>12. QED
  BY <1>8, <1>9, <1>10, <1>11 DEF InterviewInv

\* Hear: an answer under the id of the open question was given to it, or to
\* another run's
LEMMA HearingKeeps ==
    ASSUME InterviewInv, NEW i \in Interviews, Hear(i)
    PROVE  InterviewInv'
<1> DEFINE q == Open(i)
           replies == {k \in DOMAIN answers : answers[k].id = questions[q].id}
           first == CHOOSE k \in replies : \A j \in replies : k <= j
<1>1. Doing(i, "waiting") /\ replies # {} /\ heard' = [heard EXCEPT ![i] = Append(@, <<q, first>>)]
  BY DEF Hear
<1>2. q \in AskedBy(i)
  BY <1>1, OpenIsOwn
<1>3. first \in replies
  <2>1. replies \subseteq Nat
    <3>1. DOMAIN answers = 1 .. Len(answers) /\ Len(answers) \in Nat
      BY Positions DEF InterviewInv, InterviewTypeOK
    <3>2. QED
      BY <3>1
  <2>2. \E k \in replies : \A j \in replies : k <= j
    BY <1>1, <2>1, LeastNatural
  <2>3. QED
    BY <2>2
<1> HIDE DEF q
<1>4. first \in DOMAIN answers /\ answers[first].id = questions[q].id
  BY <1>3
<1> HIDE DEF replies, first
<1>5. q \in DOMAIN questions /\ questions[q].by = i
  BY <1>2 DEF AskedBy
<1>6. <<q, first>> \in (DOMAIN questions) \X (DOMAIN answers)
  BY <1>4, <1>5
<1>7. heard[i] \in Seq((DOMAIN questions) \X (DOMAIN answers))
  BY DEF InterviewInv, InterviewTypeOK
<1>8. UNCHANGED <<questions, answers, spec, killedRuns>>
  BY DEF Hear
<1>9. /\ \A j \in Interviews : j # i => interview'[j] = interview[j]
      /\ interview'[i].doing \in {"drafting", "eliciting"}
      /\ interview'[i].asked = IF interview[i].confirming THEN interview[i].asked ELSE interview[i].asked + 1
      /\ interview'[i].doing = "eliciting" => ~interview[i].confirming
      /\ interview[i].doing = "waiting" /\ interview[i].asked < MaxQuestions
      /\ interview' \in [Interviews -> InterviewFrame]
  <2>1. interview \in [Interviews -> InterviewFrame]
    BY DEF InterviewInv, InterviewTypeOK, InterviewFrame
  <2>2. interview[i].doing = "waiting" /\ interview[i].asked < MaxQuestions
    BY <1>1 DEF Doing, InterviewInv, AskedApart
  <2>3. interview[i].asked + 1 \in 0 .. MaxQuestions
    BY <2>1, <2>2, InterviewAssumption DEF InterviewFrame
  <2>4. interview'[i] = [interview[i] EXCEPT
                !.doing = IF interview[i].confirming THEN "drafting" ELSE "eliciting",
                !.asked = IF interview[i].confirming THEN @ ELSE @ + 1]
    BY <2>1 DEF Hear
  <2>5. interview'[i] \in InterviewFrame
    BY <2>1, <2>3, <2>4 DEF InterviewFrame, Stages
  <2>6. interview' \in [Interviews -> InterviewFrame] /\ \A j \in Interviews : j # i => interview'[j] = interview[j]
    BY <2>1, <2>5 DEF Hear
  <2>7. QED
    BY <2>1, <2>2, <2>4, <2>6 DEF InterviewFrame
<1>10. InterviewTypeOK'
  <2>1. Append(heard[i], <<q, first>>) \in Seq((DOMAIN questions) \X (DOMAIN answers))
    BY <1>6, <1>7, AppendGrows
  <2>2. QED
    BY <1>1, <1>8, <1>9, <2>1 DEF InterviewInv, InterviewTypeOK, InterviewFrame
<1>11. IdsAreTrue'
  BY <1>8 DEF InterviewInv, IdsAreTrue
<1>12. ASSUME NEW j \in Interviews PROVE AskedApart(j)'
  <2>1. CASE j # i
    BY <1>8, <1>9, <2>1 DEF InterviewInv, AskedApart, AskedBy
  <2>2. CASE j = i
    <3>1. \A k \in AskedBy(i) : questions[k].id.number \in Int
      <4>1. \A k \in DOMAIN questions : questions[k] \in Question
        BY Positions DEF InterviewInv, InterviewTypeOK, Question
      <4>2. QED
        BY <4>1, InterviewAssumption DEF AskedBy, Question, Ids
    <3>2. interview[i].asked \in Int
      BY InterviewAssumption DEF InterviewInv, InterviewTypeOK
    <3>3. QED
      BY <1>8, <1>9, <2>2, <3>1, <3>2 DEF InterviewInv, AskedApart, AskedBy
  <2>3. QED
    BY <2>1, <2>2
<1>13. LET a == answers[first]
       IN  \/ a.to = q
           \/ /\ questions[a.to].by # i
              /\ CorrelationOf[questions[a.to].by] = CorrelationOf[i]
  <2>1. answers[first].to \in DOMAIN questions /\ questions[answers[first].to].id = questions[q].id
    BY <1>4 DEF InterviewInv, IdsAreTrue, InterviewTypeOK
  <2>2. CorrelationOf[questions[answers[first].to].by] = CorrelationOf[i]
    BY <1>5, <2>1 DEF InterviewInv, IdsAreTrue
  <2>3. questions[answers[first].to].by = i => answers[first].to = q
    BY <1>2, <2>1 DEF InterviewInv, AskedApart, AskedBy
  <2>4. QED
    BY <2>2, <2>3
<1>14. HeardFresh'
  <2>1. /\ DOMAIN heard'[i] = (DOMAIN heard[i]) \cup {Len(heard[i]) + 1}
        /\ \A n \in DOMAIN heard[i] : heard'[i][n] = heard[i][n]
        /\ heard'[i][Len(heard[i]) + 1] = <<q, first>>
    <3>1. heard'[i] = Append(heard[i], <<q, first>>)
      BY <1>1 DEF InterviewInv, InterviewTypeOK
    <3>2. QED
      BY <1>6, <1>7, <3>1, AppendGrows
  <2>2. \A j \in Interviews : j # i => heard'[j] = heard[j]
    BY <1>1 DEF InterviewInv, InterviewTypeOK
  <2>3. ASSUME NEW j \in Interviews, NEW n \in DOMAIN heard[j], heard'[j][n] = heard[j][n]
        PROVE  WasFresh(j, heard[j][n])'
    <3>1. WasFresh(j, heard[j][n])
      BY DEF InterviewInv, HeardFresh
    <3>2. QED
      BY <1>8, <2>3, <3>1 DEF WasFresh
  <2>4. WasFresh(i, <<q, first>>)
    BY <1>13 DEF WasFresh
  <2>5. ASSUME NEW n, heard'[i][n] = <<q, first>>
        PROVE  WasFresh(i, heard[i][n])'
    BY <1>8, <2>4, <2>5 DEF WasFresh
  <2>6. ASSUME NEW j \in Interviews, NEW n \in DOMAIN heard'[j]
        PROVE  WasFresh(j, heard[j][n])'
    <3>1. CASE j = i /\ n = Len(heard[i]) + 1
      BY <2>1, <2>5, <3>1
    <3>2. CASE j = i /\ n # Len(heard[i]) + 1
      BY <2>1, <2>3, <2>6, <3>2
    <3>3. CASE j # i
      BY <2>2, <2>3, <2>6, <3>3
    <3>4. QED
      BY <3>1, <3>2, <3>3
  <2>7. QED
    BY <2>6 DEF HeardFresh
<1>15. QED
  BY <1>10, <1>11, <1>12, <1>14 DEF InterviewInv

(***************************************************************************)
(* An interview hears the answer to the question it asked, or one given    *)
(* to another run of its correlation (research.py:646), for any number of  *)
(* interviews, correlations, questions and answers.                        *)
(***************************************************************************)
THEOREM InterviewHearsItsOwn == InterviewSpec => []AnswersFresh
<1> USE InterviewAssumption
<1>1. InterviewInit => InterviewInv
  <2> SUFFICES ASSUME InterviewInit PROVE InterviewInv
    OBVIOUS
  <2>1. InterviewTypeOK
    BY EmptySeq DEF InterviewInit, InterviewTypeOK, Quiet, Stages
  <2>2. IdsAreTrue /\ HeardFresh
    BY DEF InterviewInit, IdsAreTrue, HeardFresh, WasFresh
  <2>3. \A i \in Interviews : AskedApart(i)
    BY DEF InterviewInit, AskedApart, AskedBy, Quiet
  <2>4. QED
    BY <2>1, <2>2, <2>3 DEF InterviewInv
<1>2. InterviewInv /\ [InterviewNext]_interviewVars => InterviewInv'
  <2> SUFFICES ASSUME InterviewInv, [InterviewNext]_interviewVars
               PROVE  InterviewInv'
    OBVIOUS
  <2>0. InterviewTypeOK
    BY DEF InterviewInv
  <2>1. ASSUME NEW i \in Interviews, NEW next \in Stages, Turn(i, next),
               UNCHANGED <<questions, answers, heard>>,
               spec' \in [Interviews -> {"none", "persisted", "announced"}], killedRuns' \in 0 .. InterviewKills,
               \/ next \in {"drafting", "announcing", "over"}
               \/ /\ interview[i].doing \in {"off", "eliciting", "replied"}
                  /\ next = "eliciting" \/ (next = "replied" /\ interview[i].asked < MaxQuestions)
        PROVE  InterviewInv'
    <3>1. InterviewTypeOK'
      BY <2>0, <2>1, TurnGoes DEF InterviewTypeOK, InterviewFrame
    <3>2. QED
      BY <2>0, <2>1, <3>1, TurnGoes, RunMovesOn DEF InterviewInv
  <2>2. ASSUME NEW i \in Interviews, StartInterview(i) PROVE InterviewInv'
    BY <2>0, <2>2, <2>1 DEF InterviewTypeOK, StartInterview, Stages, Doing
  <2>3. ASSUME NEW i \in Interviews, StopAtCap(i) \/ GiveUp(i) \/ CancelInterview(i) PROVE InterviewInv'
    BY <2>0, <2>3, <2>1 DEF InterviewTypeOK, StopAtCap, GiveUp, CancelInterview, Stages, Doing
  <2>4. ASSUME NEW i \in Interviews, Elicit(i) PROVE InterviewInv'
    BY <2>0, <2>4, <2>1 DEF InterviewTypeOK, Elicit, Stages, Doing
  <2>5. ASSUME NEW i \in Interviews, NEW r \in Replies, StopOnReply(i, r) PROVE InterviewInv'
    BY <2>0, <2>5, <2>1 DEF InterviewTypeOK, StopOnReply, Stages, Doing
  <2>6. ASSUME NEW i \in Interviews, NEW r \in Replies, RetryShapeless(i, r) PROVE InterviewInv'
    <3>1. interview'[i] = [interview[i] EXCEPT !.doing = "eliciting", !.retried = TRUE]
      BY <2>0, <2>6 DEF InterviewTypeOK, RetryShapeless
    <3>2. /\ interview[i].doing = "replied"
          /\ interview'[i].asked = interview[i].asked /\ interview'[i].doing = "eliciting"
          /\ \A j \in Interviews : j # i => interview'[j] = interview[j]
          /\ UNCHANGED <<questions, answers, heard, spec, killedRuns>>
      BY <2>0, <2>6, <3>1 DEF InterviewTypeOK, RetryShapeless, Doing
    <3>3. InterviewTypeOK'
      <4>1. interview'[i] \in InterviewFrame
        BY <2>0, <3>1 DEF InterviewTypeOK, InterviewFrame, Stages
      <4>2. interview' \in [Interviews -> InterviewFrame]
        BY <2>0, <2>6, <4>1 DEF InterviewTypeOK, InterviewFrame, RetryShapeless
      <4>3. QED
        BY <2>0, <3>2, <4>2 DEF InterviewTypeOK, InterviewFrame
    <3>4. QED
      BY <3>2, <3>3, RunMovesOn DEF InterviewInv
  <2>7. ASSUME NEW i \in Interviews, PersistSpec(i) \/ AnnounceSpec(i) \/ InterviewKilled(i)
        PROVE  InterviewInv'
    <3>1. CASE PersistSpec(i)
      BY <2>0, <2>1, <3>1 DEF InterviewTypeOK, PersistSpec, Stages
    <3>2. CASE AnnounceSpec(i)
      BY <2>0, <2>1, <3>2 DEF InterviewTypeOK, AnnounceSpec, Stages
    <3>3. CASE InterviewKilled(i)
      <4>1. killedRuns' \in 0 .. InterviewKills
        BY <2>0, <3>3 DEF InterviewTypeOK, InterviewKilled
      <4>2. QED
        BY <2>0, <2>1, <3>3, <4>1 DEF InterviewTypeOK, InterviewKilled, Stages
    <3>4. QED
      BY <2>7, <3>1, <3>2, <3>3
  <2>8. CASE UNCHANGED interviewVars
    <3>1. InterviewTypeOK'
      BY <2>0, <2>8 DEF interviewVars, InterviewTypeOK
    <3>2. IdsAreTrue'
      BY <2>8 DEF interviewVars, InterviewInv, IdsAreTrue
    <3>3. \A i \in Interviews : AskedApart(i)'
      BY <2>8 DEF interviewVars, InterviewInv, AskedApart, AskedBy
    <3>4. HeardFresh'
      BY <2>8, HeardStaysFresh DEF interviewVars
    <3>5. QED
      BY <3>1, <3>2, <3>3, <3>4 DEF InterviewInv
  <2>9. QED
    BY <2>1, <2>2, <2>3, <2>4, <2>5, <2>6, <2>7, <2>8, AskingKeeps, HearingKeeps, AnsweringKeeps
       DEF InterviewNext, InterviewStep
<1>3. InterviewInv => AnswersFresh
  BY DEF InterviewInv, HeardFresh, WasFresh, AnswersFresh
<1>4. QED
  BY <1>1, <1>2, <1>3, PTL DEF InterviewSpec

-----------------------------------------------------------------------------
(***************************************************************************)
(* EventRelay: a connection sees the log. The argument: the broadcasts     *)
(* leave no row out and, ahead of a connection, ascend (PollsInOrder,      *)
(* AscendsAhead); what was broadcast before a connection subscribed is in  *)
(* the backlog it then read, and what it has passed over since it received *)
(* (SeesAll).                                                              *)
(***************************************************************************)
\* What the poller sends next: the head of its rows, or the row after the
\* high-water mark.
NextToSend == IF poller.rows = <<>> THEN poller.highWater + 1 ELSE poller.rows[1]

\* A poll holds consecutive rows from the mark on, or from the last one sent;
\* every row before the next one was sent.
PollsInOrder ==
    /\ \A i \in DOMAIN poller.rows : poller.rows[i] = poller.rows[1] + (i - 1)
    /\ poller.rows # <<>> =>
          \/ poller.rows[1] = poller.highWater + 1
          \/ poller.rows[1] > poller.highWater + 1 /\ broadcasts # <<>>
             /\ broadcasts[Len(broadcasts)] = poller.rows[1] - 1
    /\ \A s \in 1 .. NextToSend - 1 : s \in Held(broadcasts)
    /\ \A k \in DOMAIN broadcasts : \A s \in 1 .. broadcasts[k] :
          \E j \in 1 .. k : broadcasts[j] = s

\* The broadcasts ahead of a connection ascend, and what it got lies below them,
\* unless a poll that broke off sent rows again.
Ahead(c) == client[c].next .. Len(broadcasts)

AscendsAhead(c) ==
    client[c].phase # "off" /\ "resent" \notin flaw[c] =>
        /\ \A k, l \in Ahead(c) : k < l => broadcasts[k] < broadcasts[l]
        /\ \A k \in Ahead(c) : broadcasts[k] < NextToSend
        /\ \A s \in Held(received[c]) :
              /\ s <= client[c].after \/ s < NextToSend
              /\ \A k \in Ahead(c) : broadcasts[k] > client[c].after => s < broadcasts[k]
        /\ Ascending(received[c])

\* What a connection that did not lag was replayed and has passed over holds
\* all that its channel carries.
SeesAll(c) ==
    LET carried(s) == s \in DOMAIN events /\ Matches(c, s)
    IN  /\ client[c].phase # "live" => received[c] = <<>>
        /\ client[c].phase # "replaying" => client[c].backlog = <<>>
        /\ client[c].phase = "replaying" =>
              /\ Ascending(client[c].backlog)
              /\ \A s \in Held(client[c].backlog) : s <= client[c].after
        /\ client[c].phase = "replaying" /\ flaw[c] \subseteq {"resent"} =>
              /\ \A s \in 1 .. client[c].after : carried(s) => s \in Held(client[c].backlog)
              /\ \A k \in 1 .. client[c].next - 1 : broadcasts[k] <= client[c].after
        /\ client[c].phase = "live" /\ flaw[c] \subseteq {"resent"} =>
              /\ \A s \in 1 .. client[c].after : carried(s) => s \in Held(received[c])
              /\ \A k \in 1 .. client[c].next - 1 :
                    carried(broadcasts[k]) => broadcasts[k] \in Held(received[c])

NoGap(c) ==
    flaw[c] \subseteq {"resent"} =>
        \A i \in DOMAIN received[c] : \A s \in 1 .. received[c][i] :
            Matches(c, s) => \E j \in 1 .. i : received[c][j] = s

RelayInv ==
    /\ RelayTypeOK
    /\ PollsInOrder
    /\ \A c \in Clients : AscendsAhead(c) /\ SeesAll(c) /\ NoGap(c)

Connection ==
    [phase : {"off", "subscribed", "replaying", "live"}, next : 1 .. Len(broadcasts) + 1,
     after : 0 .. Len(events), backlog : Seq(DOMAIN events)]

\* a row's range of numbers, as a sequence
LEMMA FromIsRange ==
    ASSUME NEW low \in Nat \ {0}, NEW high \in Nat, low <= high + 1
    PROVE  /\ From(low, high) \in Seq(low .. high)
           /\ Len(From(low, high)) = high - low + 1
           /\ DOMAIN From(low, high) = 1 .. high - low + 1
           /\ \A i \in 1 .. high - low + 1 : From(low, high)[i] = low + i - 1
           /\ Held(From(low, high)) = low .. high
           /\ Ascending(From(low, high))
<1>1. high - low + 1 \in Nat
  OBVIOUS
<1>2. /\ From(low, high) = [i \in 1 .. high - low + 1 |-> low + i - 1]
      /\ DOMAIN From(low, high) = 1 .. high - low + 1
      /\ \A i \in 1 .. high - low + 1 : From(low, high)[i] = low + i - 1
  BY DEF From
<1>3. \A i \in 1 .. high - low + 1 : low + i - 1 \in low .. high
  BY <1>1
<1>4. From(low, high) \in Seq(low .. high)
  BY <1>1, <1>2, <1>3, IsASeq
<1>5. Len(From(low, high)) = high - low + 1
  <2>1. DOMAIN From(low, high) = 1 .. Len(From(low, high)) /\ Len(From(low, high)) \in Nat
    BY <1>4, Positions
  <2>2. QED
    BY <1>1, <1>2, <2>1
<1>6. Held(From(low, high)) = low .. high
  <2>1. Held(From(low, high)) \subseteq low .. high
    BY <1>2, <1>3 DEF Held
  <2>2. ASSUME NEW n \in low .. high PROVE n \in Held(From(low, high))
    <3>1. n - low + 1 \in 1 .. high - low + 1 /\ low + (n - low + 1) - 1 = n
      BY <1>1
    <3>2. QED
      BY <1>2, <3>1 DEF Held
  <2>3. QED
    BY <2>1, <2>2
<1>7. Ascending(From(low, high))
  BY <1>1, <1>2 DEF Ascending
<1>8. QED
  BY <1>2, <1>4, <1>5, <1>6, <1>7

\* what the type invariant says, in the form the proofs use it
LEMMA RelayTypes ==
    ASSUME RelayTypeOK
    PROVE  /\ Len(events) \in Nat /\ DOMAIN events = 1 .. Len(events) /\ events \in Seq(Kinds)
           /\ poller.highWater \in 0 .. Len(events) /\ poller.rows \in Seq(DOMAIN events)
           /\ Len(broadcasts) \in Nat /\ DOMAIN broadcasts = 1 .. Len(broadcasts)
           /\ broadcasts \in Seq(DOMAIN events)
           /\ \A k \in DOMAIN broadcasts : broadcasts[k] \in DOMAIN events
           /\ \A k \in DOMAIN poller.rows : poller.rows[k] \in DOMAIN events
           /\ Len(poller.rows) \in Nat /\ DOMAIN poller.rows = 1 .. Len(poller.rows)
           /\ \A c \in Clients :
                 /\ client[c] \in Connection
                 /\ received[c] \in Seq(DOMAIN events)
                 /\ Held(received[c]) \subseteq DOMAIN events
                 /\ flaw[c] \subseteq {"blind", "lagged", "resent"}
           /\ DOMAIN client = Clients /\ DOMAIN received = Clients /\ DOMAIN flaw = Clients
<1>1. /\ events \in Seq(Kinds) /\ poller.highWater \in 0 .. Len(events)
      /\ poller.rows \in Seq(DOMAIN events) /\ broadcasts \in Seq(DOMAIN events)
      /\ \A c \in Clients : /\ client[c] \in Connection
                            /\ received[c] \in Seq(DOMAIN events)
                            /\ flaw[c] \subseteq {"blind", "lagged", "resent"}
      /\ DOMAIN client = Clients /\ DOMAIN received = Clients /\ DOMAIN flaw = Clients
  BY DEF RelayTypeOK, Connection
<1>2. /\ Len(events) \in Nat /\ DOMAIN events = 1 .. Len(events)
  BY <1>1, Positions
<1>3. /\ Len(broadcasts) \in Nat /\ DOMAIN broadcasts = 1 .. Len(broadcasts)
      /\ \A k \in DOMAIN broadcasts : broadcasts[k] \in DOMAIN events
  BY <1>1, Positions
<1>4. /\ Len(poller.rows) \in Nat /\ DOMAIN poller.rows = 1 .. Len(poller.rows)
      /\ \A k \in DOMAIN poller.rows : poller.rows[k] \in DOMAIN events
  BY <1>1, Positions
<1>5. ASSUME NEW c \in Clients PROVE Held(received[c]) \subseteq DOMAIN events
  <2>1. \A i \in DOMAIN received[c] : received[c][i] \in DOMAIN events
    BY <1>1, Positions
  <2>2. QED
    BY <2>1 DEF Held
<1>6. QED
  BY <1>1, <1>2, <1>3, <1>4, <1>5

LEMMA NextToSendType ==
    ASSUME RelayTypeOK
    PROVE  NextToSend \in Nat \ {0}
<1>1. CASE poller.rows = <<>>
  BY <1>1, RelayTypes DEF NextToSend
<1>2. CASE poller.rows # <<>>
  <2>1. poller.rows[1] \in DOMAIN events
    BY <1>2, RelayTypes, TailShifts
  <2>2. QED
    BY <1>2, <2>1, RelayTypes DEF NextToSend
<1>3. QED
  BY <1>1, <1>2

\* a step that leaves log, poller, broadcasts and one connection alone keeps what is said of that
LEMMA ConnectionStays ==
    ASSUME RelayInv, NEW c \in Clients, UNCHANGED <<events, broadcasts>>, NextToSend' = NextToSend,
           client'[c] = client[c], received'[c] = received[c], flaw'[c] = flaw[c]
    PROVE  AscendsAhead(c)' /\ SeesAll(c)' /\ NoGap(c)'
BY DEF RelayInv, AscendsAhead, SeesAll, NoGap, Ahead, Matches

LEMMA CommitKeeps ==
    ASSUME RelayInv, NEW k \in Kinds, CommitEvent(k)
    PROVE  RelayInv'
<1>0. RelayTypeOK
  BY DEF RelayInv
<1>1. /\ events' \in Seq(Kinds) /\ Len(events') = Len(events) + 1
      /\ DOMAIN events' = (DOMAIN events) \cup {Len(events) + 1}
      /\ \A s \in DOMAIN events : events'[s] = events[s]
  BY <1>0, RelayTypes, AppendGrows DEF CommitEvent
<1>2. UNCHANGED <<poller, broadcasts, client, received, flaw, relayFaults, connections>>
  BY DEF CommitEvent
<1>3. DOMAIN events \subseteq DOMAIN events' /\ 0 .. Len(events) \subseteq 0 .. Len(events')
  BY <1>0, <1>1, RelayTypes
<1>4. RelayTypeOK'
  <2>1. broadcasts \in Seq(DOMAIN events') /\ poller.rows \in Seq(DOMAIN events')
    BY <1>0, <1>3, RelayTypes, SeqMonotonic
  <2>2. received \in [Clients -> Seq(DOMAIN events')]
    <3>1. \A c \in Clients : received[c] \in Seq(DOMAIN events')
      BY <1>0, <1>3, RelayTypes, SeqMonotonic
    <3>2. QED
      BY <1>0, <3>1 DEF RelayTypeOK
  <2>3. client \in [Clients -> [phase : {"off", "subscribed", "replaying", "live"},
                               next : 1 .. Len(broadcasts) + 1, after : 0 .. Len(events'),
                               backlog : Seq(DOMAIN events')]]
    <3>1. \A c \in Clients : client[c].backlog \in Seq(DOMAIN events')
      BY <1>0, <1>3, RelayTypes, SeqMonotonic DEF Connection
    <3>2. QED
      BY <1>0, <1>3, <3>1 DEF RelayTypeOK
  <2>4. QED
    BY <1>0, <1>1, <1>2, <1>3, <2>1, <2>2, <2>3 DEF RelayTypeOK
<1>5. PollsInOrder' /\ NextToSend' = NextToSend
  BY <1>2 DEF RelayInv, PollsInOrder, NextToSend
<1>6. ASSUME NEW c \in Clients PROVE AscendsAhead(c)' /\ SeesAll(c)' /\ NoGap(c)'
  <2>1. AscendsAhead(c)'
    BY <1>2, <1>5 DEF RelayInv, AscendsAhead, Ahead
  <2>2. \A s \in DOMAIN events : Matches(c, s)' <=> Matches(c, s)
    BY <1>1 DEF Matches
  <2>3. client[c].after \in 0 .. Len(events) /\ client[c].next \in 1 .. Len(broadcasts) + 1
    BY <1>0, RelayTypes DEF Connection
  <2>4. \A s \in 1 .. client[c].after : s \in DOMAIN events
    BY <1>0, <2>3, RelayTypes
  <2>5. \A l \in 1 .. client[c].next - 1 : broadcasts[l] \in DOMAIN events
    BY SMTT(30), <1>0, <2>3, RelayTypes
  <2>6. SeesAll(c)'
    BY <1>2, <2>2, <2>4, <2>5 DEF RelayInv, SeesAll
  <2>7. ASSUME NEW i \in DOMAIN received[c], NEW s \in 1 .. received[c][i] PROVE s \in DOMAIN events
    <3>1. received[c][i] \in 1 .. Len(events)
      BY <1>0, RelayTypes DEF Held
    <3>2. QED
      BY <1>0, <3>1, RelayTypes
  <2>8. NoGap(c)'
    BY <1>2, <2>2, <2>7 DEF RelayInv, NoGap
  <2>9. QED
    BY <2>1, <2>6, <2>8
<1>7. QED
  BY <1>4, <1>5, <1>6 DEF RelayInv

LEMMA OpenStoreKeeps ==
    ASSUME RelayInv, OpenStore
    PROVE  RelayInv'
<1>0. RelayTypeOK
  BY DEF RelayInv
<1>1. poller.rows' = poller.rows /\ poller.highWater' = poller.highWater
      /\ UNCHANGED <<events, broadcasts, client, received, flaw, relayFaults, connections>>
  BY <1>0 DEF OpenStore, RelayTypeOK
<1>2. RelayTypeOK'
  BY <1>0, <1>1 DEF OpenStore, RelayTypeOK
<1>3. PollsInOrder' /\ NextToSend' = NextToSend
  BY <1>1 DEF RelayInv, PollsInOrder, NextToSend
<1>4. QED
  BY <1>1, <1>2, <1>3, ConnectionStays DEF RelayInv

LEMMA PollKeeps ==
    ASSUME RelayInv, Poll
    PROVE  RelayInv'
<1>0. RelayTypeOK
  BY DEF RelayInv
<1> DEFINE low == poller.highWater + 1
<1>1. /\ low \in Nat \ {0} /\ Len(events) \in Nat /\ low <= Len(events)
      /\ poller.rows = <<>>
  BY <1>0, RelayTypes DEF Poll
<1>2. /\ poller.rows' = From(low, Len(events)) /\ poller.highWater' = poller.highWater
      /\ poller.open' = poller.open
      /\ UNCHANGED <<events, broadcasts, client, received, flaw, relayFaults, connections>>
  BY <1>0 DEF Poll, RelayTypeOK
<1> HIDE DEF low
<1>3. /\ From(low, Len(events)) \in Seq(low .. Len(events))
      /\ DOMAIN From(low, Len(events)) = 1 .. Len(events) - low + 1
      /\ \A i \in 1 .. Len(events) - low + 1 : From(low, Len(events))[i] = low + i - 1
  BY <1>1, FromIsRange
<1>4. poller.rows' \in Seq(DOMAIN events)
  <2>1. low .. Len(events) \subseteq DOMAIN events
    BY <1>0, <1>1, RelayTypes
  <2>2. QED
    BY <1>2, <1>3, <2>1, SeqMonotonic
<1>5. poller.rows' # <<>> /\ poller.rows'[1] = low
  <2>1. 1 \in DOMAIN poller.rows'
    BY <1>1, <1>2, <1>3
  <2>2. QED
    BY <1>1, <1>2, <1>3, <2>1
<1>6. NextToSend = low /\ NextToSend' = low
  BY <1>1, <1>5 DEF NextToSend, low
<1>7. RelayTypeOK'
  BY <1>0, <1>2, <1>4 DEF RelayTypeOK, Poll
<1>8. PollsInOrder'
  <2>1. \A i \in DOMAIN poller.rows' : poller.rows'[i] = poller.rows'[1] + (i - 1)
    BY <1>1, <1>2, <1>3, <1>5
  <2>2. poller.rows'[1] = poller.highWater' + 1
    BY <1>2, <1>5 DEF low
  <2>3. QED
    BY <1>2, <1>6, <2>1, <2>2 DEF RelayInv, PollsInOrder
<1>9. QED
  BY <1>2, <1>6, <1>7, <1>8, ConnectionStays DEF RelayInv

\* a row is sent: the broadcasts grow by the one that was due
LEMMA SendKeeps ==
    ASSUME RelayInv, Send
    PROVE  RelayInv'
<1>0. RelayTypeOK
  BY DEF RelayInv
<1> DEFINE row == Head(poller.rows)
           last == Len(broadcasts) + 1
<1>1. /\ poller.rows # <<>>
      /\ row = poller.rows[1] /\ row \in DOMAIN events /\ NextToSend = row /\ row \in Nat
      /\ Len(poller.rows) \in Nat /\ Len(poller.rows) >= 1
      /\ DOMAIN poller.rows = 1 .. Len(poller.rows)
      /\ Tail(poller.rows) \in Seq(DOMAIN events)
      /\ DOMAIN Tail(poller.rows) = 1 .. Len(poller.rows) - 1
      /\ Len(Tail(poller.rows)) = Len(poller.rows) - 1
      /\ \A i \in DOMAIN Tail(poller.rows) : Tail(poller.rows)[i] = poller.rows[i + 1]
  <2>1. poller.rows # <<>> /\ poller.rows \in Seq(DOMAIN events)
    BY <1>0, RelayTypes DEF Send
  <2>2. /\ row = poller.rows[1] /\ row \in DOMAIN events
        /\ Len(poller.rows) \in Nat /\ Len(poller.rows) >= 1
        /\ DOMAIN poller.rows = 1 .. Len(poller.rows)
        /\ Tail(poller.rows) \in Seq(DOMAIN events)
        /\ DOMAIN Tail(poller.rows) = 1 .. Len(poller.rows) - 1
        /\ Len(Tail(poller.rows)) = Len(poller.rows) - 1
        /\ \A i \in DOMAIN Tail(poller.rows) : Tail(poller.rows)[i] = poller.rows[i + 1]
    BY <2>1, TailShifts
  <2>3. row \in Nat /\ NextToSend = row
    BY <1>0, <2>1, <2>2, RelayTypes DEF NextToSend
  <2>4. QED
    BY <2>1, <2>2, <2>3
<1>2. /\ poller.rows' = Tail(poller.rows) /\ poller.open' = poller.open
      /\ poller.highWater' = IF Len(poller.rows) = 1 THEN row ELSE poller.highWater
      /\ broadcasts' = Append(broadcasts, row)
      /\ UNCHANGED <<events, client, received, flaw, relayFaults, connections>>
  BY <1>0 DEF Send, RelayTypeOK
<1>3. /\ broadcasts' \in Seq(DOMAIN events) /\ Len(broadcasts) \in Nat
      /\ Len(broadcasts') = last /\ DOMAIN broadcasts = 1 .. Len(broadcasts)
      /\ DOMAIN broadcasts' = (DOMAIN broadcasts) \cup {last}
      /\ last \notin DOMAIN broadcasts
      /\ \A k \in DOMAIN broadcasts : broadcasts'[k] = broadcasts[k]
      /\ broadcasts'[last] = row
      /\ Held(broadcasts') = Held(broadcasts) \cup {row}
  <2>1. broadcasts \in Seq(DOMAIN events) /\ row \in DOMAIN events
    BY <1>0, <1>1, RelayTypes
  <2> HIDE DEF row
  <2>2. QED
    BY <1>2, <2>1, AppendGrows, AppendHolds
<1> HIDE DEF row, last
<1>4. NextToSend' = row + 1
  <2>1. /\ Len(poller.rows) = 1 <=> Tail(poller.rows) = <<>>
        /\ Tail(poller.rows) # <<>> => 2 \in DOMAIN poller.rows /\ Tail(poller.rows)[1] = poller.rows[2]
    BY <1>0, <1>1, RelayTypes, AfterHead
  <2>2. CASE Tail(poller.rows) = <<>>
    BY <1>2, <2>1, <2>2 DEF NextToSend
  <2>3. CASE Tail(poller.rows) # <<>>
    <3>1. poller.rows[2] = poller.rows[1] + (2 - 1)
      BY <2>1, <2>3 DEF RelayInv, PollsInOrder
    <3>2. QED
      BY <1>1, <1>2, <2>1, <2>3, <3>1 DEF NextToSend
  <2>4. QED
    BY <2>2, <2>3
<1>5. poller.highWater + 1 <= row
  <2>1. poller.highWater \in Nat
    BY <1>0, RelayTypes
  <2>2. QED
    BY <1>1, <2>1 DEF RelayInv, PollsInOrder
<1>6. RelayTypeOK'
  <2>1. poller.highWater' \in 0 .. Len(events)
    BY <1>0, <1>1, <1>2, RelayTypes
  <2>2. client \in [Clients -> [phase : {"off", "subscribed", "replaying", "live"},
                               next : 1 .. Len(broadcasts') + 1, after : 0 .. Len(events),
                               backlog : Seq(DOMAIN events)]]
    <3>1. 1 .. Len(broadcasts) + 1 \subseteq 1 .. Len(broadcasts') + 1
      BY <1>3 DEF last
    <3>2. QED
      BY <1>0, <3>1 DEF RelayTypeOK
  <2>3. QED
    BY <1>0, <1>1, <1>2, <1>3, <2>1, <2>2 DEF RelayTypeOK, Send
<1>7. PollsInOrder'
  <2>1. \A i \in DOMAIN poller.rows' : poller.rows'[i] = poller.rows'[1] + (i - 1)
    <3> SUFFICES ASSUME NEW i \in DOMAIN Tail(poller.rows)
                 PROVE  Tail(poller.rows)[i] = Tail(poller.rows)[1] + (i - 1)
      BY <1>2
    <3>1. i + 1 \in DOMAIN poller.rows /\ 1 \in DOMAIN Tail(poller.rows) /\ 1 + 1 \in DOMAIN poller.rows
      BY <1>1
    <3>2. Tail(poller.rows)[i] = poller.rows[i + 1] /\ Tail(poller.rows)[1] = poller.rows[1 + 1]
      BY <1>1, <3>1
    <3>3. poller.rows[i + 1] = poller.rows[1] + (i + 1 - 1) /\ poller.rows[1 + 1] = poller.rows[1] + (1 + 1 - 1)
      BY SMTT(30), <3>1 DEF RelayInv, PollsInOrder
    <3>4. i \in Int /\ poller.rows[1] \in Int
      BY <1>1
    <3>5. poller.rows[i + 1] = poller.rows[1] + i /\ poller.rows[1 + 1] = poller.rows[1] + 1
      BY <3>3, <3>4
    <3>6. QED
      BY SMTT(30), <3>2, <3>4, <3>5
  <2>2. poller.rows' # <<>> =>
          \/ poller.rows'[1] = poller.highWater' + 1
          \/ poller.rows'[1] > poller.highWater' + 1 /\ broadcasts' # <<>>
             /\ broadcasts'[Len(broadcasts')] = poller.rows'[1] - 1
    <3> SUFFICES ASSUME poller.rows' # <<>>
                 PROVE  poller.rows'[1] > poller.highWater' + 1 /\ broadcasts' # <<>>
                        /\ broadcasts'[Len(broadcasts')] = poller.rows'[1] - 1
      OBVIOUS
    <3>1. poller.rows'[1] = row + 1
      BY <1>4 DEF NextToSend
    <3>2. Len(poller.rows) # 1
      BY <1>1, <1>2, EmptySeq
    <3>3. poller.highWater' + 1 < row + 1
      <4>1. poller.highWater' = poller.highWater /\ poller.highWater \in Nat
        BY <1>0, <1>2, <3>2, RelayTypes
      <4>2. QED
        BY <1>1, <1>5, <4>1
    <3>4. broadcasts' # <<>> /\ broadcasts'[Len(broadcasts')] = row
      BY <1>3
    <3>5. poller.rows'[1] > poller.highWater' + 1
      <4>1. poller.highWater' \in Nat
        BY <1>0, <1>1, <1>2, RelayTypes
      <4>2. QED
        BY <1>1, <3>1, <3>3, <4>1
    <3>6. QED
      BY <1>1, <3>1, <3>4, <3>5
  <2>3. \A s \in 1 .. row : s \in Held(broadcasts')
    <3>1. \A s \in 1 .. row - 1 : s \in Held(broadcasts)
      BY <1>1 DEF RelayInv, PollsInOrder
    <3>2. QED
      BY <1>1, <1>3, <3>1
  <2>4. ASSUME NEW k \in DOMAIN broadcasts', NEW s \in 1 .. broadcasts'[k]
        PROVE  \E j \in 1 .. k : broadcasts'[j] = s
    <3>1. CASE k \in DOMAIN broadcasts
      <4>1. PICK j \in 1 .. k : broadcasts[j] = s
        BY <1>3, <2>4, <3>1 DEF RelayInv, PollsInOrder
      <4>2. j \in DOMAIN broadcasts
        BY <1>3, <3>1
      <4>3. QED
        BY <1>3, <4>1, <4>2
    <3>2. CASE k = last
      <4>1. s \in Held(broadcasts')
        BY <1>3, <2>3, <3>2
      <4>2. PICK j \in DOMAIN broadcasts' : broadcasts'[j] = s
        BY <4>1 DEF Held
      <4>3. j \in 1 .. last
        BY <1>3 DEF last
      <4>4. QED
        BY <3>2, <4>2, <4>3
    <3>3. QED
      BY <1>3, <3>1, <3>2
  <2>5. NextToSend' - 1 = row
    BY <1>1, <1>4
  <2>6. QED
    BY <2>1, <2>2, <2>3, <2>4, <2>5 DEF PollsInOrder
<1>8. ASSUME NEW c \in Clients PROVE AscendsAhead(c)' /\ SeesAll(c)' /\ NoGap(c)'
  <2>0. client[c].next \in 1 .. Len(broadcasts) + 1 /\ client[c].next \in Nat
    BY <1>0, <1>3, RelayTypes DEF Connection
  <2>1. Ahead(c)' = Ahead(c) \cup {last} /\ Ahead(c) \subseteq DOMAIN broadcasts /\ \A k \in Ahead(c) : k < last
    BY <1>2, <1>3, <2>0 DEF Ahead, last
  <2>2. AscendsAhead(c)'
    <3> SUFFICES ASSUME client[c].phase # "off", "resent" \notin flaw[c]
                 PROVE  /\ \A k, l \in Ahead(c)' : k < l => broadcasts'[k] < broadcasts'[l]
                        /\ \A k \in Ahead(c)' : broadcasts'[k] < row + 1
                        /\ \A s \in Held(received[c]) :
                              /\ s <= client[c].after \/ s < row + 1
                              /\ \A k \in Ahead(c)' : broadcasts'[k] > client[c].after => s < broadcasts'[k]
                        /\ Ascending(received[c])
      BY <1>2, <1>4 DEF AscendsAhead
    <3>1. \A k \in Ahead(c) : broadcasts[k] < row /\ broadcasts[k] \in Nat
      <4>1. \A k \in Ahead(c) : broadcasts[k] \in DOMAIN events
        BY <1>0, <2>1, RelayTypes
      <4>2. QED
        BY SMTT(30), <1>0, <1>1, <4>1, RelayTypes DEF RelayInv, AscendsAhead
    <3>2. \A k, l \in Ahead(c)' : k < l => broadcasts'[k] < broadcasts'[l]
      <4> SUFFICES ASSUME NEW k \in Ahead(c)', NEW l \in Ahead(c)', k < l
                   PROVE  broadcasts'[k] < broadcasts'[l]
        OBVIOUS
      <4>1. k \in Ahead(c)
        BY <2>0, <1>3, <2>1 DEF Ahead, last
      <4>2. CASE l \in Ahead(c)
        BY <1>3, <2>1, <4>1, <4>2 DEF RelayInv, AscendsAhead
      <4>3. CASE l = last
        BY <1>3, <2>1, <3>1, <4>1, <4>3
      <4>4. QED
        BY <2>1, <4>2, <4>3
    <3>3. \A k \in Ahead(c)' : broadcasts'[k] < row + 1
      BY <1>1, <1>3, <2>1, <3>1
    <3>4. ASSUME NEW s \in Held(received[c])
          PROVE  /\ s <= client[c].after \/ s < row + 1
                 /\ \A k \in Ahead(c)' : broadcasts'[k] > client[c].after => s < broadcasts'[k]
      <4>1. s \in Nat /\ client[c].after \in Nat
        BY <1>0, RelayTypes DEF Connection
      <4>2. s <= client[c].after \/ s < row
        BY <1>1 DEF RelayInv, AscendsAhead
      <4>3. \A k \in Ahead(c) : broadcasts'[k] > client[c].after => s < broadcasts'[k]
        BY <1>3, <2>1 DEF RelayInv, AscendsAhead
      <4>4. row > client[c].after => s < row
        BY <1>1, <4>1, <4>2
      <4>5. QED
        BY <1>1, <1>3, <2>1, <4>1, <4>2, <4>3, <4>4
    <3>5. QED
      BY <3>2, <3>3, <3>4 DEF RelayInv, AscendsAhead
  <2>3. \A k \in 1 .. client[c].next - 1 : broadcasts'[k] = broadcasts[k]
    BY <1>3, <2>0
  <2>4. SeesAll(c)'
    BY <1>2, <2>3 DEF RelayInv, SeesAll, Matches
  <2>5. NoGap(c)'
    BY <1>2 DEF RelayInv, NoGap, Matches
  <2>6. QED
    BY <2>2, <2>4, <2>5
<1>9. QED
  BY <1>6, <1>7, <1>8 DEF RelayInv

\* a poll breaks off: what it sent beyond the mark will be sent again, to
\* connections that are flagged; otherwise the same row is next
LEMMA PollBreaksKeeps ==
    ASSUME RelayInv, PollBreaks
    PROVE  RelayInv'
<1>0. RelayTypeOK
  BY DEF RelayInv
<1>1. /\ poller.rows' = <<>> /\ poller.highWater' = poller.highWater /\ poller.open' = FALSE
      /\ UNCHANGED <<events, broadcasts, client, received, connections>>
      /\ relayFaults' \in 0 .. RelayFaults
  BY <1>0, RelayAssumption DEF PollBreaks, RelayTypeOK, Fault
<1>2. \A c \in Clients :
         \/ flaw'[c] = flaw[c]
         \/ SentBeyondHighWater /\ c \in Connected /\ flaw'[c] = flaw[c] \cup {"resent"}
  BY DEF PollBreaks, Flawed
<1>3. RelayTypeOK'
  <2>1. flaw' \in [Clients -> SUBSET {"blind", "lagged", "resent"}]
    <3>1. flaw \in [Clients -> SUBSET {"blind", "lagged", "resent"}]
      BY <1>0 DEF RelayTypeOK
    <3>2. \/ flaw' = flaw
          \/ flaw' = [c \in Clients |-> IF c \in Connected THEN flaw[c] \cup {"resent"} ELSE flaw[c]]
      BY DEF PollBreaks, Flawed
    <3>3. QED
      BY <3>1, <3>2
  <2>2. poller' \in [open : BOOLEAN, highWater : 0 .. Len(events), rows : Seq(DOMAIN events)]
    BY <1>0, EmptySeq DEF RelayTypeOK, PollBreaks
  <2>3. QED
    BY <1>0, <1>1, <2>1, <2>2 DEF RelayTypeOK
<1>4. NextToSend' = poller.highWater + 1 /\ poller.highWater \in Nat
  BY <1>0, <1>1, RelayTypes DEF NextToSend
<1>5. NextToSend' <= NextToSend /\ (~SentBeyondHighWater => NextToSend' = NextToSend)
  <2>1. CASE poller.rows = <<>>
    BY <1>4, <2>1 DEF NextToSend
  <2>2. CASE poller.rows # <<>>
    <3>1. NextToSend = poller.rows[1] /\ poller.rows[1] \in Nat
      BY <1>0, <2>2, NextToSendType DEF NextToSend
    <3>2. \/ poller.rows[1] = poller.highWater + 1
          \/ poller.rows[1] > poller.highWater + 1 /\ broadcasts # <<>>
             /\ broadcasts[Len(broadcasts)] = poller.rows[1] - 1
      BY <2>2 DEF RelayInv, PollsInOrder
    <3>3. QED
      BY <1>4, <3>1, <3>2 DEF SentBeyondHighWater
  <2>3. QED
    BY <2>1, <2>2
<1>6. PollsInOrder'
  <2>1. \A s \in 1 .. NextToSend' - 1 : s \in Held(broadcasts)
    <3>1. 1 .. NextToSend' - 1 \subseteq 1 .. NextToSend - 1
      BY <1>0, <1>4, <1>5, NextToSendType
    <3>2. QED
      BY <3>1 DEF RelayInv, PollsInOrder
  <2>2. QED
    BY <1>1, <2>1 DEF RelayInv, PollsInOrder
<1>7. ASSUME NEW c \in Clients PROVE AscendsAhead(c)' /\ SeesAll(c)' /\ NoGap(c)'
  <2>1. flaw'[c] \subseteq {"resent"} <=> flaw[c] \subseteq {"resent"}
    BY <1>2
  <2>2. SeesAll(c)' /\ NoGap(c)'
    BY <1>1, <2>1 DEF RelayInv, SeesAll, NoGap, Matches
  <2>3. AscendsAhead(c)'
    <3>1. CASE SentBeyondHighWater /\ c \in Connected
      <4>1. flaw' = [d \in Clients |-> IF d \in Connected THEN flaw[d] \cup {"resent"} ELSE flaw[d]]
        BY <3>1 DEF PollBreaks, Flawed
      <4>2. QED
        BY <3>1, <4>1 DEF AscendsAhead
    <3>2. CASE c \notin Connected
      BY <1>1, <3>2 DEF AscendsAhead, Connected
    <3>3. CASE ~SentBeyondHighWater
      <4>1. flaw'[c] = flaw[c]
        BY <1>2, <3>3
      <4>2. QED
        BY <1>1, <1>5, <3>3, <4>1 DEF RelayInv, AscendsAhead, Ahead
    <3>4. QED
      BY <3>1, <3>2, <3>3
  <2>4. QED
    BY <2>2, <2>3
<1>8. QED
  BY <1>3, <1>6, <1>7 DEF RelayInv

\* the sidecar starts again: nothing was sent, nobody is connected
LEMMA RestartKeeps ==
    ASSUME RelayInv, RelayRestarts
    PROVE  RelayInv'
<1>0. RelayTypeOK
  BY DEF RelayInv
<1>1. /\ poller' = Closed /\ broadcasts' = <<>> /\ UNCHANGED <<events, connections>>
      /\ client' = [c \in Clients |-> Unconnected]
      /\ received' = [c \in Clients |-> <<>>]
      /\ flaw' = [c \in Clients |-> {}]
      /\ relayFaults' \in 0 .. RelayFaults
  BY <1>0, RelayAssumption DEF RelayRestarts, RelayTypeOK, Fault
<1>2. Len(broadcasts') = 0 /\ DOMAIN broadcasts' = {} /\ Len(events) \in Nat
  BY <1>0, <1>1, RelayTypes
<1>3. RelayTypeOK'
  <2>1. Unconnected \in [phase : {"off", "subscribed", "replaying", "live"},
                         next : 1 .. Len(broadcasts') + 1, after : 0 .. Len(events),
                         backlog : Seq(DOMAIN events)]
    BY <1>2, EmptySeq DEF Unconnected
  <2>2. Closed \in [open : BOOLEAN, highWater : 0 .. Len(events), rows : Seq(DOMAIN events)]
    BY <1>2, EmptySeq DEF Closed
  <2>3. QED
    BY <1>0, <1>1, <2>1, <2>2, EmptySeq DEF RelayTypeOK
<1>4. PollsInOrder'
  BY <1>1, <1>2 DEF PollsInOrder, NextToSend, Closed
<1>5. \A c \in Clients : AscendsAhead(c)' /\ SeesAll(c)' /\ NoGap(c)'
  BY <1>1 DEF AscendsAhead, SeesAll, NoGap, Unconnected
<1>6. QED
  BY <1>3, <1>4, <1>5 DEF RelayInv

\* a step of one connection leaves the others alone
LEMMA OneStreamMoves ==
    ASSUME RelayInv, NEW c \in Clients, UNCHANGED <<events, poller, broadcasts>>, RelayTypeOK',
           \A d \in Clients : d # c => /\ client'[d] = client[d] /\ received'[d] = received[d]
                                       /\ flaw'[d] = flaw[d],
           AscendsAhead(c)', SeesAll(c)', NoGap(c)'
    PROVE  RelayInv'
<1>1. NextToSend' = NextToSend /\ PollsInOrder'
  BY DEF RelayInv, PollsInOrder, NextToSend
<1>2. \A d \in Clients : d # c => AscendsAhead(d)' /\ SeesAll(d)' /\ NoGap(d)'
  BY <1>1, ConnectionStays
<1>3. QED
  BY <1>1, <1>2 DEF RelayInv

\* the types of a step of one connection
LEMMA StreamTypes ==
    ASSUME RelayTypeOK, NEW c \in Clients, NEW to \in Connection, NEW got \in Seq(DOMAIN events),
           UNCHANGED <<events, poller, broadcasts>>,
           client' = [client EXCEPT ![c] = to], received' = [received EXCEPT ![c] = got],
           flaw' \in [Clients -> SUBSET {"blind", "lagged", "resent"}],
           relayFaults' \in 0 .. RelayFaults, connections' \in 0 .. Connections
    PROVE  /\ RelayTypeOK'
           /\ client'[c] = to /\ received'[c] = got
           /\ \A d \in Clients : d # c => client'[d] = client[d] /\ received'[d] = received[d]
<1>1. /\ client \in [Clients -> Connection] /\ received \in [Clients -> Seq(DOMAIN events)]
  BY DEF RelayTypeOK, Connection
<1>2. /\ client' \in [Clients -> Connection] /\ received' \in [Clients -> Seq(DOMAIN events)]
      /\ client'[c] = to /\ received'[c] = got
      /\ \A d \in Clients : d # c => client'[d] = client[d] /\ received'[d] = received[d]
  BY <1>1
<1>3. QED
  BY <1>2 DEF RelayTypeOK, Connection

LEMMA SubscribeKeeps ==
    ASSUME RelayInv, NEW c \in Clients, Subscribe(c)
    PROVE  RelayInv'
<1> DEFINE to == [Unconnected EXCEPT !.phase = "subscribed", !.next = Len(broadcasts) + 1]
<1>0. RelayTypeOK
  BY DEF RelayInv
<1>1. /\ to.phase = "subscribed" /\ to.next = Len(broadcasts) + 1 /\ to.after = 0 /\ to.backlog = <<>>
      /\ to \in Connection
  <2>1. to.phase = "subscribed" /\ to.next = Len(broadcasts) + 1 /\ to.after = 0 /\ to.backlog = <<>>
    BY DEF Unconnected
  <2>2. Len(broadcasts) + 1 \in 1 .. Len(broadcasts) + 1 /\ 0 \in 0 .. Len(events)
    BY <1>0, RelayTypes
  <2>3. <<>> \in Seq(DOMAIN events)
    BY EmptySeq
  <2>4. Unconnected \in [phase : {"off", "subscribed", "replaying", "live"}, next : Nat,
                         after : 0 .. Len(events), backlog : Seq(DOMAIN events)]
    BY <2>2, <2>3 DEF Unconnected
  <2>5. to \in Connection
    BY <2>2, <2>4 DEF Connection
  <2>6. QED
    BY <2>1, <2>5
<1>2. received[c] = <<>> /\ client[c].phase = "off"
  BY DEF Subscribe, RelayInv, SeesAll
<1>3. /\ client' = [client EXCEPT ![c] = to]
      /\ received' = [received EXCEPT ![c] = received[c]]
      /\ UNCHANGED <<events, poller, broadcasts, flaw, relayFaults>>
      /\ connections' \in 0 .. Connections /\ relayFaults' \in 0 .. RelayFaults
      /\ flaw' \in [Clients -> SUBSET {"blind", "lagged", "resent"}]
  BY SMTT(30), <1>0, RelayAssumption DEF Subscribe, RelayTypeOK
<1> HIDE DEF to
<1>4. /\ RelayTypeOK'
      /\ client'[c] = to /\ received'[c] = <<>>
      /\ \A d \in Clients : d # c => client'[d] = client[d] /\ received'[d] = received[d]
  BY <1>0, <1>1, <1>2, <1>3, RelayTypes, StreamTypes
<1>5. Ahead(c)' = {} /\ Len(broadcasts) \in Nat
  <2>1. Ahead(c)' = Len(broadcasts) + 1 .. Len(broadcasts) /\ Len(broadcasts) \in Nat
    BY <1>0, <1>1, <1>3, <1>4, RelayTypes DEF Ahead
  <2>2. QED
    BY <2>1
<1>6. AscendsAhead(c)' /\ SeesAll(c)' /\ NoGap(c)'
  BY <1>1, <1>4, <1>5 DEF AscendsAhead, SeesAll, NoGap, Ascending, Held
<1>7. QED
  BY <1>3, <1>4, <1>6, OneStreamMoves

\* the backlog is what the log carries for the connection, and every row
\* broadcast until now is in the log
LEMMA ReadBacklogKeeps ==
    ASSUME RelayInv, NEW c \in Clients, ReadBacklog(c)
    PROVE  RelayInv'
<1> DEFINE carried == {s \in DOMAIN events : Matches(c, s)}
           rows == Keep(From(1, Len(events)), carried)
           to == [client[c] EXCEPT !.phase = "replaying", !.after = Len(events), !.backlog = rows]
<1>0. RelayTypeOK
  BY DEF RelayInv
<1>1. rows \in Seq(DOMAIN events) /\ Held(rows) = carried /\ Ascending(rows)
  <2>1. /\ From(1, Len(events)) \in Seq(1 .. Len(events)) /\ Held(From(1, Len(events))) = 1 .. Len(events)
        /\ Ascending(From(1, Len(events))) /\ DOMAIN events = 1 .. Len(events)
    BY <1>0, RelayTypes, FromIsRange
  <2>2. \A s \in 1 .. Len(events) : s \in Nat
    BY <1>0, RelayTypes
  <2>3. From(1, Len(events)) \in Seq(Nat)
    BY <2>1, <2>2, SeqMonotonic
  <2> HIDE DEF carried
  <2>4. rows \in Seq(1 .. Len(events)) /\ Held(rows) = (1 .. Len(events)) \cap carried
    BY <2>1, KeepHolds
  <2>5. Ascending(rows)
    BY <2>1, <2>3, KeepAscends
  <2>6. carried \subseteq 1 .. Len(events)
    BY <2>1 DEF carried
  <2>7. QED
    BY <2>1, <2>4, <2>5, <2>6
<1> HIDE DEF rows
<1>2. /\ to.phase = "replaying" /\ to.next = client[c].next /\ to.after = Len(events) /\ to.backlog = rows
      /\ to \in Connection /\ client[c].phase = "subscribed"
  <2>1. client[c] \in Connection /\ Len(events) \in 0 .. Len(events)
    BY <1>0, RelayTypes
  <2>2. to.phase = "replaying" /\ to.next = client[c].next /\ to.after = Len(events) /\ to.backlog = rows
    BY <2>1 DEF Connection
  <2>3. to \in Connection
    BY <1>1, <2>1 DEF Connection
  <2>4. QED
    BY <2>2, <2>3 DEF ReadBacklog
<1>3. received[c] = <<>>
  BY DEF ReadBacklog, RelayInv, SeesAll
<1>4. /\ client' = [client EXCEPT ![c] = to]
      /\ received' = [received EXCEPT ![c] = received[c]]
      /\ UNCHANGED <<events, poller, broadcasts, flaw, relayFaults, connections>>
      /\ connections' \in 0 .. Connections /\ relayFaults' \in 0 .. RelayFaults
      /\ flaw' \in [Clients -> SUBSET {"blind", "lagged", "resent"}]
  BY <1>0 DEF ReadBacklog, RelayTypeOK, rows, carried
<1> HIDE DEF to
<1>5. /\ RelayTypeOK'
      /\ client'[c] = to /\ received'[c] = <<>>
      /\ \A d \in Clients : d # c => client'[d] = client[d] /\ received'[d] = received[d]
  BY <1>0, <1>2, <1>3, <1>4, RelayTypes, StreamTypes
<1>6. AscendsAhead(c)'
  <2>1. Ahead(c)' = Ahead(c)
    BY <1>2, <1>4, <1>5 DEF Ahead
  <2>2. NextToSend' = NextToSend
    BY <1>4 DEF NextToSend
  <2>3. QED
    BY <1>2, <1>3, <1>4, <1>5, <2>1, <2>2 DEF RelayInv, AscendsAhead, Held
<1>7. SeesAll(c)'
  <2>1. \A s \in carried : s <= Len(events) /\ s \in DOMAIN events
    BY <1>0, RelayTypes
  <2>2. \A k \in 1 .. client[c].next - 1 : broadcasts[k] <= Len(events)
    <3> SUFFICES ASSUME NEW k \in 1 .. client[c].next - 1 PROVE broadcasts[k] <= Len(events)
      OBVIOUS
    <3>1. k \in DOMAIN broadcasts
      BY <1>0, RelayTypes DEF Connection
    <3>2. broadcasts[k] \in 1 .. Len(events)
      BY <1>0, <3>1, RelayTypes
    <3>3. QED
      BY <1>0, <3>2, RelayTypes
  <2>3. \A s \in 1 .. Len(events) : s \in DOMAIN events' /\ Matches(c, s)' => s \in Held(rows)
    BY <1>1, <1>4 DEF Matches
  <2>4. QED
    BY <1>1, <1>2, <1>4, <1>5, <2>1, <2>2, <2>3 DEF SeesAll
<1>8. NoGap(c)'
  BY <1>5 DEF NoGap
<1>9. QED
  BY <1>4, <1>5, <1>6, <1>7, <1>8, OneStreamMoves

LEMMA BacklogFailsKeeps ==
    ASSUME RelayInv, NEW c \in Clients, BacklogFails(c)
    PROVE  RelayInv'
<1> DEFINE to == [client[c] EXCEPT !.phase = "replaying"]
<1>0. RelayTypeOK
  BY DEF RelayInv
<1>1. /\ to.phase = "replaying" /\ to.next = client[c].next /\ to.after = client[c].after
      /\ to.backlog = <<>> /\ to \in Connection /\ client[c].phase = "subscribed"
  <2>1. client[c] \in Connection /\ client[c].backlog = <<>> /\ client[c].phase = "subscribed"
    BY <1>0, RelayTypes DEF RelayInv, SeesAll, BacklogFails
  <2>2. to.phase = "replaying" /\ to.next = client[c].next /\ to.after = client[c].after /\ to.backlog = <<>>
    BY <2>1 DEF Connection
  <2>3. to \in Connection
    BY <2>1 DEF Connection
  <2>4. QED
    BY <2>1, <2>2, <2>3
<1>2. received[c] = <<>>
  BY DEF BacklogFails, RelayInv, SeesAll
<1>3. flaw' = [d \in Clients |-> IF d \in {c} THEN flaw[d] \cup {"blind"} ELSE flaw[d]]
  BY DEF BacklogFails, Flawed
<1>4. /\ client' = [client EXCEPT ![c] = to]
      /\ received' = [received EXCEPT ![c] = received[c]]
      /\ UNCHANGED <<events, poller, broadcasts, connections>>
      /\ connections' \in 0 .. Connections /\ relayFaults' \in 0 .. RelayFaults
  BY SMTT(30), <1>0, RelayAssumption DEF BacklogFails, RelayTypeOK, Fault
<1>5. flaw' \in [Clients -> SUBSET {"blind", "lagged", "resent"}]
  BY <1>0, <1>3 DEF RelayTypeOK
<1> HIDE DEF to
<1>6. /\ RelayTypeOK'
      /\ client'[c] = to /\ received'[c] = <<>>
      /\ \A d \in Clients : d # c => client'[d] = client[d] /\ received'[d] = received[d]
  BY <1>0, <1>1, <1>2, <1>4, <1>5, RelayTypes, StreamTypes
<1>7. "blind" \in flaw'[c] /\ ("resent" \in flaw'[c] <=> "resent" \in flaw[c])
      /\ \A d \in Clients : d # c => flaw'[d] = flaw[d]
  BY <1>0, <1>3
<1>8. AscendsAhead(c)'
  <2>1. Ahead(c)' = Ahead(c) /\ NextToSend' = NextToSend
    BY <1>1, <1>4, <1>6 DEF Ahead, NextToSend
  <2>2. QED
    BY <1>1, <1>2, <1>4, <1>6, <1>7, <2>1 DEF RelayInv, AscendsAhead, Held
<1>9. SeesAll(c)'
  BY <1>1, <1>6, <1>7 DEF SeesAll, Ascending, Held
<1>10. NoGap(c)'
  BY <1>7 DEF NoGap
<1>11. QED
  BY <1>4, <1>6, <1>7, <1>8, <1>9, <1>10, OneStreamMoves

\* what ascends and holds every carried row up to its last has no gap
LEMMA AscendingHasNoGap ==
    ASSUME NEW n \in Nat, NEW r \in Seq(1 .. n), Ascending(r), NEW T,
           NEW i \in DOMAIN r, NEW s \in 1 .. r[i], \A t \in 1 .. r[i] : t \in T => t \in Held(r), s \in T
    PROVE  \E j \in 1 .. i : r[j] = s
<1>1. PICK j \in DOMAIN r : r[j] = s
  BY DEF Held
<1>2. Len(r) \in Nat /\ DOMAIN r = 1 .. Len(r) /\ r[i] \in Nat /\ s \in Nat /\ s <= r[i]
  BY Positions
<1>3. ~(i < j)
  BY <1>1, <1>2 DEF Ascending
<1>4. QED
  BY <1>1, <1>2, <1>3

LEMMA ReplayKeeps ==
    ASSUME RelayInv, NEW c \in Clients, Replay(c)
    PROVE  RelayInv'
<1> DEFINE to == [client[c] EXCEPT !.phase = "live", !.backlog = <<>>]
<1>0. RelayTypeOK
  BY DEF RelayInv
<1>1. /\ to.phase = "live" /\ to.next = client[c].next /\ to.after = client[c].after
      /\ to.backlog = <<>> /\ to \in Connection
      /\ client[c].phase = "replaying" /\ client[c].backlog \in Seq(DOMAIN events)
      /\ client[c].after \in 0 .. Len(events) /\ client[c].next \in 1 .. Len(broadcasts) + 1
  <2>1. client[c] \in Connection /\ <<>> \in Seq(DOMAIN events)
    BY <1>0, RelayTypes, EmptySeq
  <2>2. to.phase = "live" /\ to.next = client[c].next /\ to.after = client[c].after /\ to.backlog = <<>>
    BY <2>1 DEF Connection
  <2>3. to \in Connection /\ client[c].backlog \in Seq(DOMAIN events)
        /\ client[c].after \in 0 .. Len(events) /\ client[c].next \in 1 .. Len(broadcasts) + 1
    BY <2>1 DEF Connection
  <2>4. QED
    BY <2>2, <2>3 DEF Replay
<1>2. /\ client' = [client EXCEPT ![c] = to]
      /\ received' = [received EXCEPT ![c] = client[c].backlog]
      /\ UNCHANGED <<events, poller, broadcasts, flaw, relayFaults, connections>>
      /\ connections' \in 0 .. Connections /\ relayFaults' \in 0 .. RelayFaults
      /\ flaw' \in [Clients -> SUBSET {"blind", "lagged", "resent"}]
  BY <1>0 DEF Replay, RelayTypeOK
<1> HIDE DEF to
<1>3. /\ RelayTypeOK'
      /\ client'[c] = to /\ received'[c] = client[c].backlog
      /\ \A d \in Clients : d # c => client'[d] = client[d] /\ received'[d] = received[d]
  BY <1>0, <1>1, <1>2, StreamTypes
<1>4. Ascending(client[c].backlog) /\ \A s \in Held(client[c].backlog) : s <= client[c].after
  BY <1>1 DEF RelayInv, SeesAll
<1>5. AscendsAhead(c)'
  <2>1. Ahead(c)' = Ahead(c) /\ NextToSend' = NextToSend
    BY <1>1, <1>2, <1>3 DEF Ahead, NextToSend
  <2>2. \A k \in Ahead(c) : broadcasts[k] \in Nat
    BY <1>0, <1>1, RelayTypes DEF Ahead
  <2>3. \A s \in Held(client[c].backlog) : s \in Nat
    <3>1. \A i \in DOMAIN client[c].backlog : client[c].backlog[i] \in 1 .. Len(events)
      BY <1>0, <1>1, RelayTypes, Positions
    <3>2. QED
      BY <3>1 DEF Held
  <2>4. \A s \in Held(client[c].backlog) : \A k \in Ahead(c) :
           broadcasts[k] > client[c].after => s < broadcasts[k]
    BY <1>1, <1>4, <2>2, <2>3
  <2>5. QED
    BY <1>1, <1>2, <1>3, <1>4, <2>1, <2>4 DEF RelayInv, AscendsAhead
<1>6. SeesAll(c)'
  <2>1. ASSUME flaw[c] \subseteq {"resent"}, NEW k \in 1 .. client[c].next - 1,
               broadcasts[k] \in DOMAIN events, Matches(c, broadcasts[k])
        PROVE  broadcasts[k] \in Held(client[c].backlog)
    <3>1. broadcasts[k] <= client[c].after
      BY <1>1, <2>1 DEF RelayInv, SeesAll
    <3>2. broadcasts[k] \in 1 .. client[c].after
      BY <1>0, <1>1, <2>1, <3>1, RelayTypes
    <3>3. QED
      BY <1>1, <2>1, <3>2 DEF RelayInv, SeesAll
  <2>2. flaw[c] \subseteq {"resent"} =>
           \A s \in 1 .. client[c].after : s \in DOMAIN events /\ Matches(c, s) => s \in Held(client[c].backlog)
    BY <1>1 DEF RelayInv, SeesAll
  <2>3. QED
    BY <1>1, <1>2, <1>3, <2>1, <2>2 DEF SeesAll, Matches
<1>7. NoGap(c)'
  <2> SUFFICES ASSUME flaw[c] \subseteq {"resent"}, NEW i \in DOMAIN client[c].backlog,
                      NEW s \in 1 .. client[c].backlog[i], Matches(c, s)
               PROVE  \E j \in 1 .. i : client[c].backlog[j] = s
    BY <1>2, <1>3 DEF NoGap, Matches
  <2> DEFINE r == client[c].backlog
             T == {t \in DOMAIN events : Matches(c, t)}
  <2>1. r[i] \in 1 .. Len(events) /\ r[i] <= client[c].after /\ Len(events) \in Nat
    <3>1. r[i] \in DOMAIN events
      BY <1>1, Positions
    <3>2. QED
      BY <1>0, <1>4, <3>1, RelayTypes DEF Held
  <2>2. \A t \in 1 .. r[i] : t \in 1 .. client[c].after /\ t \in DOMAIN events
    BY SMTT(30), <1>0, <1>1, <2>1, RelayTypes
  <2>3. \A t \in 1 .. r[i] : t \in T => t \in Held(r)
    BY <1>1, <2>2 DEF RelayInv, SeesAll
  <2>4. s \in T /\ r \in Seq(1 .. Len(events)) /\ Ascending(r) /\ i \in DOMAIN r /\ s \in 1 .. r[i]
    BY <1>0, <1>1, <1>4, <2>2, RelayTypes
  <2> HIDE DEF r, T
  <2>5. \E j \in 1 .. i : r[j] = s
    BY <2>1, <2>3, <2>4, AscendingHasNoGap
  <2>6. QED
    BY <2>5 DEF r
<1>8. QED
  BY <1>2, <1>3, <1>5, <1>6, <1>7, OneStreamMoves

\* the next broadcast: above all the connection got, and what lies below it was
\* broadcast before
LEMMA ReceiveKeeps ==
    ASSUME RelayInv, NEW c \in Clients, Receive(c)
    PROVE  RelayInv'
<1> DEFINE to == [client[c] EXCEPT !.next = @ + 1]
           at == client[c].next
           row == broadcasts[at]
           taken == row > client[c].after /\ Matches(c, row)
           got == IF taken THEN Append(received[c], row) ELSE received[c]
<1>0. RelayTypeOK
  BY DEF RelayInv
<1>1. /\ to.phase = "live" /\ to.next = at + 1 /\ to.after = client[c].after
      /\ to.backlog = <<>> /\ to \in Connection /\ client[c].phase = "live"
      /\ client[c].after \in 0 .. Len(events) /\ at \in DOMAIN broadcasts /\ at \in 1 .. Len(broadcasts)
      /\ row \in DOMAIN events /\ row \in Nat
  <2>1. /\ client[c] \in Connection /\ client[c].backlog = <<>> /\ client[c].phase = "live"
        /\ at <= Len(broadcasts)
    BY <1>0, RelayTypes DEF RelayInv, SeesAll, Receive
  <2>2. at \in 1 .. Len(broadcasts) + 1 /\ client[c].after \in 0 .. Len(events) /\ Len(broadcasts) \in Nat
    BY <1>0, <2>1, RelayTypes DEF Connection
  <2>3. at \in 1 .. Len(broadcasts) /\ at + 1 \in 1 .. Len(broadcasts) + 1
    BY <2>1, <2>2
  <2>4. to.phase = "live" /\ to.next = at + 1 /\ to.after = client[c].after /\ to.backlog = <<>>
    BY <2>1 DEF Connection
  <2>5. to \in Connection
    BY <2>1, <2>3 DEF Connection
  <2>6. row \in DOMAIN events /\ row \in Nat
    BY <1>0, <2>3, RelayTypes
  <2>7. QED
    BY <1>0, <2>1, <2>2, <2>3, <2>4, <2>5, <2>6, RelayTypes
<1>2. /\ client' = [client EXCEPT ![c] = to]
      /\ received' = [received EXCEPT ![c] = got]
      /\ UNCHANGED <<events, poller, broadcasts, flaw, relayFaults, connections>>
      /\ connections' \in 0 .. Connections /\ relayFaults' \in 0 .. RelayFaults
      /\ flaw' \in [Clients -> SUBSET {"blind", "lagged", "resent"}]
  <2>1. received' = [received EXCEPT ![c] = got]
    <3>1. CASE taken
      BY <1>0, <3>1 DEF Receive, RelayTypeOK
    <3>2. CASE ~taken
      BY <1>0, <3>2 DEF Receive, RelayTypeOK
    <3>3. QED
      BY <3>1, <3>2
  <2>2. QED
    BY <1>0, <2>1 DEF Receive, RelayTypeOK
<1> HIDE DEF to, row
<1>3. received[c] \in Seq(DOMAIN events)
  BY <1>0, RelayTypes
<1>4. /\ got \in Seq(DOMAIN events)
      /\ Held(got) = IF taken THEN Held(received[c]) \cup {row} ELSE Held(received[c])
      /\ taken => /\ DOMAIN got = (DOMAIN received[c]) \cup {Len(received[c]) + 1}
                  /\ Len(received[c]) \in Nat /\ DOMAIN received[c] = 1 .. Len(received[c])
                  /\ \A i \in DOMAIN received[c] : got[i] = received[c][i]
                  /\ got[Len(received[c]) + 1] = row
  <2>0. row \in DOMAIN events
    BY <1>1
  <2> HIDE DEF taken
  <2>1. CASE taken
    <3>1. got = Append(received[c], row)
      BY <2>1
    <3> HIDE DEF got
    <3>2. QED
      BY <2>0, <2>1, <1>3, <3>1, AppendGrows, AppendHolds
  <2>2. CASE ~taken
    BY <1>3, <2>2
  <2>3. QED
    BY <2>1, <2>2
<1> HIDE DEF got, taken
<1>5. /\ RelayTypeOK'
      /\ client'[c] = to /\ received'[c] = got
      /\ \A d \in Clients : d # c => client'[d] = client[d] /\ received'[d] = received[d]
  <2>1. to \in Connection /\ got \in Seq(DOMAIN events)
    BY <1>1, <1>4
  <2>2. QED
    BY <1>0, <1>2, <2>1, StreamTypes
<1>6. /\ Ahead(c)' = at + 1 .. Len(broadcasts) /\ Ahead(c) = at .. Len(broadcasts)
      /\ at \in Ahead(c) /\ Ahead(c)' \subseteq Ahead(c) /\ \A k \in Ahead(c)' : at < k
  <2>1. Ahead(c)' = at + 1 .. Len(broadcasts) /\ Ahead(c) = at .. Len(broadcasts)
    BY <1>1, <1>2, <1>5 DEF Ahead
  <2>2. at \in Nat /\ Len(broadcasts) \in Nat /\ at <= Len(broadcasts)
    BY <1>0, <1>1, RelayTypes
  <2> HIDE DEF at
  <2>3. QED
    BY <2>1, <2>2
<1>7. \A s \in Held(received[c]) : s \in Nat
  BY <1>0, RelayTypes
<1>8. AscendsAhead(c)'
  <2> SUFFICES ASSUME "resent" \notin flaw[c]
               PROVE  /\ \A k, l \in Ahead(c)' : k < l => broadcasts[k] < broadcasts[l]
                      /\ \A k \in Ahead(c)' : broadcasts[k] < NextToSend
                      /\ \A s \in Held(got) :
                            /\ s <= client[c].after \/ s < NextToSend
                            /\ \A k \in Ahead(c)' : broadcasts[k] > client[c].after => s < broadcasts[k]
                      /\ Ascending(got)
    BY <1>1, <1>2, <1>5 DEF AscendsAhead, NextToSend
  <2>1. /\ \A k, l \in Ahead(c) : k < l => broadcasts[k] < broadcasts[l]
        /\ \A k \in Ahead(c) : broadcasts[k] < NextToSend
        /\ \A s \in Held(received[c]) :
              /\ s <= client[c].after \/ s < NextToSend
              /\ \A k \in Ahead(c) : broadcasts[k] > client[c].after => s < broadcasts[k]
        /\ Ascending(received[c])
    BY <1>1 DEF RelayInv, AscendsAhead
  <2>2. row < NextToSend /\ \A k \in Ahead(c)' : row < broadcasts[k]
    BY <1>6, <2>1 DEF row
  <2>3. \A s \in Held(got) :
           /\ s <= client[c].after \/ s < NextToSend
           /\ \A k \in Ahead(c)' : broadcasts[k] > client[c].after => s < broadcasts[k]
    BY <1>4, <1>6, <2>1, <2>2
  <2>4. Ascending(got)
    <3>1. CASE taken
      <4>1. \A i \in DOMAIN received[c] : received[c][i] < row
        BY <1>6, <2>1, <3>1 DEF Held, taken, row
      <4>2. ASSUME NEW i \in DOMAIN got, NEW j \in DOMAIN got, i < j PROVE got[i] < got[j]
        <5>1. i \in DOMAIN received[c]
          BY <1>4, <3>1, <4>2
        <5>2. CASE j \in DOMAIN received[c]
          BY <1>4, <2>1, <3>1, <4>2, <5>1, <5>2 DEF Ascending
        <5>3. CASE j = Len(received[c]) + 1
          BY <1>4, <3>1, <4>1, <5>1, <5>3
        <5>4. QED
          BY <1>4, <3>1, <5>2, <5>3
      <4>3. QED
        BY <4>2 DEF Ascending
    <3>2. CASE ~taken
      BY <2>1, <3>2 DEF got
    <3>3. QED
      BY <3>1, <3>2
  <2>5. QED
    BY <1>6, <2>1, <2>3, <2>4
<1>9. ASSUME flaw[c] \subseteq {"resent"}, Matches(c, row), ~taken PROVE row \in Held(received[c])
  <2>1. row \in 1 .. client[c].after
    BY <1>0, <1>1, <1>9, RelayTypes DEF taken
  <2>2. QED
    BY <1>1, <1>9, <2>1 DEF RelayInv, SeesAll
<1>10. SeesAll(c)'
  <2> SUFFICES ASSUME flaw[c] \subseteq {"resent"}
               PROVE  /\ \A s \in 1 .. client[c].after : s \in DOMAIN events /\ Matches(c, s) => s \in Held(got)
                      /\ \A k \in 1 .. at : broadcasts[k] \in DOMAIN events /\ Matches(c, broadcasts[k])
                                            => broadcasts[k] \in Held(got)
    <3>1. at + 1 - 1 = at
      BY <1>1
    <3>2. QED
      BY SMTT(30), <1>1, <1>2, <1>5, <3>1 DEF SeesAll, Matches
  <2>1. Held(received[c]) \subseteq Held(got)
    BY <1>4
  <2>2. \A s \in 1 .. client[c].after : s \in DOMAIN events /\ Matches(c, s) => s \in Held(got)
    BY <1>1, <2>1 DEF RelayInv, SeesAll
  <2>3. ASSUME NEW k \in 1 .. at, broadcasts[k] \in DOMAIN events, Matches(c, broadcasts[k])
        PROVE  broadcasts[k] \in Held(got)
    <3>1. CASE k = at
      BY <1>4, <1>9, <2>3, <3>1 DEF row
    <3>2. CASE k # at
      <4>1. k \in 1 .. at - 1
        BY <1>1, <3>2
      <4>2. QED
        BY <1>1, <2>1, <2>3, <4>1 DEF RelayInv, SeesAll
    <3>3. QED
      BY <3>1, <3>2
  <2>4. QED
    BY <2>2, <2>3
<1>11. NoGap(c)'
  <2> SUFFICES ASSUME flaw[c] \subseteq {"resent"}, NEW i \in DOMAIN got, NEW s \in 1 .. got[i], Matches(c, s)
               PROVE  \E j \in 1 .. i : got[j] = s
    BY <1>2, <1>5 DEF NoGap, Matches
  <2>1. CASE ~taken
    BY <2>1 DEF got, RelayInv, NoGap
  <2>2. CASE taken /\ i \in DOMAIN received[c]
    <3>1. PICK j \in 1 .. i : received[c][j] = s
      BY <1>4, <2>2 DEF RelayInv, NoGap
    <3>2. j \in DOMAIN received[c]
      BY <1>4, <2>2
    <3>3. QED
      BY <1>4, <2>2, <3>1, <3>2
  <2>3. CASE taken /\ i = Len(received[c]) + 1
    <3>1. PICK k \in 1 .. at : broadcasts[k] = s
      BY <1>1, <1>4, <2>3 DEF RelayInv, PollsInOrder, row
    <3>2. s \in Held(got)
      <4>1. CASE k = at
        BY <1>4, <2>3, <3>1, <4>1 DEF row
      <4>2. CASE k # at
        <5>1. k \in 1 .. at - 1
          BY <1>1, <4>2
        <5>2. broadcasts[k] \in DOMAIN events
          BY <1>0, <1>1, <5>1, RelayTypes
        <5>3. QED
          BY <1>1, <1>4, <2>3, <3>1, <5>1, <5>2 DEF RelayInv, SeesAll
      <4>3. QED
        BY <4>1, <4>2
    <3>3. PICK j \in DOMAIN got : got[j] = s
      BY <3>2 DEF Held
    <3>4. j \in 1 .. i
      BY <1>4, <2>3
    <3>5. QED
      BY <3>3, <3>4
  <2>4. QED
    BY <1>4, <2>1, <2>2, <2>3
<1>12. QED
  BY <1>2, <1>5, <1>8, <1>10, <1>11, OneStreamMoves

\* a connection that lagged goes on further ahead
LEMMA LagKeeps ==
    ASSUME RelayInv, NEW c \in Clients, Lag(c)
    PROVE  RelayInv'
<1> DEFINE next == Len(broadcasts) - Capacity + 1
           to == [client[c] EXCEPT !.next = next]
<1>0. RelayTypeOK
  BY DEF RelayInv
<1>1. client[c] \in Connection /\ client[c].backlog = <<>> /\ client[c].phase = "live"
  BY <1>0, RelayTypes DEF RelayInv, SeesAll, Lag
<1>2. client[c].next \in Nat /\ next \in 1 .. Len(broadcasts) + 1 /\ client[c].next <= next
  <2>1. client[c].next \in 1 .. Len(broadcasts) + 1 /\ Len(broadcasts) \in Nat /\ Capacity \in Nat \ {0}
        /\ client[c].next + Capacity <= Len(broadcasts)
    BY <1>0, <1>1, RelayTypes, RelayAssumption DEF Connection, Lag
  <2>2. QED
    BY <2>1
<1>3. to.phase = "live" /\ to.next = next /\ to.after = client[c].after /\ to.backlog = <<>> /\ to \in Connection
  <2> HIDE DEF next
  <2>1. to.phase = "live" /\ to.next = next /\ to.after = client[c].after /\ to.backlog = <<>>
    BY <1>1 DEF Connection
  <2>2. to \in Connection
    BY <1>1, <1>2 DEF Connection
  <2>3. QED
    BY <2>1, <2>2
<1>4. flaw' = [d \in Clients |-> IF d \in {c} THEN flaw[d] \cup {"lagged"} ELSE flaw[d]]
  BY DEF Lag, Flawed
<1>5. /\ client' = [client EXCEPT ![c] = to]
      /\ received' = [received EXCEPT ![c] = received[c]]
      /\ UNCHANGED <<events, poller, broadcasts, connections, relayFaults>>
      /\ connections' \in 0 .. Connections /\ relayFaults' \in 0 .. RelayFaults
  BY <1>0 DEF Lag, RelayTypeOK
<1>6. flaw' \in [Clients -> SUBSET {"blind", "lagged", "resent"}]
  BY <1>0, <1>4 DEF RelayTypeOK
<1>7. "lagged" \in flaw'[c] /\ ("resent" \in flaw'[c] <=> "resent" \in flaw[c])
      /\ \A d \in Clients : d # c => flaw'[d] = flaw[d]
  BY <1>0, <1>4
<1> HIDE DEF to, next
<1>8. /\ RelayTypeOK'
      /\ client'[c] = to /\ received'[c] = received[c]
      /\ \A d \in Clients : d # c => client'[d] = client[d] /\ received'[d] = received[d]
  BY <1>0, <1>3, <1>5, <1>6, RelayTypes, StreamTypes
<1>9. AscendsAhead(c)'
  <2>1. Ahead(c)' \subseteq Ahead(c) /\ NextToSend' = NextToSend
    <3>1. Ahead(c)' = next .. Len(broadcasts) /\ Ahead(c) = client[c].next .. Len(broadcasts) /\ Len(broadcasts) \in Nat
      BY <1>0, <1>3, <1>5, <1>8, RelayTypes DEF Ahead
    <3>2. NextToSend' = NextToSend
      BY <1>5 DEF NextToSend
    <3>3. QED
      BY <1>2, <3>1, <3>2
  <2>2. QED
    BY <1>1, <1>3, <1>5, <1>7, <1>8, <2>1 DEF RelayInv, AscendsAhead
<1>10. SeesAll(c)'
  BY <1>3, <1>7, <1>8 DEF SeesAll
<1>11. NoGap(c)'
  BY <1>7 DEF NoGap
<1>12. QED
  BY <1>5, <1>7, <1>8, <1>9, <1>10, <1>11, OneStreamMoves

LEMMA DisconnectKeeps ==
    ASSUME RelayInv, NEW c \in Clients, Disconnect(c)
    PROVE  RelayInv'
<1>0. RelayTypeOK
  BY DEF RelayInv
<1>1. Unconnected \in Connection /\ Unconnected.phase = "off" /\ Unconnected.backlog = <<>>
  <2>1. Len(broadcasts) \in Nat /\ Len(events) \in Nat /\ <<>> \in Seq(DOMAIN events)
    BY <1>0, RelayTypes, EmptySeq
  <2>2. QED
    BY <2>1 DEF Unconnected, Connection
<1>2. /\ client' = [client EXCEPT ![c] = Unconnected]
      /\ received' = [received EXCEPT ![c] = <<>>]
      /\ UNCHANGED <<events, poller, broadcasts, connections, relayFaults>>
      /\ connections' \in 0 .. Connections /\ relayFaults' \in 0 .. RelayFaults
      /\ flaw' \in [Clients -> SUBSET {"blind", "lagged", "resent"}]
      /\ \A d \in Clients : d # c => flaw'[d] = flaw[d]
  BY <1>0 DEF Disconnect, RelayTypeOK
<1>3. /\ RelayTypeOK'
      /\ client'[c] = Unconnected /\ received'[c] = <<>>
      /\ \A d \in Clients : d # c => client'[d] = client[d] /\ received'[d] = received[d]
  BY <1>0, <1>1, <1>2, EmptySeq, StreamTypes
<1>4. AscendsAhead(c)' /\ SeesAll(c)' /\ NoGap(c)'
  BY <1>1, <1>3 DEF AscendsAhead, SeesAll, NoGap
<1>5. QED
  BY <1>2, <1>3, <1>4, OneStreamMoves

(***************************************************************************)
(* What a connection has received has no gap and is in order without       *)
(* repetition, wherever the subscription, the read of the backlog and the  *)
(* poll fall between each other (lib.rs:191-203): for any number of        *)
(* clients and event types, any channel capacity, and any number of        *)
(* events, connections, faults and restarts.                               *)
(***************************************************************************)
THEOREM StreamShowsTheLog == RelaySpec => []StreamIsLog
<1>1. RelayInit => RelayInv
  <2> SUFFICES ASSUME RelayInit PROVE RelayInv
    OBVIOUS
  <2>1. /\ Len(events) = 0 /\ Len(broadcasts) = 0 /\ <<>> \in Seq(DOMAIN events) /\ events \in Seq(Kinds)
    BY EmptySeq DEF RelayInit
  <2>2. Unconnected \in Connection /\ Closed \in [open : BOOLEAN, highWater : 0 .. Len(events), rows : Seq(DOMAIN events)]
    BY <2>1 DEF Unconnected, Closed, Connection
  <2>3. RelayTypeOK
    BY <2>1, <2>2, RelayAssumption DEF RelayInit, RelayTypeOK, Connection
  <2>4. PollsInOrder
    BY <2>1 DEF RelayInit, PollsInOrder, NextToSend, Closed
  <2>5. \A c \in Clients : AscendsAhead(c) /\ SeesAll(c) /\ NoGap(c)
    BY DEF RelayInit, AscendsAhead, SeesAll, NoGap, Unconnected
  <2>6. QED
    BY <2>3, <2>4, <2>5 DEF RelayInv
<1>2. RelayInv /\ [RelayNext]_relayVars => RelayInv'
  <2> SUFFICES ASSUME RelayInv, [RelayNext]_relayVars PROVE RelayInv'
    OBVIOUS
  <2>1. CASE UNCHANGED relayVars
    <3>1. UNCHANGED <<events, poller, broadcasts, client, received, flaw, relayFaults, connections>>
      BY <2>1 DEF relayVars
    <3>2. RelayTypeOK' /\ PollsInOrder' /\ NextToSend' = NextToSend
      BY <3>1 DEF RelayInv, RelayTypeOK, PollsInOrder, NextToSend
    <3>3. QED
      BY <3>1, <3>2, ConnectionStays DEF RelayInv
  <2>2. QED
    BY <2>1, CommitKeeps, OpenStoreKeeps, PollKeeps, SendKeeps, PollBreaksKeeps, RestartKeeps, SubscribeKeeps,
       ReadBacklogKeeps, BacklogFailsKeeps, ReplayKeeps, ReceiveKeeps, LagKeeps, DisconnectKeeps
       DEF RelayNext, PollerStep, StreamStep
<1>3. RelayInv => StreamIsLog
  <2> SUFFICES ASSUME RelayInv, NEW c \in Clients
               PROVE  /\ "resent" \notin flaw[c] =>
                            \A i, j \in DOMAIN received[c] : i < j => received[c][i] < received[c][j]
                      /\ NoGap(c)
    BY DEF RelayInv, StreamIsLog, NoGap
  <2>1. "resent" \notin flaw[c] => Ascending(received[c])
    <3>1. CASE client[c].phase = "off"
      BY <3>1 DEF RelayInv, SeesAll, Ascending
    <3>2. CASE client[c].phase # "off"
      BY <3>2 DEF RelayInv, AscendsAhead
    <3>3. QED
      BY <3>1, <3>2
  <2>2. QED
    BY <2>1 DEF RelayInv, Ascending
<1>4. QED
  BY <1>1, <1>2, <1>3, PTL DEF RelaySpec

-----------------------------------------------------------------------------
(***************************************************************************)
(* ProgressTail: both surfaces show each event once and in order. The      *)
(* argument: every line of the pane is at or below the point the stream or *)
(* the poll timer has come to, and every line of the page, of whatever     *)
(* store, at or below lastSeq; an answer on its way numbers its rows from  *)
(* there on, so that pollLog never passes over one of them.                *)
(***************************************************************************)
PaneIsBounded ==
    /\ \A i \in DOMAIN pane : pane[i].seq <= head[pane[i].store]
    /\ tui.by = "stream" =>
          /\ tui.read <= head[Launched] /\ (tui.block => tui.read < head[Launched])
          /\ \A i \in DOMAIN pane : pane[i].store = Launched /\ pane[i].seq <= tui.read
          /\ ShownFromTo(pane, Launched, 0, tui.read)
    /\ tui.by = "poll" =>
          /\ tui.pollSeq <= head[tui.store]
          /\ \A i \in DOMAIN pane : pane[i].store = tui.store => pane[i].seq <= tui.pollSeq
          /\ ShownFromTo(pane, tui.store, tui.since, tui.pollSeq)
    /\ InOrder(pane)

PageIsBounded ==
    /\ \A i \in DOMAIN page.answer : page.answer[i].seq = page.lastSeq + i
    /\ ~page.moved => \A i \in DOMAIN page.answer : page.answer[i].store = page.store
    /\ \A i \in DOMAIN pageLog : pageLog[i].seq <= page.lastSeq
    /\ \A i, j \in DOMAIN pageLog : i < j => pageLog[i].seq < pageLog[j].seq
    /\ ~page.moved => ShownFromTo(pageLog, page.store, 0, page.lastSeq)

TailInv == TailTypeOK /\ PaneIsBounded /\ PageIsBounded

Console == [store : TailStores, by : {"stream", "nothing", "poll"}, read : 0 .. TailLogCap, block : BOOLEAN,
            pollSeq : 0 .. TailLogCap, since : 0 .. TailLogCap]

Page == [store : TailStores, lastSeq : 0 .. TailLogCap, answer : Seq(Lines), moved : BOOLEAN]

\* what the type invariant says, in the form the proofs use it
LEMMA TailTypes ==
    ASSUME TailTypeOK
    PROVE  /\ tui \in Console /\ page \in Page /\ pane \in Seq(Lines) /\ pageLog \in Seq(Lines)
           /\ tui.store \in TailStores /\ tui.read \in Nat /\ tui.pollSeq \in 0 .. TailLogCap
           /\ page.store \in TailStores /\ page.lastSeq \in 0 .. TailLogCap /\ page.answer \in Seq(Lines)
           /\ \A s \in TailStores : head[s] \in 0 .. TailLogCap /\ head[s] \in Nat
           /\ \A i \in DOMAIN pane : pane[i] \in Lines /\ pane[i].seq \in Nat /\ pane[i].store \in TailStores
           /\ \A i \in DOMAIN pageLog : pageLog[i] \in Lines /\ pageLog[i].seq \in Nat
           /\ TailLogCap \in Nat
<1>1. /\ tui \in Console /\ page \in Page /\ pane \in Seq(Lines) /\ pageLog \in Seq(Lines)
      /\ \A s \in TailStores : head[s] \in 0 .. TailLogCap
      /\ TailLogCap \in Nat
  BY TailAssumption DEF TailTypeOK, Console, Page
<1>2. \A i \in DOMAIN pane : pane[i] \in Lines
  BY <1>1, Positions
<1>3. \A i \in DOMAIN pageLog : pageLog[i] \in Lines
  BY <1>1, Positions
<1>4. \A l \in Lines : l.seq \in Nat /\ l.store \in TailStores
  BY DEF Lines
<1>5. QED
  BY <1>1, <1>2, <1>3, <1>4 DEF Console, Page

\* a query's rows
LEMMA RowsAfterHolds ==
    ASSUME TailTypeOK, NEW s \in TailStores, NEW seq \in 0 .. TailLogCap, seq < head[s]
    PROVE  /\ RowsAfter(s, seq) \in Seq(Lines)
           /\ Len(RowsAfter(s, seq)) = head[s] - seq
           /\ DOMAIN RowsAfter(s, seq) = 1 .. head[s] - seq
           /\ \A i \in 1 .. head[s] - seq : RowsAfter(s, seq)[i] = [store |-> s, seq |-> seq + i]
<1>1. head[s] \in 0 .. TailLogCap /\ head[s] - seq \in Nat /\ TailLogCap \in Nat
  BY TailTypes
<1>2. /\ DOMAIN RowsAfter(s, seq) = 1 .. head[s] - seq
      /\ RowsAfter(s, seq) = [i \in 1 .. head[s] - seq |-> [store |-> s, seq |-> seq + i]]
      /\ \A i \in 1 .. head[s] - seq : RowsAfter(s, seq)[i] = [store |-> s, seq |-> seq + i]
  BY DEF RowsAfter
<1>3. ASSUME NEW i \in 1 .. head[s] - seq PROVE [store |-> s, seq |-> seq + i] \in Lines
  <2>1. seq + i \in 1 .. TailLogCap
    BY <1>1
  <2>2. QED
    BY <2>1 DEF Lines
<1>4. RowsAfter(s, seq) \in Seq(Lines)
  BY <1>1, <1>2, <1>3, IsASeq
<1>5. Len(RowsAfter(s, seq)) = head[s] - seq
  <2>1. DOMAIN RowsAfter(s, seq) = 1 .. Len(RowsAfter(s, seq)) /\ Len(RowsAfter(s, seq)) \in Nat
    BY <1>4, Positions
  <2>2. QED
    BY <1>1, <1>2, <2>1
<1>6. QED
  BY <1>2, <1>4, <1>5

\* a commit moves a head, and nothing that is shown
LEMMA CommitIsUnseen ==
    ASSUME TailInv, NEW s \in TailStores, Commit(s)
    PROVE  TailInv'
<1>0. TailTypeOK
  BY DEF TailInv
<1>1. /\ head' \in [TailStores -> 0 .. TailLogCap]
      /\ \A t \in TailStores : head[t] <= head'[t] /\ head'[t] \in Nat
      /\ UNCHANGED <<tui, pane, page, pageLog, tailMoves>>
  BY SMTT(30), <1>0, TailTypes DEF Commit, TailTypeOK
<1>2. TailTypeOK'
  BY <1>0, <1>1 DEF TailTypeOK
<1>3. PageIsBounded'
  BY <1>1 DEF TailInv, PageIsBounded, ShownFromTo, Shows
<1>4. PaneIsBounded'
  <2>1. \A i \in DOMAIN pane : pane[i].seq <= head'[pane[i].store]
    <3> SUFFICES ASSUME NEW i \in DOMAIN pane PROVE pane[i].seq <= head'[pane[i].store]
      OBVIOUS
    <3>1. pane[i].seq \in Nat /\ pane[i].store \in TailStores
      BY <1>0, TailTypes
    <3>2. head[pane[i].store] \in Nat /\ head[pane[i].store] <= head'[pane[i].store] /\ head'[pane[i].store] \in Nat
      BY <1>0, <1>1, <3>1, TailTypes
    <3>3. pane[i].seq <= head[pane[i].store]
      BY DEF TailInv, PaneIsBounded
    <3>4. QED
      BY <3>1, <3>2, <3>3
  <2>2. tui.by = "stream" => tui.read <= head'[Launched] /\ (tui.block => tui.read < head'[Launched])
    <3>1. tui.by = "stream" => tui.read <= head[Launched] /\ (tui.block => tui.read < head[Launched])
      BY DEF TailInv, PaneIsBounded
    <3>2. tui.read \in Nat /\ head[Launched] \in Nat /\ head'[Launched] \in Nat /\ head[Launched] <= head'[Launched]
      BY <1>0, <1>1, TailTypes, TailAssumption
    <3>3. QED
      BY <3>1, <3>2
  <2>3. tui.by = "poll" => tui.pollSeq <= head'[tui.store]
    <3>1. tui.by = "poll" => tui.pollSeq <= head[tui.store]
      BY DEF TailInv, PaneIsBounded
    <3>2. /\ tui.pollSeq \in Nat /\ head[tui.store] \in Nat /\ head'[tui.store] \in Nat
          /\ head[tui.store] <= head'[tui.store]
      BY <1>0, <1>1, TailTypes
    <3>3. QED
      BY <3>1, <3>2
  <2>4. QED
    BY <1>1, <2>1, <2>2, <2>3 DEF TailInv, PaneIsBounded, ShownFromTo, Shows, InOrder
<1>5. QED
  BY <1>2, <1>3, <1>4 DEF TailInv

LEMMA ReadBlockKeeps ==
    ASSUME TailInv, ReadBlock
    PROVE  TailInv'
<1>0. TailTypeOK
  BY DEF TailInv
<1>1. /\ tui' = [tui EXCEPT !.block = TRUE] /\ UNCHANGED <<head, pane, page, pageLog, tailMoves>>
      /\ tui \in Console
  BY <1>0, TailTypes DEF ReadBlock
<1>2. /\ tui'.by = tui.by /\ tui'.read = tui.read /\ tui'.store = tui.store /\ tui'.pollSeq = tui.pollSeq
      /\ tui'.since = tui.since /\ tui'.block = TRUE /\ tui' \in Console
  BY <1>1 DEF Console
<1>3. TailTypeOK'
  BY <1>0, <1>1, <1>2 DEF TailTypeOK, Console
<1>4. PageIsBounded'
  BY <1>1 DEF TailInv, PageIsBounded, ShownFromTo, Shows
<1>5. tui.by = "stream" /\ tui.read < head[Launched]
  BY DEF ReadBlock
<1>6. PaneIsBounded'
  BY <1>1, <1>2, <1>5 DEF TailInv, PaneIsBounded, ShownFromTo, Shows, InOrder
<1>7. QED
  BY <1>3, <1>4, <1>6 DEF TailInv

\* a frame is the event after the last one read
LEMMA DispatchKeeps ==
    ASSUME TailInv, DispatchFrame
    PROVE  TailInv'
<1> DEFINE line == [store |-> Launched, seq |-> tui.read + 1]
<1>0. TailTypeOK
  BY DEF TailInv
<1>1. /\ tui' = [tui EXCEPT !.block = FALSE, !.read = @ + 1] /\ UNCHANGED <<head, page, pageLog, tailMoves>>
      /\ tui \in Console /\ tui.by = "stream" /\ tui.block
      /\ pane' = Append(pane, line)
  BY <1>0, TailTypes DEF DispatchFrame
<1>2. /\ tui.read < head[Launched] /\ tui.read + 1 \in 1 .. TailLogCap /\ tui.read + 1 <= head[Launched]
      /\ tui.read \in Nat /\ head[Launched] \in Nat
  <2>1. tui.read < head[Launched]
    BY <1>1 DEF TailInv, PaneIsBounded
  <2>2. tui.read \in Nat /\ head[Launched] \in 0 .. TailLogCap /\ TailLogCap \in Nat
    BY <1>0, TailTypes, TailAssumption
  <2>3. QED
    BY <2>1, <2>2
<1>3. /\ tui'.by = "stream" /\ tui'.read = tui.read + 1 /\ tui'.block = FALSE /\ tui' \in Console
  <2>1. tui.read + 1 \in 0 .. TailLogCap
    BY <1>2
  <2>2. QED
    BY <1>1, <2>1 DEF Console
<1>4. line \in Lines
  BY <1>2, TailAssumption DEF Lines
<1>5. line.store = Launched /\ line.seq = tui.read + 1
  OBVIOUS
<1> HIDE DEF line
<1>6. /\ pane' \in Seq(Lines) /\ Len(pane) \in Nat /\ DOMAIN pane = 1 .. Len(pane)
      /\ DOMAIN pane' = (DOMAIN pane) \cup {Len(pane) + 1}
      /\ Len(pane) + 1 \notin DOMAIN pane
      /\ \A i \in DOMAIN pane : pane'[i] = pane[i]
      /\ pane'[Len(pane) + 1] = line
  BY <1>0, <1>1, <1>4, TailTypes, AppendGrows
<1>7. TailTypeOK'
  BY <1>0, <1>1, <1>3, <1>6 DEF TailTypeOK, Console
<1>8. PageIsBounded'
  BY <1>1 DEF TailInv, PageIsBounded, ShownFromTo, Shows
<1>9. \A i \in DOMAIN pane : pane[i].store = Launched /\ pane[i].seq <= tui.read /\ pane[i].seq \in Nat
  BY <1>0, <1>1, TailTypes DEF TailInv, PaneIsBounded
<1>10. \A i \in DOMAIN pane' : pane'[i].store = Launched /\ pane'[i].seq <= tui.read + 1
  BY <1>2, <1>5, <1>6, <1>9
<1>11. InOrder(pane')
  <2> SUFFICES ASSUME NEW i \in DOMAIN pane', NEW j \in DOMAIN pane', i < j, pane'[i].store = pane'[j].store
               PROVE  pane'[i].seq < pane'[j].seq
    BY DEF InOrder
  <2>1. i \in DOMAIN pane
    BY <1>6
  <2>2. CASE j \in DOMAIN pane
    BY <1>6, <2>1, <2>2 DEF TailInv, PaneIsBounded, InOrder
  <2>3. CASE j = Len(pane) + 1
    BY <1>2, <1>5, <1>6, <1>9, <2>1, <2>3
  <2>4. QED
    BY <1>6, <2>2, <2>3
<1>12. ShownFromTo(pane', Launched, 0, tui.read + 1)
  <2> SUFFICES ASSUME NEW seq \in 1 .. tui.read + 1 PROVE Shows(pane', Launched, seq)
    BY DEF ShownFromTo
  <2>1. CASE seq = tui.read + 1
    BY <1>6, <2>1 DEF Shows, line
  <2>2. CASE seq # tui.read + 1
    <3>1. seq \in 0 + 1 .. tui.read
      BY <1>2, <2>2
    <3>2. Shows(pane, Launched, seq)
      BY <1>1, <3>1 DEF TailInv, PaneIsBounded, ShownFromTo
    <3>3. QED
      BY <1>6, <3>2 DEF Shows
  <2>3. QED
    BY <2>1, <2>2
<1>13. PaneIsBounded'
  <2>1. \A i \in DOMAIN pane' : pane'[i].seq <= head[pane'[i].store]
    <3> SUFFICES ASSUME NEW i \in DOMAIN pane' PROVE pane'[i].seq <= head[pane'[i].store]
      OBVIOUS
    <3>1. pane'[i].store = Launched /\ pane'[i].seq <= tui.read + 1 /\ pane'[i].seq \in Nat
      BY <1>5, <1>6, <1>9, <1>10, <1>2
    <3>2. QED
      BY <1>2, <3>1
  <2>2. QED
    BY <1>1, <1>2, <1>3, <1>10, <1>11, <1>12, <2>1 DEF PaneIsBounded
<1>14. QED
  BY <1>7, <1>8, <1>13 DEF TailInv

\* the handover, a closed stream, a switch of the console: nothing is shown, and
\* polling starts at a head
LEMMA ConsoleMoves ==
    ASSUME TailInv, StartPolling \/ StreamCloses \/ \E s \in TailStores : SwitchConsole(s)
    PROVE  TailInv'
<1>0. TailTypeOK
  BY DEF TailInv
<1>1. UNCHANGED <<head, pane, page, pageLog>> /\ tailMoves' \in 0 .. TailMoves /\ tui \in Console
  <2>0. tailMoves \in 0 .. TailMoves /\ TailMoves \in Nat /\ tui \in Console
    BY <1>0, TailTypes, TailAssumption DEF TailTypeOK
  <2>1. CASE StartPolling \/ StreamCloses
    BY <2>0, <2>1 DEF StartPolling, StreamBreaks, StreamCloses
  <2>2. ASSUME NEW s \in TailStores, SwitchConsole(s)
        PROVE  UNCHANGED <<head, pane, page, pageLog>> /\ tailMoves' \in 0 .. TailMoves
    <3>1. tailMoves < TailMoves /\ tailMoves' = tailMoves + 1 /\ UNCHANGED <<head, pane, page, pageLog>>
      BY <2>2 DEF SwitchConsole
    <3>2. QED
      BY <2>0, <3>1
  <2>3. QED
    BY <2>0, <2>1, <2>2
<1>2. /\ tui' \in Console
      /\ \/ tui'.by = "nothing"
         \/ tui'.by = "poll" /\ tui'.pollSeq = head[tui'.store] /\ tui'.since = head[tui'.store]
         \/ tui'.by = tui.by /\ tui.by # "poll" /\ tui'.read = tui.read /\ tui'.block = tui.block
  <2>1. CASE StartPolling
    <3>1. head[tui.store] \in 0 .. TailLogCap
      BY <1>0, TailTypes
    <3>2. tui' = [tui EXCEPT !.by = "poll", !.block = FALSE, !.pollSeq = head[tui.store], !.since = head[tui.store]]
      BY <2>1 DEF StartPolling, StreamBreaks
    <3>3. tui'.by = "poll" /\ tui'.store = tui.store /\ tui'.pollSeq = head[tui.store] /\ tui'.since = head[tui.store]
      BY <1>1, <3>2 DEF Console
    <3>4. tui' \in Console
      BY <1>1, <3>1, <3>2 DEF Console
    <3>5. QED
      BY <3>3, <3>4
  <2>2. CASE StreamCloses
    <3>1. tui' = [tui EXCEPT !.by = "nothing", !.block = FALSE]
      BY <2>2 DEF StreamCloses
    <3>2. QED
      BY <1>1, <3>1 DEF Console
  <2>3. ASSUME NEW s \in TailStores, SwitchConsole(s)
        PROVE  /\ tui' \in Console
               /\ \/ tui'.by = "nothing"
                  \/ tui'.by = "poll" /\ tui'.pollSeq = head[tui'.store] /\ tui'.since = head[tui'.store]
                  \/ tui'.by = tui.by /\ tui.by # "poll" /\ tui'.read = tui.read /\ tui'.block = tui.block
    <3>1. head[s] \in 0 .. TailLogCap
      BY <1>0, TailTypes
    <3>2. tui' = [tui EXCEPT !.store = s, !.pollSeq = head[s], !.since = head[s]]
      BY <2>3 DEF SwitchConsole
    <3>3. /\ tui'.store = s /\ tui'.pollSeq = head[s] /\ tui'.since = head[s]
          /\ tui'.by = tui.by /\ tui'.read = tui.read /\ tui'.block = tui.block
      BY <1>1, <3>2 DEF Console
    <3>4. tui' \in Console
      BY <1>1, <3>1, <3>2 DEF Console
    <3>5. QED
      BY <3>3, <3>4
  <2>4. QED
    BY <2>1, <2>2, <2>3
<1>3. TailTypeOK'
  BY <1>0, <1>1, <1>2 DEF TailTypeOK, Console
<1>4. PageIsBounded'
  BY <1>1 DEF TailInv, PageIsBounded, ShownFromTo, Shows
<1>5. PaneIsBounded'
  <2>0. (\A i \in DOMAIN pane : pane[i].seq <= head[pane[i].store]) /\ InOrder(pane)
    BY DEF TailInv, PaneIsBounded
  <2>1. CASE tui'.by = "nothing"
    BY <1>1, <2>0, <2>1 DEF PaneIsBounded
  <2>2. CASE tui'.by = "poll" /\ tui'.pollSeq = head[tui'.store] /\ tui'.since = head[tui'.store]
    <3>1. head[tui'.store] \in Nat
      BY <1>0, <1>2, TailTypes DEF Console
    <3>2. ShownFromTo(pane, tui'.store, tui'.since, tui'.pollSeq)
      BY <2>2, <3>1 DEF ShownFromTo
    <3>3. QED
      BY <1>1, <2>0, <2>2, <3>1, <3>2 DEF PaneIsBounded
  <2>3. CASE tui'.by = tui.by /\ tui.by # "poll" /\ tui'.read = tui.read /\ tui'.block = tui.block
    BY <1>1, <2>3 DEF TailInv, PaneIsBounded
  <2>4. QED
    BY <1>2, <2>1, <2>2, <2>3
<1>6. QED
  BY <1>3, <1>4, <1>5 DEF TailInv

\* the poll timer shows the rows from its cursor to the head
LEMMA PollEventsKeeps ==
    ASSUME TailInv, PollEvents
    PROVE  TailInv'
<1> DEFINE rows == RowsAfter(tui.store, tui.pollSeq)
           top == head[tui.store]
<1>0. TailTypeOK
  BY DEF TailInv
<1>1. /\ tui' = [tui EXCEPT !.pollSeq = top] /\ UNCHANGED <<head, page, pageLog, tailMoves>>
      /\ tui \in Console /\ tui.by = "poll" /\ tui.pollSeq < top
      /\ pane' = pane \o rows
  BY <1>0, TailTypes DEF PollEvents
<1>2. /\ rows \in Seq(Lines) /\ DOMAIN rows = 1 .. top - tui.pollSeq
      /\ \A i \in 1 .. top - tui.pollSeq : rows[i] = [store |-> tui.store, seq |-> tui.pollSeq + i]
      /\ tui.pollSeq \in Nat /\ top \in Nat /\ top \in 0 .. TailLogCap
  BY SMTT(30), <1>0, <1>1, TailTypes, RowsAfterHolds
<1> HIDE DEF rows, top
<1>3. \A i \in DOMAIN rows : rows[i].store = tui.store /\ rows[i].seq = tui.pollSeq + i
  <2> SUFFICES ASSUME NEW i \in DOMAIN rows PROVE rows[i].store = tui.store /\ rows[i].seq = tui.pollSeq + i
    OBVIOUS
  <2>1. rows[i] = [store |-> tui.store, seq |-> tui.pollSeq + i]
    BY <1>2
  <2>2. QED
    BY <2>1
<1>4. /\ pane' \in Seq(Lines) /\ Len(pane) \in Nat /\ DOMAIN pane = 1 .. Len(pane)
      /\ DOMAIN pane' = 1 .. Len(pane) + Len(rows) /\ Len(rows) \in Nat
      /\ \A i \in DOMAIN pane : i \in DOMAIN pane' /\ pane'[i] = pane[i]
      /\ \A i \in DOMAIN rows : Len(pane) + i \in DOMAIN pane' /\ pane'[Len(pane) + i] = rows[i]
      /\ \A i \in DOMAIN pane' :
            \/ i \in DOMAIN pane /\ pane'[i] = pane[i]
            \/ i > Len(pane) /\ i - Len(pane) \in DOMAIN rows /\ pane'[i] = rows[i - Len(pane)]
  <2>1. pane \in Seq(Lines) /\ rows \in Seq(Lines) /\ pane' = pane \o rows
    BY <1>0, <1>1, <1>2, TailTypes
  <2>2. QED
    BY <2>1, ConcatGrows
<1>5. /\ tui'.by = "poll" /\ tui'.store = tui.store /\ tui'.since = tui.since /\ tui'.pollSeq = top
      /\ tui' \in Console
  BY <1>1, <1>2 DEF Console
<1>6. TailTypeOK'
  BY <1>0, <1>1, <1>4, <1>5 DEF TailTypeOK, Console
<1>7. PageIsBounded'
  BY <1>1 DEF TailInv, PageIsBounded, ShownFromTo, Shows
<1>8. /\ \A i \in DOMAIN pane : /\ pane[i].seq <= head[pane[i].store] /\ pane[i].seq \in Nat
                                /\ pane[i].store = tui.store => pane[i].seq <= tui.pollSeq
      /\ InOrder(pane) /\ ShownFromTo(pane, tui.store, tui.since, tui.pollSeq)
  BY <1>0, <1>1, TailTypes DEF TailInv, PaneIsBounded
<1>9. \A i \in DOMAIN rows : /\ rows[i].store = tui.store /\ rows[i].seq \in Nat
                             /\ rows[i].seq > tui.pollSeq /\ rows[i].seq <= top
  BY <1>2, <1>3
<1>10. \A i \in DOMAIN pane' : /\ pane'[i].seq <= head[pane'[i].store]
                               /\ pane'[i].store = tui.store => pane'[i].seq <= top
  <2> SUFFICES ASSUME NEW i \in DOMAIN pane'
               PROVE  /\ pane'[i].seq <= head[pane'[i].store]
                      /\ pane'[i].store = tui.store => pane'[i].seq <= top
    OBVIOUS
  <2>1. CASE i \in DOMAIN pane /\ pane'[i] = pane[i]
    <3>1. /\ pane[i].seq <= head[pane[i].store] /\ pane[i].seq \in Nat
          /\ pane[i].store = tui.store => pane[i].seq <= tui.pollSeq
      BY <1>8, <2>1
    <3>2. pane[i].store = tui.store => pane[i].seq <= top
      BY <1>1, <1>2, <3>1
    <3>3. QED
      BY <2>1, <3>1, <3>2
  <2>2. CASE i - Len(pane) \in DOMAIN rows /\ pane'[i] = rows[i - Len(pane)]
    BY <1>9, <2>2 DEF top
  <2>3. QED
    BY <1>4, <2>1, <2>2
<1>11. InOrder(pane')
  <2> SUFFICES ASSUME NEW i \in DOMAIN pane', NEW j \in DOMAIN pane', i < j, pane'[i].store = pane'[j].store
               PROVE  pane'[i].seq < pane'[j].seq
    BY DEF InOrder
  <2>1. i \in Int /\ j \in Int
    BY <1>4
  <2>2. CASE i \in DOMAIN pane /\ pane'[i] = pane[i] /\ j \in DOMAIN pane /\ pane'[j] = pane[j]
    BY <1>8, <2>2 DEF InOrder
  <2>3. CASE /\ i \in DOMAIN pane /\ pane'[i] = pane[i]
             /\ j - Len(pane) \in DOMAIN rows /\ pane'[j] = rows[j - Len(pane)]
    <3>1. pane'[i].seq <= tui.pollSeq /\ pane'[i].seq \in Nat
      <4>1. pane'[j].store = tui.store
        BY <1>9, <2>3
      <4>2. QED
        BY <1>8, <2>3, <4>1
    <3>2. pane'[j].seq > tui.pollSeq /\ pane'[j].seq \in Nat
      BY <1>9, <2>3
    <3>3. QED
      BY <1>2, <3>1, <3>2
  <2>4. CASE i > Len(pane) /\ j \in DOMAIN pane
    BY <1>4, <2>1, <2>4
  <2>5. CASE /\ i - Len(pane) \in DOMAIN rows /\ pane'[i] = rows[i - Len(pane)]
             /\ j - Len(pane) \in DOMAIN rows /\ pane'[j] = rows[j - Len(pane)]
    <3>1. pane'[i].seq = tui.pollSeq + (i - Len(pane)) /\ pane'[j].seq = tui.pollSeq + (j - Len(pane))
      BY <1>3, <2>5
    <3>2. QED
      BY <1>2, <1>4, <2>1, <3>1
  <2>6. QED
    BY <1>4, <2>2, <2>3, <2>4, <2>5
<1>12. ShownFromTo(pane', tui.store, tui.since, top)
  <2> SUFFICES ASSUME NEW seq \in tui.since + 1 .. top PROVE Shows(pane', tui.store, seq)
    BY DEF ShownFromTo
  <2>0. tui.since \in Nat
    BY <1>1 DEF Console
  <2>1. CASE seq <= tui.pollSeq
    <3>1. seq \in tui.since + 1 .. tui.pollSeq
      BY <1>2, <2>0, <2>1
    <3>2. Shows(pane, tui.store, seq)
      BY <1>8, <3>1 DEF ShownFromTo
    <3>3. QED
      BY <1>4, <3>2 DEF Shows
  <2>2. CASE seq > tui.pollSeq
    <3>1. seq - tui.pollSeq \in 1 .. top - tui.pollSeq /\ tui.pollSeq + (seq - tui.pollSeq) = seq
      BY <1>2, <2>0, <2>2
    <3>2. rows[seq - tui.pollSeq] = [store |-> tui.store, seq |-> seq] /\ seq - tui.pollSeq \in DOMAIN rows
      BY <1>2, <3>1
    <3>3. QED
      BY <1>4, <3>2 DEF Shows
  <2>3. QED
    BY <1>2, <2>0, <2>1, <2>2
<1>13. PaneIsBounded'
  <2>1. top <= head[tui.store]
    BY <1>2 DEF top
  <2>2. head' = head /\ tui'.by = "poll" /\ tui'.store = tui.store /\ tui'.since = tui.since /\ tui'.pollSeq = top
    BY <1>1, <1>5
  <2>3. QED
    BY <1>10, <1>11, <1>12, <2>1, <2>2 DEF PaneIsBounded
<1>14. QED
  BY <1>6, <1>7, <1>13 DEF TailInv

\* an answer carries the rows from lastSeq on, as many as a page holds
LEMMA AnswerPageKeeps ==
    ASSUME TailInv, AnswerPage
    PROVE  TailInv'
<1> DEFINE rows == RowsAfter(page.store, page.lastSeq)
           top == head[page.store] - page.lastSeq
           n == IF Len(rows) < PageRows THEN Len(rows) ELSE PageRows
           answer == SubSeq(rows, 1, n)
<1>0. TailTypeOK
  BY DEF TailInv
<1>1. /\ page' = [page EXCEPT !.answer = answer] /\ UNCHANGED <<head, tui, pane, pageLog, tailMoves>>
      /\ page \in Page /\ page.lastSeq < head[page.store]
  BY <1>0, TailTypes DEF AnswerPage, AtMost
<1>2. /\ rows \in Seq(Lines) /\ Len(rows) = top /\ DOMAIN rows = 1 .. top
      /\ \A i \in 1 .. top : rows[i] = [store |-> page.store, seq |-> page.lastSeq + i]
      /\ page.lastSeq \in Nat /\ top \in Nat
  BY SMTT(30), <1>0, <1>1, TailTypes, RowsAfterHolds
<1> HIDE DEF rows, top
<1>3. n \in 0 .. top /\ n \in Nat
  BY <1>2, TailAssumption
<1> HIDE DEF n
<1>4. \A i \in 1 .. n : i \in 1 .. top /\ rows[i] \in Lines
  BY <1>2, <1>3, Positions
<1>5. /\ answer \in Seq(Lines) /\ Len(answer) = n /\ DOMAIN answer = 1 .. n
      /\ \A i \in 1 .. n : answer[i] = rows[i]
  <2>1. /\ answer \in Seq(Lines) /\ Len(answer) = (IF 1 <= n THEN n - 1 + 1 ELSE 0)
        /\ \A i \in 1 .. n - 1 + 1 : answer[i] = rows[1 + i - 1]
    BY <1>3, <1>4, SubSeqProperties
  <2>2. Len(answer) = n /\ n - 1 + 1 = n /\ \A i \in 1 .. n : 1 + i - 1 = i
    BY <1>3, <2>1
  <2>3. DOMAIN answer = 1 .. n
    BY <2>1, <2>2, Positions
  <2>4. QED
    BY <2>1, <2>2, <2>3
<1> HIDE DEF answer
<1>6. \A i \in DOMAIN answer : answer[i].seq = page.lastSeq + i /\ answer[i].store = page.store
  <2> SUFFICES ASSUME NEW i \in DOMAIN answer
               PROVE  answer[i].seq = page.lastSeq + i /\ answer[i].store = page.store
    OBVIOUS
  <2>1. answer[i] = [store |-> page.store, seq |-> page.lastSeq + i]
    BY <1>2, <1>4, <1>5
  <2>2. QED
    BY <2>1
<1>7. /\ page'.store = page.store /\ page'.lastSeq = page.lastSeq /\ page'.moved = page.moved
      /\ page'.answer = answer /\ page' \in Page
  BY <1>1, <1>5 DEF Page
<1>8. TailTypeOK'
  BY <1>0, <1>1, <1>7 DEF TailTypeOK, Page
<1>9. PaneIsBounded'
  BY <1>1 DEF TailInv, PaneIsBounded, ShownFromTo, Shows, InOrder
<1>10. PageIsBounded'
  BY <1>1, <1>6, <1>7 DEF TailInv, PageIsBounded, ShownFromTo, Shows
<1>11. QED
  BY <1>8, <1>9, <1>10 DEF TailInv

\* pollLog shows every row of the answer
LEMMA ShowAnswerKeeps ==
    ASSUME TailInv, ShowAnswer
    PROVE  TailInv'
<1> DEFINE answer == page.answer
           new == Keep(page.answer, {line \in Lines : line.seq > page.lastSeq})
           last == page.lastSeq + Len(answer)
<1>0. TailTypeOK
  BY DEF TailInv
<1>1. /\ page \in Page /\ answer \in Seq(Lines) /\ Len(answer) \in Nat /\ Len(answer) >= 1
      /\ DOMAIN answer = 1 .. Len(answer) /\ page.lastSeq \in Nat /\ page.lastSeq \in 0 .. TailLogCap
      /\ \A i \in DOMAIN answer : answer[i] \in Lines
  BY <1>0, TailTypes, Positions, EmptySeq DEF ShowAnswer
<1>2. \A i \in DOMAIN answer : answer[i].seq = page.lastSeq + i
  BY DEF TailInv, PageIsBounded
<1>3. ~page.moved => \A i \in DOMAIN answer : answer[i].store = page.store
  BY DEF TailInv, PageIsBounded
<1>4. \A i \in DOMAIN answer : answer[i] \in {line \in Lines : line.seq > page.lastSeq}
  <2> SUFFICES ASSUME NEW i \in DOMAIN answer PROVE answer[i].seq > page.lastSeq
    BY <1>1
  <2>1. i \in Nat /\ i >= 1
    BY <1>1
  <2>2. QED
    BY <1>1, <1>2, <2>1
<1>5. new = answer
  BY <1>1, <1>4, KeepEverything
<1> HIDE DEF new
<1>6. Len(answer) \in DOMAIN answer /\ answer[Len(answer)].seq = last /\ last \in 0 .. TailLogCap /\ answer # <<>>
  <2>1. Len(answer) \in DOMAIN answer /\ answer[Len(answer)] \in Lines
    BY <1>1
  <2>2. answer[Len(answer)].seq = last
    BY <1>2, <2>1
  <2>3. answer[Len(answer)].seq \in 1 .. TailLogCap
    BY <2>1 DEF Lines
  <2>4. QED
    BY <1>1, <2>1, <2>2, <2>3, TailTypes, <1>0 DEF ShowAnswer
<1>7. /\ pageLog' = pageLog \o answer
      /\ page' = [page EXCEPT !.answer = <<>>, !.lastSeq = last]
      /\ UNCHANGED <<head, tui, pane, tailMoves>>
  <2>1. /\ pageLog' = pageLog \o new
        /\ page' = [page EXCEPT !.answer = <<>>, !.lastSeq = IF new = <<>> THEN @ ELSE new[Len(new)].seq]
        /\ UNCHANGED <<head, tui, pane, tailMoves>>
    BY DEF ShowAnswer, new
  <2>2. QED
    BY <1>5, <1>6, <2>1
<1> HIDE DEF answer, last
<1>8. /\ pageLog' \in Seq(Lines) /\ Len(pageLog) \in Nat /\ DOMAIN pageLog = 1 .. Len(pageLog)
      /\ DOMAIN pageLog' = 1 .. Len(pageLog) + Len(answer)
      /\ \A i \in DOMAIN pageLog : i \in DOMAIN pageLog' /\ pageLog'[i] = pageLog[i]
      /\ \A i \in DOMAIN answer : Len(pageLog) + i \in DOMAIN pageLog' /\ pageLog'[Len(pageLog) + i] = answer[i]
      /\ \A i \in DOMAIN pageLog' :
            \/ i \in DOMAIN pageLog /\ pageLog'[i] = pageLog[i]
            \/ i > Len(pageLog) /\ i - Len(pageLog) \in DOMAIN answer /\ pageLog'[i] = answer[i - Len(pageLog)]
  <2>1. pageLog \in Seq(Lines) /\ answer \in Seq(Lines) /\ pageLog' = pageLog \o answer
    BY <1>0, <1>1, <1>7, TailTypes
  <2>2. QED
    BY <2>1, ConcatGrows
<1>9. /\ page'.store = page.store /\ page'.lastSeq = last /\ page'.moved = page.moved
      /\ page'.answer = <<>> /\ page' \in Page
  <2>1. <<>> \in Seq(Lines)
    BY EmptySeq
  <2>2. QED
    BY <1>1, <1>6, <1>7, <2>1 DEF Page
<1>10. TailTypeOK'
  BY <1>0, <1>7, <1>8, <1>9 DEF TailTypeOK, Page
<1>11. PaneIsBounded'
  BY <1>7 DEF TailInv, PaneIsBounded, ShownFromTo, Shows, InOrder
<1>12. /\ last \in Nat /\ page.lastSeq <= last
       /\ \A i \in DOMAIN answer : answer[i].seq \in Nat /\ answer[i].seq <= last /\ answer[i].seq > page.lastSeq
  <2>1. last \in Nat /\ page.lastSeq <= last
    BY <1>1 DEF last
  <2>2. ASSUME NEW i \in DOMAIN answer
        PROVE  answer[i].seq \in Nat /\ answer[i].seq <= last /\ answer[i].seq > page.lastSeq
    <3>1. i \in Nat /\ i >= 1 /\ i <= Len(answer)
      BY <1>1
    <3>2. answer[i].seq = page.lastSeq + i
      BY <1>2
    <3>3. QED
      BY <1>1, <3>1, <3>2 DEF last
  <2>3. QED
    BY <2>1, <2>2
<1>13. \A i \in DOMAIN pageLog : pageLog[i].seq \in Nat /\ pageLog[i].seq <= page.lastSeq
  BY <1>0, TailTypes DEF TailInv, PageIsBounded
<1>14. \A i \in DOMAIN pageLog' : pageLog'[i].seq <= last
  <2> SUFFICES ASSUME NEW i \in DOMAIN pageLog' PROVE pageLog'[i].seq <= last
    OBVIOUS
  <2>1. CASE i \in DOMAIN pageLog /\ pageLog'[i] = pageLog[i]
    <3>1. pageLog[i].seq \in Nat /\ pageLog[i].seq <= page.lastSeq
      BY <1>13, <2>1
    <3>2. QED
      BY <1>1, <1>12, <2>1, <3>1
  <2>2. CASE i - Len(pageLog) \in DOMAIN answer /\ pageLog'[i] = answer[i - Len(pageLog)]
    BY <1>12, <2>2
  <2>3. QED
    BY <1>8, <2>1, <2>2
<1>15. ASSUME NEW i \in DOMAIN pageLog', NEW j \in DOMAIN pageLog', i < j
       PROVE  pageLog'[i].seq < pageLog'[j].seq
  <2>1. i \in Int /\ j \in Int
    BY <1>1, <1>8
  <2>2. CASE i \in DOMAIN pageLog /\ pageLog'[i] = pageLog[i] /\ j \in DOMAIN pageLog /\ pageLog'[j] = pageLog[j]
    BY <1>15, <2>2 DEF TailInv, PageIsBounded
  <2>3. CASE /\ i \in DOMAIN pageLog /\ pageLog'[i] = pageLog[i]
             /\ j - Len(pageLog) \in DOMAIN answer /\ pageLog'[j] = answer[j - Len(pageLog)]
    <3>1. pageLog'[i].seq <= page.lastSeq /\ pageLog'[i].seq \in Nat
      BY <1>13, <2>3
    <3>2. pageLog'[j].seq > page.lastSeq /\ pageLog'[j].seq \in Nat
      BY <1>12, <2>3
    <3>3. QED
      BY <1>1, <3>1, <3>2
  <2>4. CASE i > Len(pageLog) /\ j \in DOMAIN pageLog
    BY <1>8, <1>15, <2>1, <2>4
  <2>5. CASE /\ i - Len(pageLog) \in DOMAIN answer /\ pageLog'[i] = answer[i - Len(pageLog)]
             /\ j - Len(pageLog) \in DOMAIN answer /\ pageLog'[j] = answer[j - Len(pageLog)]
    <3>1. /\ pageLog'[i].seq = page.lastSeq + (i - Len(pageLog))
          /\ pageLog'[j].seq = page.lastSeq + (j - Len(pageLog))
      BY <1>2, <2>5
    <3>2. QED
      BY <1>1, <1>8, <1>15, <2>1, <3>1
  <2>6. QED
    BY <1>8, <2>2, <2>3, <2>4, <2>5
<1>16. ~page.moved => ShownFromTo(pageLog', page.store, 0, last)
  <2> SUFFICES ASSUME ~page.moved, NEW seq \in 1 .. last PROVE Shows(pageLog', page.store, seq)
    BY DEF ShownFromTo
  <2>1. CASE seq <= page.lastSeq
    <3>1. seq \in 0 + 1 .. page.lastSeq
      BY <1>1, <1>12, <2>1
    <3>2. Shows(pageLog, page.store, seq)
      BY <3>1 DEF TailInv, PageIsBounded, ShownFromTo
    <3>3. QED
      BY <1>8, <3>2 DEF Shows
  <2>2. CASE seq > page.lastSeq
    <3>1. seq - page.lastSeq \in DOMAIN answer /\ page.lastSeq + (seq - page.lastSeq) = seq
      BY <1>1, <1>12, <2>2 DEF last
    <3> DEFINE i == seq - page.lastSeq
    <3>2. answer[i].seq = seq /\ answer[i].store = page.store /\ answer[i] \in Lines
      BY <1>1, <1>2, <1>3, <3>1
    <3>3. answer[i] = [store |-> page.store, seq |-> seq]
      BY <3>2 DEF Lines
    <3>4. QED
      BY <1>8, <3>1, <3>3 DEF Shows
  <2>3. QED
    BY <1>1, <1>12, <2>1, <2>2
<1>17. PageIsBounded'
  BY <1>9, <1>14, <1>15, <1>16 DEF PageIsBounded
<1>18. QED
  BY <1>10, <1>11, <1>17 DEF TailInv

\* a page that is switched keeps its lastSeq; one that is loaded anew shows nothing
LEMMA PageMoves ==
    ASSUME TailInv, ReloadPage \/ \E s \in TailStores : SwitchPage(s)
    PROVE  TailInv'
<1>0. TailTypeOK
  BY DEF TailInv
<1>1. tailMoves \in 0 .. TailMoves /\ TailMoves \in Nat /\ page \in Page /\ 0 \in 0 .. TailLogCap /\ <<>> \in Seq(Lines)
  BY <1>0, TailTypes, TailAssumption, EmptySeq DEF TailTypeOK
<1>2. CASE ReloadPage
  <2>1. /\ page' = [page EXCEPT !.lastSeq = 0, !.answer = <<>>, !.moved = FALSE]
        /\ pageLog' = <<>> /\ UNCHANGED <<head, tui, pane>>
        /\ tailMoves < TailMoves /\ tailMoves' = tailMoves + 1
    BY <1>2 DEF ReloadPage
  <2>2. page' \in Page /\ page'.lastSeq = 0 /\ page'.answer = <<>>
    BY <1>1, <2>1 DEF Page
  <2>3. TailTypeOK'
    BY SMTT(30), <1>0, <1>1, <2>1, <2>2 DEF TailTypeOK, Page
  <2>4. PaneIsBounded'
    BY <2>1 DEF TailInv, PaneIsBounded, ShownFromTo, Shows, InOrder
  <2>5. PageIsBounded'
    BY <2>1, <2>2 DEF PageIsBounded, ShownFromTo
  <2>6. QED
    BY <2>3, <2>4, <2>5 DEF TailInv
<1>3. ASSUME NEW s \in TailStores, SwitchPage(s) PROVE TailInv'
  <2>1. /\ page' = [page EXCEPT !.store = s, !.moved = TRUE]
        /\ UNCHANGED <<head, tui, pane, pageLog>>
        /\ tailMoves < TailMoves /\ tailMoves' = tailMoves + 1
    BY <1>3 DEF SwitchPage
  <2>2. /\ page' \in Page /\ page'.lastSeq = page.lastSeq /\ page'.answer = page.answer /\ page'.moved
    BY <1>1, <2>1 DEF Page
  <2>3. TailTypeOK'
    BY SMTT(30), <1>0, <1>1, <2>1, <2>2 DEF TailTypeOK, Page
  <2>4. PaneIsBounded'
    BY <2>1 DEF TailInv, PaneIsBounded, ShownFromTo, Shows, InOrder
  <2>5. PageIsBounded'
    BY <2>1, <2>2 DEF TailInv, PageIsBounded
  <2>6. QED
    BY <2>3, <2>4, <2>5 DEF TailInv
<1>4. QED
  BY <1>2, <1>3

(***************************************************************************)
(* Neither surface shows an event twice or out of order, and neither has a *)
(* gap where it should have none (tui.py:279, tui.py:882, index.html:352,  *)
(* routes.py:199): for any set of stores, any page size, and any number of *)
(* events, handovers, switches and reloads.                                *)
(***************************************************************************)
THEOREM SurfacesShowTheLog == TailSpec => []TailIsLog
<1>1. TailInit => TailInv
  <2> SUFFICES ASSUME TailInit PROVE TailInv
    OBVIOUS
  <2>1. TailTypeOK
    <3>1. 0 \in 0 .. TailLogCap /\ 0 \in 0 .. TailMoves /\ <<>> \in Seq(Lines) /\ Launched \in TailStores
      BY TailAssumption, EmptySeq
    <3>2. QED
      BY <3>1 DEF TailInit, TailTypeOK
  <2>2. PaneIsBounded
    BY TailAssumption DEF TailInit, PaneIsBounded, ShownFromTo, InOrder
  <2>3. PageIsBounded
    BY DEF TailInit, PageIsBounded, ShownFromTo
  <2>4. QED
    BY <2>1, <2>2, <2>3 DEF TailInv
<1>2. TailInv /\ [TailNext]_tailVars => TailInv'
  <2> SUFFICES ASSUME TailInv, [TailNext]_tailVars PROVE TailInv'
    OBVIOUS
  <2>1. CASE UNCHANGED tailVars
    BY <2>1 DEF tailVars, TailInv, TailTypeOK, PaneIsBounded, PageIsBounded, ShownFromTo, Shows, InOrder
  <2>2. ASSUME NEW s \in TailStores, Commit(s) \/ SwitchConsole(s) \/ SwitchPage(s) PROVE TailInv'
    BY <2>2, CommitIsUnseen, ConsoleMoves, PageMoves
  <2>3. QED
    BY <2>1, <2>2, ReadBlockKeeps, DispatchKeeps, ConsoleMoves, PollEventsKeeps, AnswerPageKeeps, ShowAnswerKeeps,
       PageMoves DEF TailNext, Follower, PagePoll
<1>3. TailInv => TailIsLog
  <2> SUFFICES ASSUME TailInv PROVE TailIsLog
    OBVIOUS
  <2>1. InOrder(pageLog)
    BY DEF TailInv, PageIsBounded, InOrder
  <2>2. QED
    BY <2>1 DEF TailInv, PaneIsBounded, PageIsBounded, TailIsLog
<1>4. QED
  BY <1>1, <1>2, <1>3, PTL DEF TailSpec

-----------------------------------------------------------------------------
(***************************************************************************)
(* RetroSpine: the residue of the accepted race. The argument: a window    *)
(* that has decided to emit a content counts as one of its pending rows    *)
(* already. It decides so only when there is no such row, so that rows and *)
(* windows about to emit together never outnumber the windows; the same    *)
(* of the signals of an orphan and the windows about to report it.         *)
(***************************************************************************)
WindowFrame ==
    [left : Seq({Terminals, Sweep, Signals}),
     doing : {"pick", "analysing", "emitting", "recording", "reporting"},
     item : Nat, todo : SUBSET Builds]

\* the content a window proposes for the item at hand
Proposes(w) ==
    IF Head(window[w].left) = Terminals THEN YieldOf[terminals[window[w].item]] ELSE OrphanChange

\* The item at hand is an entry of the log its phase reads.
AtItem(w) ==
    /\ window[w].left = <<>> => window[w].doing = "pick"
    /\ window[w].doing = "analysing" => Phase(w, Terminals)
    /\ window[w].doing \in {"analysing", "emitting", "recording"} =>
          \/ Phase(w, Terminals) /\ window[w].item \in DOMAIN terminals
          \/ Phase(w, Signals) /\ window[w].item \in DOMAIN signals
    /\ window[w].doing = "emitting" => Proposes(w) \in Contents

Emitting(c) == {w \in Windows : window[w].doing = "emitting" /\ Proposes(w) = c}

Named(b) == {i \in DOMAIN signals : signals[i] = b}

Reporting(b) == {w \in Windows : b \in window[w].todo}

SpineTypes ==
    /\ RetroTypeOK
    /\ window \in [Windows -> WindowFrame]
    /\ \A w \in Windows : AtItem(w)

RowsBounded ==
    \A c \in Contents : RuleOf[c] # "never" =>
        Cardinality(Pending(c)) + Cardinality(Emitting(c)) <= Cardinality(Windows)

SignalsBounded ==
    \A b \in Builds : Cardinality(Named(b)) + Cardinality(Reporting(b)) <= Cardinality(Windows)

SpineInv == SpineTypes /\ RowsBounded /\ SignalsBounded

\* two sets that together have at most n members still do when they shrink,
LEMMA SumShrinks ==
    ASSUME NEW A, NEW B, NEW C \in SUBSET A, NEW D \in SUBSET B, NEW n \in Nat,
           IsFiniteSet(A), IsFiniteSet(B), Cardinality(A) + Cardinality(B) <= n
    PROVE  Cardinality(C) + Cardinality(D) <= n
<1>1. /\ Cardinality(A) \in Nat /\ Cardinality(B) \in Nat
      /\ Cardinality(C) <= Cardinality(A) /\ Cardinality(D) <= Cardinality(B)
      /\ IsFiniteSet(C) /\ IsFiniteSet(D)
  BY FS_CardinalityType, FS_Subset
<1>2. Cardinality(C) \in Nat /\ Cardinality(D) \in Nat
  BY <1>1, FS_CardinalityType
<1>3. QED
  BY <1>1, <1>2

\* when one grows by a member and another member leaves the other,
LEMMA SumMoves ==
    ASSUME NEW A, NEW B, NEW x, NEW y \in B, NEW D \in SUBSET (B \ {y}), NEW n \in Nat,
           IsFiniteSet(A), IsFiniteSet(B), Cardinality(A) + Cardinality(B) <= n
    PROVE  Cardinality(A \cup {x}) + Cardinality(D) <= n
<1>1. /\ Cardinality(A) \in Nat /\ Cardinality(B) \in Nat /\ IsFiniteSet(B \ {y})
      /\ Cardinality(A \cup {x}) <= Cardinality(A) + 1 /\ Cardinality(A \cup {x}) \in Nat
      /\ Cardinality(B \ {y}) = Cardinality(B) - 1
  <2>1. Cardinality(A) \in Nat /\ Cardinality(B) \in Nat
    BY FS_CardinalityType
  <2>2. IsFiniteSet(A \cup {x}) /\ Cardinality(A \cup {x}) = IF x \in A THEN Cardinality(A) ELSE Cardinality(A) + 1
    BY FS_AddElement
  <2>3. IsFiniteSet(B \ {y}) /\ Cardinality(B \ {y}) = Cardinality(B) - 1
    BY FS_RemoveElement
  <2>4. QED
    BY <2>1, <2>2, <2>3
<1>2. Cardinality(D) <= Cardinality(B \ {y}) /\ IsFiniteSet(D)
  BY <1>1, FS_Subset
<1>3. Cardinality(D) \in Nat
  BY <1>2, FS_CardinalityType
<1>4. QED
  BY <1>1, <1>2, <1>3

\* and when one is empty and the other one of its subsets.
LEMMA SumStarts ==
    ASSUME NEW A, NEW W, A = {}, NEW D \in SUBSET W, IsFiniteSet(W)
    PROVE  Cardinality(A) + Cardinality(D) <= Cardinality(W)
<1>1. Cardinality(A) = 0 /\ Cardinality(D) <= Cardinality(W) /\ IsFiniteSet(D) /\ Cardinality(W) \in Nat
  BY FS_EmptySet, FS_Subset, FS_CardinalityType
<1>2. Cardinality(D) \in Nat
  BY <1>1, FS_CardinalityType
<1>3. QED
  BY <1>1, <1>2

\* what the types say, in the form the proofs use it
LEMMA SpineFacts ==
    ASSUME SpineTypes, IsFiniteSet(Windows)
    PROVE  /\ terminals \in Seq(Builds) /\ Len(terminals) \in Nat /\ DOMAIN terminals = 1 .. Len(terminals)
           /\ \A i \in DOMAIN terminals : terminals[i] \in Builds
           /\ signals \in Seq(Builds) /\ Len(signals) \in Nat /\ DOMAIN signals = 1 .. Len(signals)
           /\ queue \in Seq([content : Contents, state : {"pending", "closed"}])
           /\ Len(queue) \in Nat /\ DOMAIN queue = 1 .. Len(queue)
           /\ \A i \in DOMAIN queue : queue[i] \in [content : Contents, state : {"pending", "closed"}]
           /\ window \in [Windows -> WindowFrame]
           /\ \A w \in Windows : window[w] \in WindowFrame /\ window[w].left \in Seq({Terminals, Sweep, Signals})
           /\ \A c : Pending(c) \subseteq 1 .. Len(queue) /\ IsFiniteSet(Pending(c)) /\ IsFiniteSet(Emitting(c))
           /\ \A b : Named(b) \subseteq 1 .. Len(signals) /\ IsFiniteSet(Named(b)) /\ IsFiniteSet(Reporting(b))
           /\ Cardinality(Windows) \in Nat
<1>1. /\ terminals \in Seq(Builds) /\ signals \in Seq(Builds)
      /\ queue \in Seq([content : Contents, state : {"pending", "closed"}])
      /\ window \in [Windows -> WindowFrame]
  BY DEF SpineTypes, RetroTypeOK
<1>2. /\ Len(terminals) \in Nat /\ DOMAIN terminals = 1 .. Len(terminals)
      /\ \A i \in DOMAIN terminals : terminals[i] \in Builds
  BY <1>1, Positions
<1>3. Len(signals) \in Nat /\ DOMAIN signals = 1 .. Len(signals)
  BY <1>1, Positions
<1>4. /\ Len(queue) \in Nat /\ DOMAIN queue = 1 .. Len(queue)
      /\ \A i \in DOMAIN queue : queue[i] \in [content : Contents, state : {"pending", "closed"}]
  BY <1>1, Positions
<1>5. \A w \in Windows : window[w] \in WindowFrame /\ window[w].left \in Seq({Terminals, Sweep, Signals})
  BY <1>1 DEF WindowFrame
<1>6. IsFiniteSet(1 .. Len(queue)) /\ IsFiniteSet(1 .. Len(signals)) /\ Cardinality(Windows) \in Nat
  BY <1>3, <1>4, FS_Interval, FS_CardinalityType
<1>7. ASSUME NEW c
      PROVE  Pending(c) \subseteq 1 .. Len(queue) /\ IsFiniteSet(Pending(c)) /\ IsFiniteSet(Emitting(c))
  <2>1. Pending(c) \in SUBSET (1 .. Len(queue)) /\ Emitting(c) \in SUBSET Windows
    BY <1>4 DEF Pending, Emitting
  <2>2. QED
    BY <1>6, <2>1, FS_Subset
<1>8. ASSUME NEW b
      PROVE  Named(b) \subseteq 1 .. Len(signals) /\ IsFiniteSet(Named(b)) /\ IsFiniteSet(Reporting(b))
  <2>1. Named(b) \in SUBSET (1 .. Len(signals)) /\ Reporting(b) \in SUBSET Windows
    BY <1>3 DEF Named, Reporting
  <2>2. QED
    BY <1>6, <2>1, FS_Subset
<1>9. QED
  BY <1>1, <1>2, <1>3, <1>4, <1>5, <1>6, <1>7, <1>8

\* a window that does not move is where it was, whatever the logs have gained
LEMMA WindowsStay ==
    ASSUME SpineTypes, IsFiniteSet(Windows), NEW T \in SUBSET Windows, \A v \in T : window'[v] = window[v],
           DOMAIN terminals \subseteq DOMAIN terminals', \A i \in DOMAIN terminals : terminals'[i] = terminals[i],
           DOMAIN signals \subseteq DOMAIN signals'
    PROVE  \A v \in T : /\ AtItem(v)'
                        /\ \A c : v \in Emitting(c)' <=> v \in Emitting(c)
                        /\ \A b : v \in Reporting(b)' <=> v \in Reporting(b)
<1> SUFFICES ASSUME NEW v \in T
             PROVE  /\ AtItem(v)'
                    /\ \A c : v \in Emitting(c)' <=> v \in Emitting(c)
                    /\ \A b : v \in Reporting(b)' <=> v \in Reporting(b)
  OBVIOUS
<1>1. window'[v] = window[v] /\ v \in Windows /\ AtItem(v)
  BY DEF SpineTypes
<1>2. \A b : v \in Reporting(b)' <=> v \in Reporting(b)
  BY <1>1 DEF Reporting
<1>3. window[v].doing = "emitting" => Proposes(v)' = Proposes(v)
  BY <1>1 DEF AtItem, Proposes, Phase, Terminals, Signals
<1>4. \A c : v \in Emitting(c)' <=> v \in Emitting(c)
  BY <1>1, <1>3 DEF Emitting
<1>5. AtItem(v)'
  BY <1>1, <1>3 DEF AtItem, Phase
<1>6. QED
  BY <1>2, <1>4, <1>5

\* a step of a window that neither decides, emits nor reports
LEMMA QuietStep ==
    ASSUME SpineInv, IsFiniteSet(Windows), NEW w \in Windows, RetroTypeOK', window' \in [Windows -> WindowFrame],
           \A v \in Windows : v # w => window'[v] = window[v],
           UNCHANGED <<terminals, signals, queue>>,
           AtItem(w)', window'[w].doing # "emitting", window'[w].todo \subseteq window[w].todo
    PROVE  SpineInv'
<1>0. SpineTypes
  BY DEF SpineInv
<1>1. \A v \in Windows \ {w} : /\ AtItem(v)'
                               /\ \A c : v \in Emitting(c)' <=> v \in Emitting(c)
                               /\ \A b : v \in Reporting(b)' <=> v \in Reporting(b)
  BY <1>0, WindowsStay
<1>2. SpineTypes'
  BY <1>1 DEF SpineTypes
<1>3. RowsBounded'
  <2> SUFFICES ASSUME NEW c \in Contents, RuleOf[c] # "never"
               PROVE  Cardinality(Pending(c)') + Cardinality(Emitting(c)') <= Cardinality(Windows)
    BY DEF RowsBounded
  <2>1. Emitting(c)' \in SUBSET Emitting(c)
    BY <1>1 DEF Emitting
  <2>2. Pending(c)' = Pending(c)
    BY DEF Pending
  <2>3. Cardinality(Pending(c)) + Cardinality(Emitting(c)) <= Cardinality(Windows)
    BY DEF SpineInv, RowsBounded
  <2>4. QED
    BY <1>0, <2>1, <2>2, <2>3, SpineFacts, SumShrinks
<1>4. SignalsBounded'
  <2> SUFFICES ASSUME NEW b \in Builds
               PROVE  Cardinality(Named(b)') + Cardinality(Reporting(b)') <= Cardinality(Windows)
    BY DEF SignalsBounded
  <2>1. Reporting(b)' \in SUBSET Reporting(b)
    BY <1>1 DEF Reporting
  <2>2. Named(b)' = Named(b)
    BY DEF Named
  <2>3. Cardinality(Named(b)) + Cardinality(Reporting(b)) <= Cardinality(Windows)
    BY DEF SpineInv, SignalsBounded
  <2>4. QED
    BY <1>0, <2>1, <2>2, <2>3, SpineFacts, SumShrinks
<1>5. QED
  BY <1>2, <1>3, <1>4 DEF SpineInv

\* a window leaves a phase
LEMMA LeaveKeeps ==
    ASSUME SpineInv, IsFiniteSet(Windows), NEW w \in Windows, window[w].left # <<>>,
           NEW how \in {"empty", "held", "halted"}, Leave(w, how),
           UNCHANGED <<build, terminals, signals, analysed, drained, queue, killings, openings>>
    PROVE  SpineInv'
<1>0. SpineTypes /\ RetroTypeOK
  BY DEF SpineInv, SpineTypes
<1>1. window[w] \in WindowFrame /\ window \in [Windows -> WindowFrame]
  BY <1>0, SpineFacts
<1>2. Tail(window[w].left) \in Seq({Terminals, Sweep, Signals})
  BY <1>1, TailShifts DEF WindowFrame
<1> DEFINE to == [window[w] EXCEPT !.left = Tail(@), !.doing = "pick", !.item = 0, !.todo = {}]
<1>3. to \in WindowFrame /\ to.doing = "pick" /\ to.item = 0 /\ to.todo = {}
  BY <1>1, <1>2 DEF WindowFrame
<1>4. window' = [window EXCEPT ![w] = to]
  BY <1>1 DEF Leave, WindowFrame
<1> HIDE DEF to
<1>5. /\ window' \in [Windows -> WindowFrame] /\ window'[w] = to
      /\ \A v \in Windows : v # w => window'[v] = window[v]
  BY <1>1, <1>3, <1>4
<1>6. RetroTypeOK'
  <2>1. ended' \in [Windows -> {"running", "empty", "held", "halted", "killed"}]
    BY <1>0 DEF RetroTypeOK, Leave
  <2>2. \A v \in Windows : /\ window'[v].doing \in {"pick", "analysing", "emitting", "recording", "reporting"}
                           /\ window'[v].item \in DOMAIN terminals \cup DOMAIN signals \cup {0}
                           /\ window'[v].todo \subseteq Builds
    BY <1>0, <1>3, <1>5 DEF RetroTypeOK
  <2>3. QED
    BY <1>0, <2>1, <2>2 DEF RetroTypeOK
<1>7. AtItem(w)'
  BY <1>3, <1>5 DEF AtItem
<1>8. QED
  BY <1>3, <1>5, <1>6, <1>7, QuietStep

\* where a window goes within its phase
LEMMA GoesTo ==
    ASSUME SpineTypes, IsFiniteSet(Windows), NEW w \in Windows, window[w].left # <<>>,
           NEW step \in {"pick", "analysing", "emitting", "recording"},
           NEW i \in DOMAIN terminals \cup DOMAIN signals \cup {0}, Goto(w, step, i),
           UNCHANGED <<build, terminals, signals, ended, killings, openings>>,
           queue' \in Seq([content : Contents, state : {"pending", "closed"}]),
           analysed' \subseteq {KeyOf[b] : b \in Builds}, drained' \subseteq DOMAIN signals
    PROVE  /\ RetroTypeOK' /\ window' \in [Windows -> WindowFrame]
           /\ \A v \in Windows : v # w => window'[v] = window[v]
           /\ window'[w].left = window[w].left /\ window'[w].doing = step
           /\ window'[w].item = i /\ window'[w].todo = window[w].todo
<1> DEFINE to == [window[w] EXCEPT !.doing = step, !.item = i]
<1>1. window[w] \in WindowFrame /\ window \in [Windows -> WindowFrame] /\ i \in Nat
  BY SpineFacts
<1>2. /\ to \in WindowFrame /\ to.doing = step /\ to.item = i
      /\ to.todo = window[w].todo /\ to.left = window[w].left
  BY <1>1 DEF WindowFrame
<1>3. window' = [window EXCEPT ![w] = to]
  BY <1>1 DEF Goto, WindowFrame
<1> HIDE DEF to
<1>4. /\ window' \in [Windows -> WindowFrame] /\ window'[w] = to
      /\ \A v \in Windows : v # w => window'[v] = window[v]
  BY <1>1, <1>2, <1>3
<1>5. RetroTypeOK'
  <2>1. \A v \in Windows : /\ window'[v].doing \in {"pick", "analysing", "emitting", "recording", "reporting"}
                           /\ window'[v].item \in DOMAIN terminals \cup DOMAIN signals \cup {0}
                           /\ window'[v].todo \subseteq Builds
    BY <1>2, <1>4 DEF RetroTypeOK, SpineTypes
  <2>2. QED
    BY <2>1 DEF RetroTypeOK, SpineTypes
<1>6. QED
  BY <1>2, <1>4, <1>5

LEMMA LeastIsIn ==
    ASSUME NEW S, S \subseteq Nat, S # {}
    PROVE  Least(S) \in S
BY LeastNatural DEF Least

\* a window goes on in its phase without deciding to emit
LEMMA GotoKeeps ==
    ASSUME SpineInv, IsFiniteSet(Windows), NEW w \in Windows, window[w].left # <<>>,
           NEW step \in {"pick", "analysing", "recording"},
           NEW i \in DOMAIN terminals \cup DOMAIN signals \cup {0}, Goto(w, step, i),
           \/ step = "pick"
           \/ Phase(w, Terminals) /\ i \in DOMAIN terminals
           \/ Phase(w, Signals) /\ i \in DOMAIN signals /\ step = "recording",
           UNCHANGED <<build, terminals, signals, queue, ended, killings, openings>>,
           analysed' \subseteq {KeyOf[b] : b \in Builds}, drained' \subseteq DOMAIN signals
    PROVE  SpineInv'
<1>0. SpineTypes /\ queue' \in Seq([content : Contents, state : {"pending", "closed"}])
  BY SpineFacts DEF SpineInv
<1>1. /\ RetroTypeOK' /\ window' \in [Windows -> WindowFrame]
      /\ \A v \in Windows : v # w => window'[v] = window[v]
      /\ window'[w].left = window[w].left /\ window'[w].doing = step
      /\ window'[w].item = i /\ window'[w].todo = window[w].todo
  BY <1>0, GoesTo
<1>2. AtItem(w)'
  BY <1>1 DEF AtItem, Phase
<1>3. QED
  BY <1>1, <1>2, QuietStep

\* a window decides to emit a content, of which there is no row that counts
LEMMA DecideKeeps ==
    ASSUME SpineInv, IsFiniteSet(Windows), NEW w \in Windows, NEW i \in Nat, Goto(w, "emitting", i),
           NEW c \in Contents, ~IsDuplicate(c),
           \/ Phase(w, Terminals) /\ i \in DOMAIN terminals /\ c = YieldOf[terminals[i]]
           \/ Phase(w, Signals) /\ i \in DOMAIN signals /\ c = OrphanChange,
           UNCHANGED <<build, terminals, signals, analysed, drained, queue, ended, killings, openings>>
    PROVE  SpineInv'
<1>0. /\ SpineTypes /\ RetroTypeOK /\ i \in DOMAIN terminals \cup DOMAIN signals \cup {0} /\ window[w].left # <<>>
      /\ queue \in Seq([content : Contents, state : {"pending", "closed"}])
      /\ analysed \subseteq {KeyOf[b] : b \in Builds} /\ drained \subseteq DOMAIN signals
  BY SpineFacts DEF SpineInv, SpineTypes, Phase, RetroTypeOK
<1>1. /\ RetroTypeOK' /\ window' \in [Windows -> WindowFrame]
      /\ \A v \in Windows : v # w => window'[v] = window[v]
      /\ window'[w].left = window[w].left /\ window'[w].doing = "emitting"
      /\ window'[w].item = i /\ window'[w].todo = window[w].todo
  BY <1>0, GoesTo
<1>2. \A v \in Windows \ {w} : /\ AtItem(v)'
                               /\ \A d : v \in Emitting(d)' <=> v \in Emitting(d)
                               /\ \A b : v \in Reporting(b)' <=> v \in Reporting(b)
  BY <1>0, <1>1, WindowsStay
<1>3. Proposes(w)' = c
  BY <1>1 DEF Proposes, Phase, Terminals, Signals
<1>4. SpineTypes'
  <2>1. AtItem(w)'
    BY <1>0, <1>1, <1>3 DEF AtItem, Phase
  <2>2. QED
    BY <1>1, <1>2, <2>1 DEF SpineTypes
<1>5. RowsBounded'
  <2> SUFFICES ASSUME NEW d \in Contents, RuleOf[d] # "never"
               PROVE  Cardinality(Pending(d)') + Cardinality(Emitting(d)') <= Cardinality(Windows)
    BY DEF RowsBounded
  <2>0. Pending(d)' = Pending(d)
    BY DEF Pending
  <2>1. CASE d = c
    <3>1. RuleOf[c] \in {"any state", "pending"}
      BY <2>1, RetroAssumption DEF Contents
    <3>2. Pending(c) = {}
      <4> SUFFICES ASSUME NEW k \in Pending(c) PROVE FALSE
        OBVIOUS
      <4>1. k \in DOMAIN queue /\ queue[k] = [content |-> c, state |-> "pending"]
        BY DEF Pending
      <4>2. queue[k].content = c /\ queue[k].state = "pending"
        BY <4>1
      <4>3. QED
        BY <3>1, <4>1, <4>2 DEF IsDuplicate
    <3>3. Emitting(c)' \in SUBSET Windows
      BY DEF Emitting
    <3>4. QED
      BY <2>0, <2>1, <3>2, <3>3, SumStarts
  <2>2. CASE d # c
    <3>1. Emitting(d)' \in SUBSET Emitting(d)
      BY <1>2, <1>3, <2>2 DEF Emitting
    <3>2. Cardinality(Pending(d)) + Cardinality(Emitting(d)) <= Cardinality(Windows)
      BY DEF SpineInv, RowsBounded
    <3>3. QED
      BY <1>0, <2>0, <3>1, <3>2, SpineFacts, SumShrinks
  <2>3. QED
    BY <2>1, <2>2
<1>6. SignalsBounded'
  <2>1. \A b \in Builds : Reporting(b)' = Reporting(b) /\ Named(b)' = Named(b)
    BY <1>1, <1>2 DEF Reporting, Named
  <2>2. QED
    BY <2>1 DEF SpineInv, SignalsBounded
<1>7. QED
  BY <1>4, <1>5, <1>6 DEF SpineInv

\* the row is there: one window fewer is about to emit it
LEMMA EmitKeeps ==
    ASSUME SpineInv, IsFiniteSet(Windows), NEW w \in Windows, EmitCandidate(w)
    PROVE  SpineInv'
<1> DEFINE c == Proposes(w)
           row == [content |-> c, state |-> IF c \in CoreGate THEN "closed" ELSE "pending"]
<1>0. /\ SpineTypes /\ RetroTypeOK /\ AtItem(w) /\ window[w].left # <<>> /\ window[w].doing = "emitting"
      /\ analysed \subseteq {KeyOf[b] : b \in Builds} /\ drained \subseteq DOMAIN signals
  BY DEF SpineInv, SpineTypes, RetroTypeOK, EmitCandidate
<1>1. c \in Contents /\ row \in [content : Contents, state : {"pending", "closed"}]
      /\ row.content = c
  BY <1>0 DEF AtItem
<1>2. /\ queue' = Append(queue, row) /\ Goto(w, "recording", window[w].item)
      /\ UNCHANGED <<build, terminals, signals, analysed, drained, ended, killings, openings>>
  <2>1. c = IF Phase(w, Terminals) THEN YieldOf[terminals[window[w].item]] ELSE OrphanChange
    BY <1>0 DEF Proposes, Phase
  <2>2. QED
    BY <2>1 DEF EmitCandidate
<1> HIDE DEF c, row
<1>3. /\ queue' \in Seq([content : Contents, state : {"pending", "closed"}])
      /\ Len(queue) \in Nat /\ DOMAIN queue' = (DOMAIN queue) \cup {Len(queue) + 1}
      /\ \A i \in DOMAIN queue : queue'[i] = queue[i]
      /\ queue'[Len(queue) + 1] = row
  BY <1>0, <1>1, <1>2, SpineFacts, AppendGrows
<1>4. window[w].item \in DOMAIN terminals \cup DOMAIN signals \cup {0}
  BY <1>0 DEF AtItem
<1>5. /\ RetroTypeOK' /\ window' \in [Windows -> WindowFrame]
      /\ \A v \in Windows : v # w => window'[v] = window[v]
      /\ window'[w].left = window[w].left /\ window'[w].doing = "recording"
      /\ window'[w].item = window[w].item /\ window'[w].todo = window[w].todo
  BY <1>0, <1>2, <1>3, <1>4, GoesTo
<1>6. \A v \in Windows \ {w} : /\ AtItem(v)'
                               /\ \A d : v \in Emitting(d)' <=> v \in Emitting(d)
                               /\ \A b : v \in Reporting(b)' <=> v \in Reporting(b)
  BY <1>0, <1>2, <1>5, WindowsStay
<1>7. SpineTypes'
  <2>1. AtItem(w)'
    BY <1>0, <1>2, <1>5 DEF AtItem, Phase
  <2>2. QED
    BY <1>5, <1>6, <2>1 DEF SpineTypes
<1>8. RowsBounded'
  <2> SUFFICES ASSUME NEW d \in Contents, RuleOf[d] # "never"
               PROVE  Cardinality(Pending(d)') + Cardinality(Emitting(d)') <= Cardinality(Windows)
    BY DEF RowsBounded
  <2>0. Cardinality(Pending(d)) + Cardinality(Emitting(d)) <= Cardinality(Windows)
    BY DEF SpineInv, RowsBounded
  <2>1. CASE d = c
    <3>1. w \in Emitting(d) /\ Emitting(d)' \in SUBSET (Emitting(d) \ {w})
      BY <1>0, <1>5, <1>6, <2>1 DEF Emitting, c
    <3>2. Pending(d)' \in SUBSET (Pending(d) \cup {Len(queue) + 1})
      BY <1>3 DEF Pending
    <3>3. Cardinality(Pending(d) \cup {Len(queue) + 1}) + Cardinality(Emitting(d)') <= Cardinality(Windows)
      BY <1>0, <2>0, <3>1, SpineFacts, SumMoves
    <3>4. IsFiniteSet(Pending(d) \cup {Len(queue) + 1}) /\ IsFiniteSet(Emitting(d)')
      BY <1>0, <3>1, SpineFacts, FS_AddElement, FS_Subset
    <3>5. Cardinality(Windows) \in Nat /\ Emitting(d)' \in SUBSET Emitting(d)'
      BY FS_CardinalityType
    <3>6. QED
      BY <3>2, <3>3, <3>4, <3>5, SumShrinks
  <2>2. CASE d # c
    <3>1. Emitting(d)' \in SUBSET Emitting(d)
      BY <1>5, <1>6 DEF Emitting
    <3>2. Pending(d)' \in SUBSET Pending(d)
      BY <1>1, <1>3, <2>2 DEF Pending
    <3>3. QED
      BY <1>0, <2>0, <3>1, <3>2, SpineFacts, SumShrinks
  <2>3. QED
    BY <2>1, <2>2
<1>9. SignalsBounded'
  <2>1. \A b \in Builds : Reporting(b)' = Reporting(b) /\ Named(b)' = Named(b)
    BY <1>2, <1>5, <1>6 DEF Reporting, Named
  <2>2. QED
    BY <2>1 DEF SpineInv, SignalsBounded
<1>10. QED
  BY <1>7, <1>8, <1>9 DEF SpineInv

\* the steps of a window over the terminals and the signals
LEMMA PhaseStepKeeps ==
    ASSUME SpineInv, IsFiniteSet(Windows), NEW w \in Windows,
           PickTerminal(w) \/ Analyse(w) \/ Record(w) \/ PickSignal(w) \/ SweepEnds(w)
    PROVE  SpineInv'
<1>0. /\ SpineTypes /\ RetroTypeOK /\ AtItem(w) /\ IsFiniteSet(Windows)
      /\ analysed \subseteq {KeyOf[b] : b \in Builds} /\ drained \subseteq DOMAIN signals
      /\ DOMAIN terminals \subseteq Nat /\ DOMAIN signals \subseteq Nat
      /\ \A i \in DOMAIN terminals : terminals[i] \in Builds
  BY SpineFacts DEF SpineInv, SpineTypes, RetroTypeOK
<1>1. CASE PickTerminal(w)
  <2>1. window[w].left # <<>> /\ Phase(w, Terminals)
    BY <1>1 DEF PickTerminal, At, Phase
  <2>2. Unanalysed # {} => Least(Unanalysed) \in DOMAIN terminals
    <3>1. Unanalysed \subseteq DOMAIN terminals /\ Unanalysed \subseteq Nat
      BY <1>0 DEF Unanalysed
    <3>2. QED
      BY <3>1, LeastIsIn
  <2>3. CASE Leave(w, "held") \/ Leave(w, "empty")
    BY <1>0, <1>1, <2>1, <2>3, LeaveKeeps DEF PickTerminal
  <2>4. CASE Unanalysed # {} /\ Goto(w, "analysing", Least(Unanalysed)) /\ UNCHANGED ended
    BY <1>0, <1>1, <2>1, <2>2, <2>4, GotoKeeps DEF PickTerminal
  <2>5. QED
    BY <1>1, <2>3, <2>4 DEF PickTerminal
<1>2. CASE Analyse(w)
  <2> DEFINE i == window[w].item
             c == YieldOf[terminals[i]]
  <2>1. /\ window[w].left # <<>> /\ Phase(w, Terminals) /\ window[w].doing = "analysing"
    BY <1>2 DEF Analyse, At, Phase
  <2>2. i \in DOMAIN terminals
    BY <1>0, <2>1 DEF AtItem, Phase, Terminals, Signals
  <2>3. c \in Contents \cup {NoContent}
    BY <1>0, <2>2, RetroAssumption DEF Contents
  <2>4. CASE Leave(w, "halted")
    BY <1>0, <1>2, <2>1, <2>4, LeaveKeeps DEF Analyse
  <2>5. CASE Goto(w, "recording", i) /\ UNCHANGED ended
    BY <1>0, <1>2, <2>1, <2>2, <2>5, GotoKeeps DEF Analyse
  <2>6. CASE c \in Contents /\ ~IsDuplicate(c) /\ Goto(w, "emitting", i) /\ UNCHANGED ended
    BY <1>0, <1>2, <2>1, <2>2, <2>6, DecideKeeps DEF Analyse
  <2>7. QED
    BY <1>2, <2>3, <2>4, <2>5, <2>6 DEF Analyse
<1>3. CASE Record(w)
  <2>1. window[w].left # <<>> /\ Goto(w, "pick", 0) /\ UNCHANGED <<build, terminals, signals, queue, ended, killings, openings>>
    BY <1>3 DEF Record
  <2>2. /\ Phase(w, Terminals) => window[w].item \in DOMAIN terminals
        /\ ~Phase(w, Terminals) => window[w].item \in DOMAIN signals
    BY <1>0, <1>3 DEF Record, AtItem, Phase, Terminals, Signals
  <2>3. analysed' \subseteq {KeyOf[b] : b \in Builds} /\ drained' \subseteq DOMAIN signals
    BY <1>0, <1>3, <2>2 DEF Record
  <2>4. QED
    BY <1>0, <2>1, <2>3, GotoKeeps
<1>4. CASE PickSignal(w)
  <2>1. window[w].left # <<>> /\ Phase(w, Signals)
    BY <1>4 DEF PickSignal, At, Phase
  <2>2. Undrained # {} => Least(Undrained) \in DOMAIN signals
    <3>1. Undrained \subseteq DOMAIN signals /\ Undrained \subseteq Nat
      BY <1>0 DEF Undrained
    <3>2. QED
      BY <3>1, LeastIsIn
  <2>3. CASE Leave(w, "held") \/ Leave(w, "empty")
    BY <1>0, <1>4, <2>1, <2>3, LeaveKeeps DEF PickSignal
  <2>4. CASE Undrained # {} /\ Goto(w, "recording", Least(Undrained)) /\ UNCHANGED ended
    BY <1>0, <1>4, <2>1, <2>2, <2>4, GotoKeeps DEF PickSignal
  <2>5. CASE Undrained # {} /\ Goto(w, "emitting", Least(Undrained)) /\ UNCHANGED ended /\ ~IsDuplicate(OrphanChange)
    <3>1. Least(Undrained) \in Nat /\ OrphanChange \in Contents
      BY <1>0, <2>2, <2>5, RetroAssumption
    <3>2. QED
      BY <1>0, <1>4, <2>1, <2>2, <2>5, <3>1, DecideKeeps DEF PickSignal
  <2>6. QED
    BY <1>4, <2>3, <2>4, <2>5 DEF PickSignal
<1>5. CASE SweepEnds(w)
  <2>1. window[w].left # <<>> /\ Leave(w, "empty")
    BY <1>5 DEF SweepEnds, At, Phase
  <2>2. QED
    BY <1>0, <1>5, <2>1, LeaveKeeps DEF SweepEnds
<1>6. QED
  BY <1>1, <1>2, <1>3, <1>4, <1>5

\* a sweep takes up the orphans that no signal names yet
LEMMA SweepKeeps ==
    ASSUME SpineInv, IsFiniteSet(Windows), NEW w \in Windows, SweepLog(w)
    PROVE  SpineInv'
<1> DEFINE new == Orphans \ Signalled
           to == [window[w] EXCEPT !.doing = "reporting", !.todo = new]
<1>0. SpineTypes /\ RetroTypeOK /\ AtItem(w)
  BY DEF SpineInv, SpineTypes
<1>1. window[w] \in WindowFrame /\ window \in [Windows -> WindowFrame] /\ new \subseteq Builds
      /\ window[w].left # <<>>
  BY <1>0, SpineFacts DEF Orphans, SweepLog, At, Phase
<1> HIDE DEF new
<1>2. /\ to \in WindowFrame /\ to.doing = "reporting" /\ to.item = window[w].item /\ to.todo = new
      /\ to.left = window[w].left
  BY <1>1 DEF WindowFrame
<1>3. /\ window' = [window EXCEPT ![w] = to]
      /\ UNCHANGED <<build, terminals, signals, analysed, drained, queue, ended, killings, openings>>
  BY <1>1 DEF SweepLog, WindowFrame, new
<1> HIDE DEF to
<1>4. /\ window' \in [Windows -> WindowFrame] /\ window'[w] = to
      /\ \A v \in Windows : v # w => window'[v] = window[v]
  BY <1>1, <1>2, <1>3
<1>5. \A v \in Windows \ {w} : /\ AtItem(v)'
                               /\ \A d : v \in Emitting(d)' <=> v \in Emitting(d)
                               /\ \A b : v \in Reporting(b)' <=> v \in Reporting(b)
  BY <1>0, <1>3, <1>4, WindowsStay
<1>6. SpineTypes'
  <2>1. AtItem(w)'
    BY <1>1, <1>2, <1>4 DEF AtItem
  <2>2. RetroTypeOK'
    BY <1>0, <1>1, <1>2, <1>3, <1>4 DEF RetroTypeOK
  <2>3. QED
    BY <1>4, <1>5, <2>1, <2>2 DEF SpineTypes
<1>7. RowsBounded'
  <2> SUFFICES ASSUME NEW d \in Contents, RuleOf[d] # "never"
               PROVE  Cardinality(Pending(d)') + Cardinality(Emitting(d)') <= Cardinality(Windows)
    BY DEF RowsBounded
  <2>1. Emitting(d)' \in SUBSET Emitting(d)
    BY <1>2, <1>4, <1>5 DEF Emitting
  <2>2. Pending(d)' = Pending(d)
    BY <1>3 DEF Pending
  <2>3. Cardinality(Pending(d)) + Cardinality(Emitting(d)) <= Cardinality(Windows)
    BY DEF SpineInv, RowsBounded
  <2>4. QED
    BY <1>0, <2>1, <2>2, <2>3, SpineFacts, SumShrinks
<1>8. SignalsBounded'
  <2> SUFFICES ASSUME NEW b \in Builds
               PROVE  Cardinality(Named(b)') + Cardinality(Reporting(b)') <= Cardinality(Windows)
    BY DEF SignalsBounded
  <2>0. Named(b)' = Named(b)
    BY <1>3 DEF Named
  <2>1. CASE b \in new
    <3>1. Named(b) = {} /\ Reporting(b)' \in SUBSET Windows
      BY <2>1 DEF Named, Reporting, Signalled, new
    <3>2. QED
      BY <2>0, <3>1, SumStarts
  <2>2. CASE b \notin new
    <3>1. Reporting(b)' \in SUBSET Reporting(b)
      BY <1>2, <1>4, <1>5, <2>2 DEF Reporting
    <3>2. Cardinality(Named(b)) + Cardinality(Reporting(b)) <= Cardinality(Windows)
      BY DEF SpineInv, SignalsBounded
    <3>3. QED
      BY <1>0, <2>0, <3>1, <3>2, SpineFacts, SumShrinks
  <2>3. QED
    BY <2>1, <2>2
<1>9. QED
  BY <1>6, <1>7, <1>8 DEF SpineInv

\* a window reports an orphan: it leaves the ones to report as its signal joins
LEMMA ReportKeeps ==
    ASSUME SpineInv, IsFiniteSet(Windows), NEW w \in Windows, NEW b \in Builds, Report(w, b)
    PROVE  SpineInv'
<1> DEFINE to == [window[w] EXCEPT !.todo = @ \ {b}]
<1>0. SpineTypes /\ RetroTypeOK /\ AtItem(w)
  BY DEF SpineInv, SpineTypes
<1>1. /\ window[w] \in WindowFrame /\ window \in [Windows -> WindowFrame] /\ signals \in Seq(Builds)
      /\ window[w].left # <<>> /\ window[w].doing = "reporting" /\ b \in window[w].todo
  BY <1>0, SpineFacts DEF Report, At, Phase
<1>2. /\ to \in WindowFrame /\ to.doing = "reporting" /\ to.item = window[w].item
      /\ to.todo = window[w].todo \ {b} /\ to.left = window[w].left
  BY <1>1 DEF WindowFrame
<1>3. /\ window' = [window EXCEPT ![w] = to] /\ signals' = Append(signals, b)
      /\ UNCHANGED <<build, terminals, analysed, drained, queue, ended, killings, openings>>
  BY <1>1 DEF Report, WindowFrame
<1> HIDE DEF to
<1>4. /\ window' \in [Windows -> WindowFrame] /\ window'[w] = to
      /\ \A v \in Windows : v # w => window'[v] = window[v]
  BY <1>1, <1>2, <1>3
<1>5. /\ signals' \in Seq(Builds) /\ DOMAIN signals' = (DOMAIN signals) \cup {Len(signals) + 1}
      /\ \A i \in DOMAIN signals : signals'[i] = signals[i]
      /\ signals'[Len(signals) + 1] = b
  BY <1>1, <1>3, AppendGrows
<1>6. \A v \in Windows \ {w} : /\ AtItem(v)'
                               /\ \A d : v \in Emitting(d)' <=> v \in Emitting(d)
                               /\ \A e : v \in Reporting(e)' <=> v \in Reporting(e)
  <2>1. DOMAIN signals \subseteq DOMAIN signals' /\ DOMAIN terminals \subseteq DOMAIN terminals'
        /\ \A i \in DOMAIN terminals : terminals'[i] = terminals[i]
    BY <1>3, <1>5
  <2>2. QED
    BY <1>0, <1>4, <2>1, WindowsStay
<1>7. SpineTypes'
  <2>1. AtItem(w)'
    BY <1>1, <1>2, <1>4 DEF AtItem
  <2>2. \A v \in Windows : /\ window'[v].doing \in {"pick", "analysing", "emitting", "recording", "reporting"}
                           /\ window'[v].item \in DOMAIN terminals' \cup DOMAIN signals' \cup {0}
                           /\ window'[v].todo \subseteq Builds
    BY <1>0, <1>2, <1>3, <1>4, <1>5 DEF RetroTypeOK
  <2>3. drained' \subseteq DOMAIN signals'
    BY <1>0, <1>3, <1>5 DEF RetroTypeOK
  <2>4. RetroTypeOK'
    BY <1>0, <1>3, <1>5, <2>2, <2>3 DEF RetroTypeOK
  <2>5. QED
    BY <1>4, <1>6, <2>1, <2>4 DEF SpineTypes
<1>8. RowsBounded'
  <2> SUFFICES ASSUME NEW d \in Contents, RuleOf[d] # "never"
               PROVE  Cardinality(Pending(d)') + Cardinality(Emitting(d)') <= Cardinality(Windows)
    BY DEF RowsBounded
  <2>1. Emitting(d)' \in SUBSET Emitting(d)
    BY <1>2, <1>4, <1>6 DEF Emitting
  <2>2. Pending(d)' = Pending(d)
    BY <1>3 DEF Pending
  <2>3. Cardinality(Pending(d)) + Cardinality(Emitting(d)) <= Cardinality(Windows)
    BY DEF SpineInv, RowsBounded
  <2>4. QED
    BY <1>0, <2>1, <2>2, <2>3, SpineFacts, SumShrinks
<1>9. SignalsBounded'
  <2> SUFFICES ASSUME NEW e \in Builds
               PROVE  Cardinality(Named(e)') + Cardinality(Reporting(e)') <= Cardinality(Windows)
    BY DEF SignalsBounded
  <2>0. Cardinality(Named(e)) + Cardinality(Reporting(e)) <= Cardinality(Windows)
    BY DEF SpineInv, SignalsBounded
  <2>1. CASE e = b
    <3>1. w \in Reporting(e) /\ Reporting(e)' \in SUBSET (Reporting(e) \ {w})
      BY <1>1, <1>2, <1>4, <1>6, <2>1 DEF Reporting
    <3>2. Named(e)' = Named(e) \cup {Len(signals) + 1}
      BY <1>5, <2>1 DEF Named
    <3>3. QED
      BY <1>0, <2>0, <3>1, <3>2, SpineFacts, SumMoves
  <2>2. CASE e # b
    <3>1. Reporting(e)' \in SUBSET Reporting(e)
      BY <1>2, <1>4, <1>6 DEF Reporting
    <3>2. Named(e)' \in SUBSET Named(e)
      BY <1>5, <2>2 DEF Named
    <3>3. QED
      BY <1>0, <2>0, <3>1, <3>2, SpineFacts, SumShrinks
  <2>3. QED
    BY <2>1, <2>2
<1>10. QED
  BY <1>7, <1>8, <1>9 DEF SpineInv

\* what the constants are
LEMMA SpineConstants ==
    SpineKills \in Nat /\ SpineWindows \in Nat /\ Backlog \in Seq(Builds)
BY RetroAssumption

\* a window is killed, or opened
LEMMA WindowKilledKeeps ==
    ASSUME SpineInv, IsFiniteSet(Windows), NEW w \in Windows, WindowKilled(w)
    PROVE  SpineInv'
<1>0. SpineTypes /\ RetroTypeOK /\ window \in [Windows -> WindowFrame]
  BY DEF SpineInv, SpineTypes
<1>1. Off \in WindowFrame /\ Off.doing = "pick" /\ Off.item = 0 /\ Off.todo = {} /\ Off.left = <<>>
  BY EmptySeq DEF Off, WindowFrame
<1>2. /\ window' \in [Windows -> WindowFrame] /\ window'[w] = Off
      /\ \A v \in Windows : v # w => window'[v] = window[v]
  BY <1>0, <1>1 DEF WindowKilled
<1>3. RetroTypeOK'
  <2>1. killings' \in 0 .. SpineKills
    BY <1>0, SpineConstants DEF WindowKilled, RetroTypeOK
  <2>2. ended' \in [Windows -> {"running", "empty", "held", "halted", "killed"}]
    BY <1>0 DEF WindowKilled, RetroTypeOK
  <2>3. \A v \in Windows : /\ window'[v].doing \in {"pick", "analysing", "emitting", "recording", "reporting"}
                           /\ window'[v].item \in DOMAIN terminals \cup DOMAIN signals \cup {0}
                           /\ window'[v].todo \subseteq Builds
    BY <1>0, <1>1, <1>2 DEF RetroTypeOK
  <2>4. QED
    BY <1>0, <2>1, <2>2, <2>3 DEF RetroTypeOK, WindowKilled
<1>4. AtItem(w)'
  BY <1>1, <1>2 DEF AtItem
<1>5. QED
  BY <1>1, <1>2, <1>3, <1>4, QuietStep DEF WindowKilled

LEMMA OpenWindowKeeps ==
    ASSUME SpineInv, IsFiniteSet(Windows), NEW w \in Windows, OpenWindow(w)
    PROVE  SpineInv'
<1> DEFINE to == [window[w] EXCEPT !.left = Order(w)]
<1>0. /\ SpineTypes /\ RetroTypeOK /\ window \in [Windows -> WindowFrame] /\ AtItem(w)
      /\ window[w] \in WindowFrame
  BY DEF SpineInv, SpineTypes
<1>1. Order(w) \in Seq({Terminals, Sweep, Signals})
  <2>1. \A x, y, z \in {Terminals, Sweep, Signals} : <<x, y, z>> \in Seq({Terminals, Sweep, Signals})
    OBVIOUS
  <2>2. QED
    BY <2>1 DEF Order
<1>2. /\ to \in WindowFrame /\ to.doing = "pick" /\ to.item = window[w].item /\ to.todo = window[w].todo
      /\ to.left = Order(w)
  BY <1>0, <1>1 DEF WindowFrame, AtItem, OpenWindow
<1>3. window' = [window EXCEPT ![w] = to]
  BY <1>0 DEF OpenWindow, WindowFrame
<1> HIDE DEF to
<1>4. /\ window' \in [Windows -> WindowFrame] /\ window'[w] = to
      /\ \A v \in Windows : v # w => window'[v] = window[v]
  BY <1>0, <1>2, <1>3
<1>5. RetroTypeOK'
  <2>1. openings' \in 0 .. SpineWindows
    BY <1>0, SpineConstants DEF OpenWindow, RetroTypeOK
  <2>2. ended' \in [Windows -> {"running", "empty", "held", "halted", "killed"}]
    BY <1>0 DEF OpenWindow, RetroTypeOK
  <2>3. \A v \in Windows : /\ window'[v].doing \in {"pick", "analysing", "emitting", "recording", "reporting"}
                           /\ window'[v].item \in DOMAIN terminals \cup DOMAIN signals \cup {0}
                           /\ window'[v].todo \subseteq Builds
    BY <1>0, <1>2, <1>4 DEF RetroTypeOK
  <2>4. QED
    BY <1>0, <2>1, <2>2, <2>3 DEF RetroTypeOK, OpenWindow
<1>6. AtItem(w)'
  BY <1>2, <1>4 DEF AtItem
<1>7. QED
  BY <1>2, <1>4, <1>5, <1>6, QuietStep DEF OpenWindow

\* a step of a build or of a reviewer: no window moves, and no row is added
LEMMA OutsideStep ==
    ASSUME SpineInv, IsFiniteSet(Windows), RetroTypeOK', UNCHANGED <<window, signals>>,
           DOMAIN terminals \subseteq DOMAIN terminals', \A i \in DOMAIN terminals : terminals'[i] = terminals[i],
           \A c \in Contents : Pending(c)' \subseteq Pending(c)
    PROVE  SpineInv'
<1>0. SpineTypes /\ window \in [Windows -> WindowFrame]
  BY DEF SpineInv, SpineTypes
<1>1. \A v \in Windows : /\ AtItem(v)'
                         /\ \A c : v \in Emitting(c)' <=> v \in Emitting(c)
                         /\ \A b : v \in Reporting(b)' <=> v \in Reporting(b)
  BY <1>0, WindowsStay
<1>2. SpineTypes'
  BY <1>0, <1>1 DEF SpineTypes
<1>3. RowsBounded'
  <2> SUFFICES ASSUME NEW c \in Contents, RuleOf[c] # "never"
               PROVE  Cardinality(Pending(c)') + Cardinality(Emitting(c)') <= Cardinality(Windows)
    BY DEF RowsBounded
  <2>1. Emitting(c)' \in SUBSET Emitting(c) /\ Pending(c)' \in SUBSET Pending(c)
    BY <1>1 DEF Emitting
  <2>2. Cardinality(Pending(c)) + Cardinality(Emitting(c)) <= Cardinality(Windows)
    BY DEF SpineInv, RowsBounded
  <2>3. QED
    BY <1>0, <2>1, <2>2, SpineFacts, SumShrinks
<1>4. SignalsBounded'
  <2>1. \A b \in Builds : Named(b)' = Named(b) /\ Reporting(b)' = Reporting(b)
    BY DEF Named, Reporting
  <2>2. QED
    BY <2>1 DEF SpineInv, SignalsBounded
<1>5. QED
  BY <1>2, <1>3, <1>4 DEF SpineInv

LEMMA BuildStepKeeps ==
    ASSUME SpineInv, IsFiniteSet(Windows), NEW b \in Builds,
           BuildStarts(b) \/ LockReleased(b) \/ BuildSettles(b) \/ BuildKilled(b) \/ BuildRedriven(b)
    PROVE  SpineInv'
<1>0. RetroTypeOK /\ SpineTypes /\ terminals \in Seq(Builds) /\ DOMAIN terminals = 1 .. Len(terminals)
  BY SpineFacts DEF SpineInv, SpineTypes
<1>1. UNCHANGED <<signals, analysed, drained, queue, window, ended, openings>>
  BY DEF BuildStarts, LockReleased, BuildSettles, BuildKilled, BuildRedriven, BuildStep
<1>2. build' \in [Builds -> BuildStates]
  BY <1>0 DEF RetroTypeOK, BuildStates, BuildStarts, LockReleased, BuildSettles, BuildKilled, BuildRedriven, BuildStep
<1>3. killings' \in 0 .. SpineKills
  BY <1>0, SpineConstants DEF RetroTypeOK, BuildStarts, LockReleased, BuildSettles, BuildKilled, BuildRedriven
<1>4. terminals' = terminals \/ terminals' = Append(terminals, b)
  BY DEF BuildStarts, LockReleased, BuildSettles, BuildKilled, BuildRedriven
<1>5. /\ terminals' \in Seq(Builds) /\ DOMAIN terminals \subseteq DOMAIN terminals'
      /\ \A i \in DOMAIN terminals : terminals'[i] = terminals[i]
  BY <1>0, <1>4, AppendGrows
<1>6. RetroTypeOK'
  BY <1>0, <1>1, <1>2, <1>3, <1>5 DEF RetroTypeOK
<1>7. \A c \in Contents : Pending(c)' \subseteq Pending(c)
  BY <1>1 DEF Pending
<1>8. QED
  BY <1>1, <1>5, <1>6, <1>7, OutsideStep

LEMMA ReviewedKeeps ==
    ASSUME SpineInv, IsFiniteSet(Windows), NEW i \in DOMAIN queue, Reviewed(i)
    PROVE  SpineInv'
<1> DEFINE row == [queue[i] EXCEPT !.state = "closed"]
<1>0. RetroTypeOK /\ SpineTypes /\ queue \in Seq([content : Contents, state : {"pending", "closed"}])
      /\ queue[i] \in [content : Contents, state : {"pending", "closed"}]
  BY SpineFacts DEF SpineInv, SpineTypes
<1>1. row \in [content : Contents, state : {"pending", "closed"}] /\ row.state = "closed"
  BY <1>0
<1>2. /\ queue' = [queue EXCEPT ![i] = row]
      /\ UNCHANGED <<build, terminals, signals, analysed, drained, window, ended, killings, openings>>
  BY <1>0 DEF Reviewed
<1> HIDE DEF row
<1>3. /\ queue' \in Seq([content : Contents, state : {"pending", "closed"}])
      /\ DOMAIN queue' = DOMAIN queue /\ queue'[i] = row
      /\ \A j \in DOMAIN queue : j # i => queue'[j] = queue[j]
  BY <1>0, <1>1, <1>2, ReplaceOne
<1>4. RetroTypeOK'
  BY <1>0, <1>2, <1>3 DEF RetroTypeOK
<1>5. \A c \in Contents : Pending(c)' \subseteq Pending(c)
  BY <1>1, <1>3 DEF Pending
<1>6. QED
  BY <1>2, <1>4, <1>5, OutsideStep

LEMMA SpineStarts ==
    ASSUME RetroInit, IsFiniteSet(Windows)
    PROVE  SpineInv
<1>1. Off \in WindowFrame /\ Off.doing = "pick" /\ Off.item = 0 /\ Off.todo = {} /\ Off.left = <<>>
  BY EmptySeq DEF Off, WindowFrame
<1>2. /\ window \in [Windows -> WindowFrame]
      /\ \A w \in Windows : window[w] = Off
  BY <1>1 DEF RetroInit
<1>3. /\ signals \in Seq(Builds) /\ DOMAIN signals = {}
      /\ queue \in Seq([content : Contents, state : {"pending", "closed"}]) /\ DOMAIN queue = {}
  <2>1. \A S : <<>> \in Seq(S)
    BY EmptySeq
  <2>2. Len(signals) = 0 /\ Len(queue) = 0 /\ signals \in Seq(Builds)
        /\ queue \in Seq([content : Contents, state : {"pending", "closed"}])
    BY <2>1 DEF RetroInit
  <2>3. DOMAIN signals = 1 .. Len(signals) /\ DOMAIN queue = 1 .. Len(queue)
    BY <2>2, Positions
  <2>4. QED
    BY <2>2, <2>3
<1>4. RetroTypeOK
  <2>1. build \in [Builds -> BuildStates]
    BY DEF RetroInit, BuildStates
  <2>2. terminals \in Seq(Builds) /\ analysed \subseteq {KeyOf[b] : b \in Builds} /\ drained \subseteq DOMAIN signals
    BY SpineConstants DEF RetroInit
  <2>3. ended \in [Windows -> {"running", "empty", "held", "halted", "killed"}]
        /\ killings \in 0 .. SpineKills /\ openings \in 0 .. SpineWindows
    BY SpineConstants DEF RetroInit
  <2>4. QED
    BY <1>1, <1>2, <1>3, <2>1, <2>2, <2>3 DEF RetroTypeOK
<1>5. SpineTypes
  BY <1>1, <1>2, <1>4 DEF SpineTypes, AtItem
<1>6. \A c : Pending(c) = {} /\ Emitting(c) \in SUBSET Windows
  BY <1>3 DEF Pending, Emitting
<1>7. \A b : Named(b) = {} /\ Reporting(b) \in SUBSET Windows
  BY <1>3 DEF Named, Reporting
<1>8. RowsBounded
  BY <1>6, SumStarts DEF RowsBounded
<1>9. SignalsBounded
  BY <1>7, SumStarts DEF SignalsBounded
<1>10. QED
  BY <1>5, <1>8, <1>9 DEF SpineInv

(***************************************************************************)
(* Whatever windows interleave, are killed and analyse the same terminal   *)
(* again, a content has at most as many pending rows and an orphan as many *)
(* signals as there are windows: what drive.py:14-21 accepts is bounded.   *)
(* The windows are the processes that drain the store, finitely many.      *)
(***************************************************************************)
THEOREM RaceResidueIsBounded ==
    ASSUME IsFiniteSet(Windows)
    PROVE  RetroSpec => []RaceResidueBounded
<1>1. RetroInit => SpineInv
  BY SpineStarts
<1>2. SpineInv /\ [RetroNext]_retroVars => SpineInv'
  <2> SUFFICES ASSUME SpineInv, [RetroNext]_retroVars
               PROVE  SpineInv'
    OBVIOUS
  <2>1. ASSUME NEW b \in Builds,
               BuildStarts(b) \/ LockReleased(b) \/ BuildSettles(b) \/ BuildKilled(b) \/ BuildRedriven(b)
        PROVE  SpineInv'
    BY <2>1, BuildStepKeeps
  <2>2. ASSUME NEW w \in Windows, OpenWindow(w)
        PROVE  SpineInv'
    BY <2>2, OpenWindowKeeps
  <2>3. ASSUME NEW w \in Windows, WindowKilled(w)
        PROVE  SpineInv'
    BY <2>3, WindowKilledKeeps
  <2>4. ASSUME NEW w \in Windows, WindowStep(w)
        PROVE  SpineInv'
    <3>1. CASE PickTerminal(w) \/ Analyse(w) \/ Record(w) \/ PickSignal(w) \/ SweepEnds(w)
      BY <3>1, PhaseStepKeeps
    <3>2. CASE EmitCandidate(w)
      BY <3>2, EmitKeeps
    <3>3. CASE SweepLog(w)
      BY <3>3, SweepKeeps
    <3>4. CASE \E b \in Builds : Report(w, b)
      BY <3>4, ReportKeeps
    <3>5. QED
      BY <2>4, <3>1, <3>2, <3>3, <3>4 DEF WindowStep
  <2>5. ASSUME NEW i \in DOMAIN queue, Reviewed(i)
        PROVE  SpineInv'
    BY <2>5, ReviewedKeeps
  <2>6. CASE UNCHANGED retroVars
    <3>1. UNCHANGED <<build, terminals, signals, analysed, drained, queue, window, ended, killings, openings>>
      BY <2>6 DEF retroVars
    <3>2. RetroTypeOK'
      BY <3>1 DEF SpineInv, SpineTypes, RetroTypeOK
    <3>3. \A c \in Contents : Pending(c)' \subseteq Pending(c)
      BY <3>1 DEF Pending
    <3>4. QED
      BY <3>1, <3>2, <3>3, OutsideStep
  <2>7. QED
    BY <2>1, <2>2, <2>3, <2>4, <2>5, <2>6 DEF RetroNext
<1>3. SpineInv => RaceResidueBounded
  <2> SUFFICES ASSUME SpineInv
               PROVE  RaceResidueBounded
    OBVIOUS
  <2>0. SpineTypes
    BY DEF SpineInv
  <2>1. ASSUME NEW c \in Contents, RuleOf[c] # "never"
        PROVE  Cardinality(Pending(c)) <= Cardinality(Windows)
    <3>1. Cardinality(Pending(c)) \in Nat /\ Cardinality(Emitting(c)) \in Nat /\ Cardinality(Windows) \in Nat
      BY <2>0, SpineFacts, FS_CardinalityType
    <3>2. Cardinality(Pending(c)) + Cardinality(Emitting(c)) <= Cardinality(Windows)
      BY <2>1 DEF SpineInv, RowsBounded
    <3>3. QED
      BY <3>1, <3>2
  <2>2. ASSUME NEW b \in Builds
        PROVE  Cardinality({i \in DOMAIN signals : signals[i] = b}) <= Cardinality(Windows)
    <3>1. Cardinality(Named(b)) \in Nat /\ Cardinality(Reporting(b)) \in Nat /\ Cardinality(Windows) \in Nat
      BY <2>0, SpineFacts, FS_CardinalityType
    <3>2. Cardinality(Named(b)) + Cardinality(Reporting(b)) <= Cardinality(Windows)
      BY <2>2 DEF SpineInv, SignalsBounded
    <3>3. Cardinality(Named(b)) <= Cardinality(Windows)
      BY <3>1, <3>2
    <3>4. QED
      BY <3>3 DEF Named
  <2>3. QED
    BY <2>0, <2>1, <2>2 DEF RaceResidueBounded, SpineTypes
<1>4. QED
  BY <1>1, <1>2, <1>3, PTL DEF RetroSpec
=============================================================================
