----------------------------- MODULE Interview -----------------------------
(***************************************************************************)
(* Research interviews: a role elicits, asks, waits for the operator's     *)
(* answer in the event log, and in the end drafts a spec. The language     *)
(* model may reply anything at each round; the operator may answer any     *)
(* question in the log, twice or never; a process may die. A re-driven     *)
(* interview is another process on the same correlation: it numbers its    *)
(* questions from zero again.                                              *)
(***************************************************************************)
EXTENDS Naturals, Sequences, FiniteSets

CONSTANTS
    Interviews,    \* runs of the research role
    CorrelationOf, \* [Interviews -> correlations]: run_research.py has one by default
    Polled,        \* the runs that give up on an answer: the script's. A console's wait until cancelled
    MaxQuestions,
    MinQuestions,  \* asked before a reply of low value may end the interview
    AnswerCap,     \* bound: answers the operator gives
    InterviewKills \* bound: interviews killed

ASSUME InterviewAssumption ==
    /\ Polled \subseteq Interviews
    /\ DOMAIN CorrelationOf = Interviews
    /\ MaxQuestions \in Nat \ {0} /\ MinQuestions \in Nat
    /\ AnswerCap \in Nat /\ InterviewKills \in Nat

VARIABLES
    questions,  \* question_asked events: the id and, not in the payload, who asked
    answers,    \* question_answered events: the id and, not in the payload, the question the operator read
    interview,  \* per run: where it is
    heard,      \* per run: the question and the answer of each round (a history)
    spec,       \* per run: its spec artifact, and whether spec_drafted announced it
    killedRuns

interviewVars == <<questions, answers, interview, heard, spec, killedRuns>>

Ids == [of : {CorrelationOf[i] : i \in Interviews}, number : 0 .. MaxQuestions - 1]

Quiet == [doing |-> "off", asked |-> 0, retried |-> FALSE, confirming |-> FALSE]

\* What elicit returns, as far as the loop looks at it: its shape, and what it
\* says of itself or repeats of earlier rounds.
Replies ==
    [shape : {"error", "shapeless", "agreed"}, marks : {{}}]
        \cup [shape : {"diverges"}, marks : SUBSET {"low", "reasked", "quoted"}]

Stages == {"off", "eliciting", "replied", "waiting", "drafting", "announcing", "over"}

InterviewTypeOK ==
    /\ questions \in Seq([id : Ids, by : Interviews])
    /\ answers \in Seq([id : Ids, to : Nat \ {0}])
    /\ \A k \in DOMAIN answers : answers[k].to \in DOMAIN questions
    /\ interview \in [Interviews -> [doing : Stages, asked : 0 .. MaxQuestions, retried : BOOLEAN, confirming : BOOLEAN]]
    /\ heard \in [Interviews -> Seq((DOMAIN questions) \X (DOMAIN answers))]
    /\ spec \in [Interviews -> {"none", "persisted", "announced"}]
    /\ killedRuns \in 0 .. InterviewKills

-----------------------------------------------------------------------------
\* Fault: the counter is left out of the id
UnnumberedId(i) == [of |-> CorrelationOf[i], number |-> 0]

QuestionId(i) == [of |-> CorrelationOf[i], number |-> interview[i].asked]

Doing(i, step) == interview[i].doing = step

Turn(i, step) == interview' = [interview EXCEPT ![i].doing = step]

\* the question this run waits on: its last one
Open(i) ==
    LET mine == {k \in DOMAIN questions : questions[k].by = i}
    IN  CHOOSE k \in mine : \A j \in mine : j <= k

InterviewInit ==
    /\ questions = <<>> /\ answers = <<>>
    /\ interview = [i \in Interviews |-> Quiet]
    /\ heard = [i \in Interviews |-> <<>>]
    /\ spec = [i \in Interviews |-> "none"]
    /\ killedRuns = 0

StartInterview(i) ==
    /\ Doing(i, "off") /\ Turn(i, "eliciting")
    /\ UNCHANGED <<questions, answers, heard, spec, killedRuns>>

\* the loop's test: at the cap no further reply is sought
StopAtCap(i) ==
    /\ Doing(i, "eliciting") /\ interview[i].asked = MaxQuestions
    /\ Turn(i, "drafting")
    /\ UNCHANGED <<questions, answers, heard, spec, killedRuns>>

Elicit(i) ==
    /\ Doing(i, "eliciting") /\ interview[i].asked < MaxQuestions
    /\ Turn(i, "replied")
    /\ UNCHANGED <<questions, answers, heard, spec, killedRuns>>

\* _low_signal: the reply rates itself not worth a question
LowSignal(i, r) == interview[i].asked >= MinQuestions /\ "low" \in r.marks

\* _is_reask: the words of an answered question come back
IsReask(i, r) == interview[i].asked >= MinQuestions /\ heard[i] # <<>> /\ "reasked" \in r.marks

\* _answer_quote_reask: an answer is quoted, which one answer is enough for
AnswerQuoted(i, r) == interview[i].asked >= 1 /\ "quoted" \in r.marks

\* worth asking the operator
IsOpenQuestion(i, r) ==
    r.shape = "diverges" /\ ~LowSignal(i, r) /\ ~IsReask(i, r) /\ ~AnswerQuoted(i, r)

\* The reply is an error, shapeless a second time, or a question not worth
\* asking. The minimum of questions binds two of the marks only.
StopOnReply(i, r) ==
    /\ Doing(i, "replied") /\ Turn(i, "drafting")
    /\ \/ r.shape = "error"
       \/ r.shape = "shapeless" /\ interview[i].retried
       \/ r.shape = "diverges" /\ ~IsOpenQuestion(i, r)
    /\ UNCHANGED <<questions, answers, heard, spec, killedRuns>>

\* Fault: the retry of a shapeless reply is not remembered
RetryAlways(i, r) ==
    /\ Doing(i, "replied") /\ r.shape = "shapeless" /\ Turn(i, "eliciting")
    /\ UNCHANGED <<questions, answers, heard, spec, killedRuns>>

\* a reply with no payload is sought again, once in an interview
RetryShapeless(i, r) ==
    /\ Doing(i, "replied") /\ r.shape = "shapeless"
    /\ ~interview[i].retried
    /\ interview' = [interview EXCEPT ![i].doing = "eliciting", ![i].retried = TRUE]
    /\ UNCHANGED <<questions, answers, heard, spec, killedRuns>>

\* a divergence to resolve, or the one confirmation turn when there is none
Ask(i, r) ==
    /\ Doing(i, "replied")
    /\ r.shape = "agreed" \/ IsOpenQuestion(i, r)
    /\ questions' = Append(questions, [id |-> QuestionId(i), by |-> i])
    /\ interview' = [interview EXCEPT ![i].doing = "waiting", ![i].confirming = (r.shape = "agreed")]
    /\ UNCHANGED <<answers, heard, spec, killedRuns>>

\* _poll_answer and the consoles' answer_fn: the first event with the id
Hear(i) ==
    /\ Doing(i, "waiting")
    /\ LET q == Open(i)
           replies == {k \in DOMAIN answers : answers[k].id = questions[q].id}
           first == CHOOSE k \in replies : \A j \in replies : k <= j
       IN  /\ replies # {}
           /\ heard' = [heard EXCEPT ![i] = Append(@, <<q, first>>)]
    /\ interview' = [interview EXCEPT
                        ![i].doing = IF interview[i].confirming THEN "drafting" ELSE "eliciting",
                        ![i].asked = IF interview[i].confirming THEN @ ELSE @ + 1]
    /\ UNCHANGED <<questions, answers, spec, killedRuns>>

\* TimeoutError after poll_limit, and nothing handles it
GiveUp(i) ==
    /\ Doing(i, "waiting") /\ i \in Polled /\ Turn(i, "over")
    /\ UNCHANGED <<questions, answers, heard, spec, killedRuns>>

\* the spec is synthesized, _draft_and_persist commits it, then spec_drafted is emitted
PersistSpec(i) ==
    /\ Doing(i, "drafting") /\ Turn(i, "announcing")
    /\ spec' = [spec EXCEPT ![i] = "persisted"]
    /\ UNCHANGED <<questions, answers, heard, killedRuns>>

AnnounceSpec(i) ==
    /\ Doing(i, "announcing") /\ Turn(i, "over")
    /\ spec' = [spec EXCEPT ![i] = "announced"]
    /\ UNCHANGED <<questions, answers, heard, killedRuns>>

\* a console's cancel is seen only while the run polls for an answer
CancelInterview(i) ==
    /\ Doing(i, "waiting") /\ i \notin Polled /\ Turn(i, "over")
    /\ UNCHANGED <<questions, answers, heard, spec, killedRuns>>

InterviewKilled(i) ==
    /\ interview[i].doing \notin {"off", "over"} /\ Turn(i, "over")
    /\ killedRuns < InterviewKills /\ killedRuns' = killedRuns + 1
    /\ UNCHANGED <<questions, answers, heard, spec>>

\* answer_question and submit_answer: any id that was asked, and what the
\* operator has read is the text of the latest question with that id
Answer(q) ==
    /\ Len(answers) < AnswerCap
    /\ \A k \in q + 1 .. Len(questions) : questions[k].id # questions[q].id
    /\ answers' = Append(answers, [id |-> questions[q].id, to |-> q])
    /\ UNCHANGED <<questions, interview, heard, spec, killedRuns>>

InterviewStep(i) ==
    \/ StopAtCap(i)
    \/ Elicit(i)
    \/ \E r \in Replies : StopOnReply(i, r) \/ RetryShapeless(i, r) \/ Ask(i, r)
    \/ Hear(i)
    \/ GiveUp(i)
    \/ PersistSpec(i)
    \/ AnnounceSpec(i)

InterviewNext ==
    \/ \E i \in Interviews :
          \/ StartInterview(i)
          \/ InterviewStep(i)
          \/ CancelInterview(i)
          \/ InterviewKilled(i)
    \/ \E q \in DOMAIN questions : Answer(q)

InterviewSpec == InterviewInit /\ [][InterviewNext]_interviewVars

\* A run that is under way goes on: a call to the model returns, a poll is
\* followed by the next. Nothing is assumed of the operator.
InterviewFairness == \A i \in Interviews : WF_interviewVars(InterviewStep(i))

-----------------------------------------------------------------------------
(***************************************************************************)
(* An interview hears the answer to the question it asked, whatever other  *)
(* interviews run, unless another run of the same correlation asked under  *)
(* the same id: then the first answer in the log is taken for it           *)
(* (research.py:646-652), and only that run's answer can be.               *)
(***************************************************************************)
AnswersFresh ==
    InterviewTypeOK /\ \A i \in Interviews : \A n \in DOMAIN heard[i] :
        LET q == heard[i][n][1]
            a == answers[heard[i][n][2]]
        IN  \/ a.to = q
            \/ /\ questions[a.to].by # i
               /\ CorrelationOf[questions[a.to].by] = CorrelationOf[i]

(***************************************************************************)
(* Whatever the model replies, round after round, an interview ends. One   *)
(* that has no limit on its polls does so, or waits on the operator.       *)
(***************************************************************************)
InterviewEnds ==
    \A i \in Interviews :
        interview[i].doing = "eliciting" ~>
            \/ interview[i].doing = "over"
            \/ i \notin Polled /\ interview[i].doing = "waiting"
=============================================================================
