----------------------------- MODULE Generation -----------------------------
(***************************************************************************)
(* Chat turns: GenerationService.generate and the conversation it is       *)
(* persisted in (generation/service.py, generation/repositories.py), next  *)
(* to the deletion of a knowledge base, which takes its conversations and  *)
(* messages along (DeleteKnowledgeBaseHandler).                            *)
(*                                                                         *)
(* A turn reads its history, retrieves, calls the model up to Attempts     *)
(* times, and persists what came of it in one transaction: it finds or     *)
(* inserts the conversation, reads the next sequence number, and commits   *)
(* two messages.  The transactions read committed rows; an inserted row    *)
(* locks the rows its foreign keys name until the end of the transaction,  *)
(* and so does a deleted row for those who would refer to it.              *)
(*                                                                         *)
(* What retrieval and the model return is left open here; the choice among *)
(* retrieved chunks, the prompt and the citations belong to Answering.     *)
(***************************************************************************)
EXTENDS Integers, FiniteSets, FiniteSetsExt

CONSTANTS
    Turns, Conversations, KnowledgeBases, Workspaces,
    Home,              \* the workspace of each knowledge base
    Attempts,          \* calls of the model in one turn
    HistoryLimit,      \* messages of history
    NoConversation, Unborn, Gone

Rows == [workspace : Workspaces, kb : KnowledgeBases]

ASSUME GenerationAssumption ==
    /\ IsFiniteSet(Turns) /\ IsFiniteSet(Conversations)
    /\ Home \in [KnowledgeBases -> Workspaces]
    /\ Attempts \in Nat \ {0} /\ HistoryLimit \in Nat
    /\ NoConversation \notin Conversations
    /\ Unborn # Gone /\ {Unborn, Gone} \cap Rows = {}

VARIABLES
    kb,             \* status of each knowledge base
    conversation,   \* row of each conversation
    messages,       \* committed rows
    turn,           \* what each turn has read and is doing
    deletion        \* what the deletion of each knowledge base has removed

vars == <<kb, conversation, messages, turn, deletion>>

Ended == {"answered", "raised"}
Asks == [workspace : Workspaces, kb : KnowledgeBases,
         conversation : Conversations \cup {NoConversation}]
Kept(c) == conversation[c] \notin {Unborn, Gone}

Messages ==
    [turn : Turns, role : {"user", "assistant"}, conversation : Conversations,
     workspace : Workspaces, kb : KnowledgeBases, seq : Nat \ {0}]

Idle == [at |-> "idle"]
NoDeletion == [at |-> "idle"]

Init ==
    /\ kb = [k \in KnowledgeBases |-> "there"]
    /\ conversation = [c \in Conversations |-> Unborn]
    /\ messages = {}
    /\ turn = [t \in Turns |-> Idle]
    /\ deletion = [k \in KnowledgeBases |-> NoDeletion]

\* Mutant: the conversation is looked up by its id alone.
Scoped_ById(c, workspace) == c \in Conversations /\ Kept(c)

\* ConversationRepository.get_scoped
Scoped(c, workspace) ==
    c \in Conversations /\ Kept(c) /\ conversation[c].workspace = workspace

In(c) == {m \in messages : m.conversation = c}

\* MessageRepository.list_recent_turns: messages of one number come in any order.
RecentTurns(c) ==
    LET After(m) == Cardinality({n \in In(c) : n.seq > m.seq})
    IN  {ms \in SUBSET {m \in In(c) : After(m) < HistoryLimit} :
            /\ Cardinality(ms) = Min({HistoryLimit, Cardinality(In(c))})
            /\ \A m \in ms, n \in In(c) \ ms : n.seq <= m.seq}

\* Mutant: each turn is numbered from the start.
NextSequence_Restart(c) == 1

\* MessageRepository.next_sequence
NextSequence(c) == Max({m.seq : m \in In(c)} \cup {0}) + 1

Step(t, stage, next) ==
    /\ turn[t].at = stage
    /\ turn' = [turn EXCEPT ![t] = next]

With(t, stage) == [turn[t] EXCEPT !.at = stage]

\* The exception leaves generate: nothing of the transaction is kept.
Raised == [at |-> "raised"]

\* A result is known, completed, abstained or failed: each is kept in the same way.
Persist(t) == [at |-> "persist", ask |-> turn[t].ask, history |-> turn[t].history]

-----------------------------------------------------------------------------
(* generate, up to its result *)

\* _resolve_history
History(ask) ==
    IF Scoped(ask.conversation, ask.workspace) THEN RecentTurns(ask.conversation) ELSE {{}}

\* The client knows no conversation, or one that was persisted for it or for another.
Begin(t, ask) ==
    /\ ask.conversation # NoConversation => conversation[ask.conversation] # Unborn
    /\ \E history \in History(ask) :
          Step(t, "idle", [at |-> "retrieve", ask |-> ask, history |-> history])
    /\ UNCHANGED <<kb, conversation, messages, deletion>>

\* KnowledgeBaseRepository.get_scoped
Found(t) == Home[turn[t].ask.kb] = turn[t].ask.workspace /\ kb[turn[t].ask.kb] # "gone"

\* The caller is told, and nothing is kept.
Refuse(t) ==
    /\ turn[t].at = "retrieve" /\ ~ Found(t)
    /\ Step(t, "retrieve", Raised)
    /\ UNCHANGED <<kb, conversation, messages, deletion>>

\* Failed: any other RetrievalError (an archived knowledge base, a timeout, no permission),
\* or a prompt that stays too large.  Abstained: no evidence, or none that is selected.
NoPrompt(t) ==
    /\ turn[t].at = "retrieve" /\ Found(t)
    /\ Step(t, "retrieve", Persist(t))
    /\ UNCHANGED <<kb, conversation, messages, deletion>>

Prompt(t) ==
    /\ turn[t].at = "retrieve" /\ Found(t)
    /\ Step(t, "retrieve", [at |-> "call", ask |-> turn[t].ask, history |-> turn[t].history,
                            attempt |-> 1])
    /\ UNCHANGED <<kb, conversation, messages, deletion>>

\* Mutant: the last error is not raised.
CallFails_Forever(t) ==
    /\ turn[t].at = "call"
    /\ Step(t, "call", [turn[t] EXCEPT !.attempt = IF @ < Attempts THEN @ + 1 ELSE 1])
    /\ UNCHANGED <<kb, conversation, messages, deletion>>

\* _complete_with_retries: the model is called again after a timeout and after any error.
CallFails(t) ==
    /\ turn[t].at = "call"
    /\ Step(t, "call", IF turn[t].attempt < Attempts
                        THEN [turn[t] EXCEPT !.attempt = @ + 1]
                        ELSE Persist(t))
    /\ UNCHANGED <<kb, conversation, messages, deletion>>

\* An abstention, an echo of the question, or an answer.
ModelReplies(t) ==
    /\ Step(t, "call", Persist(t))
    /\ UNCHANGED <<kb, conversation, messages, deletion>>

-----------------------------------------------------------------------------
(* _persist_turn *)

\* The conversation is found and its next number read.  What other transactions commit
\* between these two reads is seen by the second, or refused at the commit.
FindConversation(t) ==
    LET c == turn[t].ask.conversation
    IN  /\ turn[t].at = "persist"
        /\ Scoped(c, turn[t].ask.workspace)
        /\ Step(t, "persist",
                [at |-> "commit", ask |-> turn[t].ask, history |-> turn[t].history,
                 inserted |-> FALSE, conversation |-> c, seq |-> NextSequence(c)])
        /\ UNCHANGED <<kb, conversation, messages, deletion>>

Taken == {turn[u].conversation : u \in {u \in Turns : turn[u].at = "commit"}}

\* The new row locks its knowledge base.
InsertConversation(t) ==
    /\ turn[t].at = "persist"
    /\ ~ Scoped(turn[t].ask.conversation, turn[t].ask.workspace)
    /\ \/ /\ kb[turn[t].ask.kb] # "gone"
          /\ \E c \in Conversations :
                /\ conversation[c] = Unborn /\ c \notin Taken
                /\ Step(t, "persist",
                        [at |-> "commit", ask |-> turn[t].ask, history |-> turn[t].history,
                         inserted |-> TRUE, conversation |-> c, seq |-> NextSequence(c)])
       \/ kb[turn[t].ask.kb] = "gone" /\ Step(t, "persist", Raised)
    /\ UNCHANGED <<kb, conversation, messages, deletion>>

\* Mutant: both messages are given the number that was read.
TurnMessages_OneNumber(t) ==
    {[turn |-> t, role |-> r, conversation |-> turn[t].conversation,
      workspace |-> turn[t].ask.workspace, kb |-> turn[t].ask.kb, seq |-> turn[t].seq] :
        r \in {"user", "assistant"}}

TurnMessages(t) ==
    {[turn |-> t, role |-> "user", conversation |-> turn[t].conversation,
      workspace |-> turn[t].ask.workspace, kb |-> turn[t].ask.kb, seq |-> turn[t].seq],
     [turn |-> t, role |-> "assistant", conversation |-> turn[t].conversation,
      workspace |-> turn[t].ask.workspace, kb |-> turn[t].ask.kb, seq |-> turn[t].seq + 1]}

Locked(c) ==
    \E k \in KnowledgeBases : deletion[k].at = "kb" /\ c \in deletion[k].conversations

CanRefer(t) ==
    /\ turn[t].inserted \/ conversation[turn[t].conversation] # Gone
    /\ kb[turn[t].ask.kb] # "gone"

\* Mutant: the messages are committed before the conversation they belong to is checked.
CommitTurn_Early(t) ==
    /\ turn[t].at = "commit"
    /\ ~ Locked(turn[t].conversation)
    /\ messages' = messages \cup TurnMessages(t)
    /\ \/ /\ CanRefer(t)
          /\ conversation' =
                IF turn[t].inserted
                THEN [conversation EXCEPT ![turn[t].conversation] =
                         [workspace |-> turn[t].ask.workspace, kb |-> turn[t].ask.kb]]
                ELSE conversation
          /\ Step(t, "commit", With(t, "answered"))
       \/ /\ ~ CanRefer(t)
          /\ Step(t, "commit", Raised)
          /\ UNCHANGED conversation
    /\ UNCHANGED <<kb, deletion>>

CommitTurn(t) ==
    /\ turn[t].at = "commit"
    /\ ~ Locked(turn[t].conversation)
    /\ \/ /\ CanRefer(t)
          /\ messages' = messages \cup TurnMessages(t)
          /\ conversation' =
                IF turn[t].inserted
                THEN [conversation EXCEPT ![turn[t].conversation] =
                         [workspace |-> turn[t].ask.workspace, kb |-> turn[t].ask.kb]]
                ELSE conversation
          /\ Step(t, "commit", With(t, "answered"))
       \/ /\ ~ CanRefer(t)
          /\ Step(t, "commit", Raised)
          /\ UNCHANGED <<messages, conversation>>
    /\ UNCHANGED <<kb, deletion>>

-----------------------------------------------------------------------------
(* Knowledge bases *)

DeletionStep(k, stage, next) ==
    /\ deletion[k].at = stage
    /\ deletion' = [deletion EXCEPT ![k] = next]

DeleteMessages(k) ==
    /\ kb[k] # "gone"
    /\ DeletionStep(k, "idle", [at |-> "conversations",
                                messages |-> {m \in messages : m.kb = k}])
    /\ UNCHANGED <<kb, conversation, messages, turn>>

\* A message that is left refers to its conversation: the request fails.
DeleteConversations(k) ==
    /\ deletion[k].at = "conversations"
    /\ LET own == {c \in Conversations : Kept(c) /\ conversation[c].kb = k}
       IN  DeletionStep(k, "conversations",
              IF \E m \in messages \ deletion[k].messages : m.conversation \in own
              THEN NoDeletion
              ELSE [at |-> "kb", messages |-> deletion[k].messages, conversations |-> own])
    /\ UNCHANGED <<kb, conversation, messages, turn>>

\* The row of the knowledge base waits for the turns that refer to it.
DeleteKnowledgeBase(k) ==
    /\ deletion[k].at = "kb"
    /\ \A t \in Turns : turn[t].at = "commit" =>
                          ~ (turn[t].inserted /\ turn[t].ask.kb = k)
    /\ LET left == {m \in messages : m.kb = k} \ deletion[k].messages
           new == {c \in Conversations : Kept(c) /\ conversation[c].kb = k}
                     \ deletion[k].conversations
       IN  IF left = {} /\ new = {}
           THEN /\ kb' = [kb EXCEPT ![k] = "gone"]
                /\ messages' = messages \ deletion[k].messages
                /\ conversation' = [c \in Conversations |->
                      IF c \in deletion[k].conversations THEN Gone ELSE conversation[c]]
           ELSE UNCHANGED <<kb, messages, conversation>>
    /\ DeletionStep(k, "kb", NoDeletion)
    /\ UNCHANGED turn

-----------------------------------------------------------------------------

TurnStep(t) ==
    \/ Refuse(t) \/ NoPrompt(t) \/ Prompt(t)
    \/ CallFails(t) \/ ModelReplies(t)
    \/ FindConversation(t) \/ InsertConversation(t) \/ CommitTurn(t)

DeletionEnds(k) == DeleteConversations(k) \/ DeleteKnowledgeBase(k)

Next ==
    \/ \E t \in Turns : TurnStep(t)
    \/ \E t \in Turns, ask \in Asks : Begin(t, ask)
    \/ \E k \in KnowledgeBases :
          DeleteMessages(k) \/ DeletionEnds(k)

\* The event loop runs every turn and request that can go on; every wait in them has a
\* timeout (retrieval, the model) or ends with another transaction (locks).
Fairness ==
    /\ \A t \in Turns : WF_vars(TurnStep(t))
    /\ \A k \in KnowledgeBases : WF_vars(DeletionEnds(k))

Spec == Init /\ [][Next]_vars /\ Fairness

-----------------------------------------------------------------------------
(* Properties *)

TurnStates ==
    [at : {"idle"}]
    \cup [at : {"retrieve", "persist"}, ask : Asks, history : SUBSET Messages]
    \cup [at : {"call"}, ask : Asks, history : SUBSET Messages, attempt : 1..Attempts]
    \cup [at : {"commit", "answered"}, ask : Asks, history : SUBSET Messages,
          inserted : BOOLEAN, conversation : Conversations, seq : Nat \ {0}]
    \cup [at : {"raised"}]

Deletions ==
    [at : {"idle"}]
    \cup [at : {"conversations"}, messages : SUBSET Messages]
    \cup [at : {"kb"}, messages : SUBSET Messages, conversations : SUBSET Conversations]

\* Every variable has its type.
TypeOK ==
    /\ kb \in [KnowledgeBases -> {"there", "gone"}]
    /\ conversation \in [Conversations -> Rows \cup {Unborn, Gone}]
    /\ messages \in SUBSET Messages
    /\ turn \in [Turns -> TurnStates]
    /\ deletion \in [KnowledgeBases -> Deletions]

Of(t) == {m \in messages : m.turn = t}

\* A turn that was answered is in its conversation as a question and its answer, until its
\* knowledge base is deleted; of a turn that raised, or is under way, nothing is there.
TurnKeptWhole ==
    \A t \in Turns :
        IF turn[t].at = "answered"
        THEN Of(t) = TurnMessages(t) \/ (Of(t) = {} /\ kb[turn[t].ask.kb] = "gone")
        ELSE Of(t) = {}

\* However turns and deletions interleave, questions have odd numbers and the answer to a
\* question has the number after it: ordered by number, an answer never precedes the
\* question of its turn (next_sequence and the two messages of _persist_turn).
AnswerFollowsQuestion ==
    \A m \in messages :
        /\ (m.role = "user") <=> (m.seq % 2 = 1)
        /\ m.role = "assistant" =>
              \E q \in messages : q.turn = m.turn /\ q.role = "user" /\ q.seq = m.seq - 1

\* A turn comes after every message its prompt has shown, wherever both are kept, whatever
\* other turns and deletions did to the conversation between the two reads.
AfterItsHistory ==
    \A t \in Turns : turn[t].at = "answered" =>
        \A m \in turn[t].history, n \in Of(t) :
            m \in messages /\ m.conversation = n.conversation => m.seq < n.seq

\* A conversation, its messages, and the history shown to a turn are of one workspace.
WorkspacesApart ==
    /\ \A m \in messages :
          Kept(m.conversation) =>
              m.workspace = conversation[m.conversation].workspace
    /\ \A t \in Turns : turn[t].at \notin {"idle", "raised"} =>
          \A m \in turn[t].history : m.workspace = turn[t].ask.workspace

\* Every turn ends: with an answer, an abstention or a failure that is kept, or raising.
EveryTurnEnds ==
    \A t \in Turns : turn[t].at # "idle" ~> turn[t].at \in Ended
=============================================================================
