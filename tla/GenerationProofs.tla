-------------------------- MODULE GenerationProofs --------------------------
(***************************************************************************)
(* What is kept of chat turns, for any number of turns, conversations and  *)
(* knowledge bases.                                                        *)
(***************************************************************************)
EXTENDS Generation, FiniteSetTheorems, WellFoundedInduction, TLAPS

\* A turn that has found or inserted the conversation it is kept in.
Placed(t) == turn[t].at \in {"commit", "answered"}

\* A turn that has read its history and did not raise.
Asked(t) == turn[t].at \notin {"idle", "raised"}

\* A turn that has inserted a conversation and not committed it.
Inserting(t) == turn[t].at = "commit" /\ turn[t].inserted

\* What a deletion will remove is of its own knowledge base, and was committed.
DeletionsOwn ==
    \A k \in KnowledgeBases :
        /\ deletion[k].at # "idle" => \A m \in deletion[k].messages : m.kb = k
        /\ deletion[k].at = "kb" =>
              \A c \in deletion[k].conversations : conversation[c] # Unborn

\* Turns start at odd numbers.
Odd == \A t \in Turns : Placed(t) => turn[t].seq % 2 = 1

\* Numbers do not grow without end, so that there is a last one.
Bounded == \E b \in Nat : \A m \in messages : m.seq <= b

\* The history of a turn is of other turns that were answered before it.
HistoryEarlier ==
    \A t \in Turns : Asked(t) =>
        \A m \in turn[t].history : m.turn # t /\ turn[m.turn].at = "answered"

\* A turn has read a number after those of its history, which do not come back.
NumberAfter ==
    \A t \in Turns : Placed(t) =>
        \A m \in turn[t].history :
            m \in messages /\ m.conversation = turn[t].conversation => m.seq < turn[t].seq

\* A conversation is inserted once, and one that was found is of the turn's workspace.
OwnConversation ==
    \A t \in Turns : Placed(t) =>
        /\ Inserting(t) => /\ conversation[turn[t].conversation] = Unborn
                           /\ \A u \in Turns \ {t} : turn[u].at = "commit" =>
                                 turn[u].conversation # turn[t].conversation
        /\ ~ Inserting(t) => /\ conversation[turn[t].conversation] # Unborn
                             /\ Kept(turn[t].conversation) =>
                                   conversation[turn[t].conversation].workspace = turn[t].ask.workspace

\* The inductive invariant.
IInv ==
    /\ TypeOK /\ TurnKeptWhole /\ DeletionsOwn /\ Odd /\ Bounded
    /\ HistoryEarlier /\ NumberAfter /\ OwnConversation /\ WorkspacesApart

\* Of the numbers of some messages one is greatest.
LEMMA GreatestNumber ==
    ASSUME NEW S \in SUBSET Nat, S # {}, NEW b \in Nat, \A n \in S : n <= b
    PROVE  \E m \in S : \A n \in S : n <= m
<1>1. PICK R : IsWellFoundedOn(R, Nat) /\ \A x, y \in Nat : y < x => <<y, x>> \in R
  <2> DEFINE R == OpToRel(<, Nat)
  <2>1. IsWellFoundedOn(R, Nat)
    BY NatLessThanWellFounded
  <2>2. \A x, y \in Nat : y < x => <<y, x>> \in R
    BY DEF OpToRel
  <2> HIDE DEF R
  <2> QED
    BY <2>1, <2>2
<1> DEFINE Below == {b - n : n \in S}
<1>2. Below \in SUBSET Nat /\ Below # {}
  <2>1. \A n \in S : b - n \in Nat
    OBVIOUS
  <2>2. PICK n \in S : TRUE
    OBVIOUS
  <2> QED
    BY <2>1, <2>2
<1>3. PICK d \in Below : \A y \in Below : ~ (<<y, d>> \in R)
  <2> HIDE DEF Below
  <2> QED
    BY <1>1, <1>2, WFMin
<1>4. PICK m \in S : d = b - m
  BY <1>3
<1>5. \A n \in S : ~ (b - n < d)
  BY <1>1, <1>2, <1>3
<1> QED
  BY <1>4, <1>5

\* What the stage of a turn says of its fields.
LEMMA TurnFields ==
    ASSUME TypeOK, NEW t \in Turns
    PROVE  /\ turn[t].at \in {"idle", "retrieve", "call", "persist", "commit", "answered", "raised"}
           /\ Asked(t) => turn[t].ask \in Asks /\ turn[t].history \in SUBSET Messages
           /\ turn[t].at = "call" => turn[t].attempt \in 1..Attempts
           /\ Placed(t) => /\ turn[t].conversation \in Conversations
                           /\ turn[t].seq \in Nat \ {0}
                           /\ turn[t].inserted \in BOOLEAN
<1>1. turn[t] \in TurnStates
  BY DEF TypeOK
<1> QED
  BY <1>1 DEF TurnStates, Asked, Placed

\* The message of a turn: role "user" or "assistant".
Message(t, r, n) ==
    [turn |-> t, role |-> r, conversation |-> turn[t].conversation,
     workspace |-> turn[t].ask.workspace, kb |-> turn[t].ask.kb, seq |-> n]

\* A message is one of the two of a turn that was answered, and the other is there.
LEMMA MessagesOfTurns ==
    ASSUME TypeOK, TurnKeptWhole, Odd, NEW m \in messages
    PROVE  /\ m.turn \in Turns /\ turn[m.turn].at = "answered"
           /\ turn[m.turn].seq \in Nat \ {0} /\ turn[m.turn].seq % 2 = 1
           /\ m \in {Message(m.turn, "user", turn[m.turn].seq),
                     Message(m.turn, "assistant", turn[m.turn].seq + 1)}
           /\ Message(m.turn, "user", turn[m.turn].seq) \in messages
           /\ Message(m.turn, "assistant", turn[m.turn].seq + 1) \in messages
<1> DEFINE t == m.turn
<1>1. t \in Turns
  BY DEF TypeOK, Messages
<1>2. turn[t].at = "answered" /\ Of(t) = TurnMessages(t)
  BY <1>1 DEF TurnKeptWhole, Of
<1>3. turn[t].seq \in Nat \ {0} /\ turn[t].seq % 2 = 1
  BY <1>1, <1>2, TurnFields DEF Odd, Placed
<1>4. Of(t) = {Message(t, "user", turn[t].seq), Message(t, "assistant", turn[t].seq + 1)}
  BY <1>2 DEF TurnMessages, Message
<1>5. m \in Of(t) /\ Of(t) \subseteq messages
  BY DEF Of
<1> QED
  BY <1>1, <1>2, <1>3, <1>4, <1>5, Zenon

\* The last message of a conversation is an answer, so its next number is odd.
LEMMA NextIsOdd ==
    ASSUME IInv, NEW c \in Conversations
    PROVE  /\ NextSequence(c) \in Nat \ {0}
           /\ NextSequence(c) % 2 = 1
           /\ \A m \in In(c) : m.seq < NextSequence(c)
<1> DEFINE S == {m.seq : m \in In(c)} \cup {0}
<1>1. S \in SUBSET Nat /\ 0 \in S
  BY DEF IInv, TypeOK, Messages, In
<1>2. PICK b \in Nat : \A m \in messages : m.seq <= b
  BY DEF IInv, Bounded
<1>3. \A n \in S : n <= b
  BY <1>2 DEF In
<1>4. \E n \in S : \A o \in S : n >= o
  <2> HIDE DEF S
  <2>1. \E n \in S : \A o \in S : o <= n
    BY <1>1, <1>3, GreatestNumber
  <2> QED
    BY <1>1, <2>1
<1>5. Max(S) \in S /\ \A o \in S : Max(S) >= o
  <2> HIDE DEF S
  <2> QED
    BY <1>4, Zenon DEF Max
<1>6. Max(S) % 2 = 0
  <2>1. CASE Max(S) = 0
    BY <2>1
  <2>2. ASSUME NEW m \in In(c), m.seq = Max(S) PROVE Max(S) % 2 = 0
    <3> DEFINE t == m.turn
    <3>1. m \in messages /\ m.conversation = c
      BY DEF In
    <3>2. /\ turn[t].seq \in Nat /\ turn[t].seq % 2 = 1
          /\ m \in {Message(t, "user", turn[t].seq), Message(t, "assistant", turn[t].seq + 1)}
          /\ Message(t, "assistant", turn[t].seq + 1) \in messages
      BY <3>1, MessagesOfTurns DEF IInv
    <3>3. turn[t].conversation = c
      BY <3>1, <3>2 DEF Message
    <3>4. Message(t, "assistant", turn[t].seq + 1) \in In(c)
      BY <3>2, <3>3 DEF In, Message
    <3>5. turn[t].seq + 1 \in S
      BY <3>4 DEF Message
    <3>6. m.seq = turn[t].seq \/ m.seq = turn[t].seq + 1
      BY <3>2 DEF Message
    <3> HIDE DEF S, t
    <3> QED
      BY <1>1, <1>5, <2>2, <3>2, <3>5, <3>6
  <2> QED
    BY <1>5, <2>1, <2>2
<1>7. NextSequence(c) = Max(S) + 1
  BY DEF NextSequence
<1>8. Max(S) \in Nat
  BY <1>1, <1>5
<1>9. \A m \in In(c) : m.seq <= Max(S) /\ m.seq \in Nat
  BY <1>1, <1>5
<1> HIDE DEF S
<1> QED
  BY <1>6, <1>7, <1>8, <1>9

-----------------------------------------------------------------------------
(* Steps *)

\* A turn moves on and nothing is committed: it must have a history of answered turns
\* of its workspace, and a conversation and a number that are its own.
LEMMA QuietStep ==
    ASSUME IInv, NEW t \in Turns, NEW next \in TurnStates,
           turn' = [turn EXCEPT ![t] = next],
           UNCHANGED <<kb, conversation, messages, deletion>>,
           turn[t].at # "answered", next.at # "answered",
           next.at \notin {"idle", "raised"} =>
              \A m \in next.history :
                  turn[m.turn].at = "answered" /\ m.workspace = next.ask.workspace,
           next.at = "commit" =>
              /\ next.seq % 2 = 1
              /\ \A m \in In(next.conversation) : m.seq < next.seq
              /\ IF next.inserted
                 THEN conversation[next.conversation] = Unborn /\ next.conversation \notin Taken
                 ELSE Scoped(next.conversation, next.ask.workspace)
    PROVE  IInv'
<1> USE DEF IInv
<1>1. TypeOK'
  BY DEF TypeOK
<1>2. turn'[t] = next /\ \A u \in Turns \ {t} : turn'[u] = turn[u]
  BY DEF TypeOK
<1>3. TurnKeptWhole'
  <2>1. \A u \in Turns : Of(u)' = Of(u)
    BY DEF Of
  <2>2. \A u \in Turns \ {t} : TurnMessages(u)' = TurnMessages(u)
    BY <1>2 DEF TurnMessages
  <2> QED
    BY <1>2, <2>1, <2>2 DEF TurnKeptWhole
<1>4. DeletionsOwn'
  BY DEF DeletionsOwn
<1>5. Odd'
  BY <1>2 DEF Odd, Placed
<1>6. Bounded'
  BY DEF Bounded
<1>7. HistoryEarlier'
  <2> SUFFICES ASSUME NEW u \in Turns, Asked(u)', NEW m \in turn'[u].history
               PROVE  m.turn # u /\ turn'[m.turn].at = "answered"
    BY DEF HistoryEarlier
  <2>1. m.turn \in Turns
    <3>1. turn'[u] \in TurnStates
      BY <1>1 DEF TypeOK
    <3>2. turn'[u].history \in SUBSET Messages
      BY <3>1 DEF TurnStates, Asked
    <3> QED
      BY <3>2 DEF Messages
  <2>2. m.turn # u /\ turn[m.turn].at = "answered"
    BY <1>2 DEF HistoryEarlier, Asked
  <2> QED
    BY <1>2, <2>1, <2>2
<1>8. NumberAfter'
  BY <1>2 DEF NumberAfter, Placed, In
<1>9. OwnConversation'
  BY <1>2 DEF OwnConversation, Inserting, Placed, Scoped, Taken, Kept
<1>10. WorkspacesApart'
  BY <1>2 DEF WorkspacesApart, Kept
<1> QED
  BY <1>1, <1>3, <1>4, <1>5, <1>6, <1>7, <1>8, <1>9, <1>10

\* Every step of a turn but its commit.
LEMMA TurnMoves ==
    ASSUME IInv, NEW t \in Turns,
           \/ \E ask \in Asks : Begin(t, ask)
           \/ Refuse(t) \/ NoPrompt(t) \/ Prompt(t) \/ CallFails(t) \/ ModelReplies(t)
           \/ FindConversation(t) \/ InsertConversation(t)
    PROVE  IInv'
<1> USE DEF Step
<1>0. /\ TypeOK /\ turn \in [Turns -> TurnStates]
      /\ Asked(t) => \A m \in turn[t].history :
            turn[m.turn].at = "answered" /\ m.workspace = turn[t].ask.workspace
  BY DEF IInv, TypeOK, HistoryEarlier, WorkspacesApart, Asked
<1>1. Raised \in TurnStates
  BY DEF TurnStates, Raised
<1>2. Asked(t) => Persist(t) \in TurnStates
  BY <1>0, TurnFields DEF TurnStates, Persist
<1>3. ASSUME NEW ask \in Asks, Begin(t, ask) PROVE IInv'
  <2>1. PICK history \in History(ask) :
           turn[t].at = "idle" /\ turn' = [turn EXCEPT ![t] = [at |-> "retrieve", ask |-> ask, history |-> history]]
    BY <1>3 DEF Begin
  <2>2. history \subseteq messages
    BY DEF History, RecentTurns, In
  <2>3. [at |-> "retrieve", ask |-> ask, history |-> history] \in TurnStates
    BY <2>2 DEF IInv, TypeOK, TurnStates
  <2>4. ASSUME NEW m \in history
        PROVE  turn[m.turn].at = "answered" /\ m.workspace = ask.workspace
    <3>1. turn[m.turn].at = "answered"
      BY <2>2, MessagesOfTurns DEF IInv
    <3>2. Scoped(ask.conversation, ask.workspace) /\ m.conversation = ask.conversation
      BY <2>1 DEF History, RecentTurns, In
    <3>3. m.workspace = conversation[m.conversation].workspace
      BY <2>2, <3>2 DEF IInv, WorkspacesApart, Scoped
    <3> QED
      BY <3>1, <3>2, <3>3 DEF Scoped
  <2> QED
    BY <1>3, <2>1, <2>3, <2>4, QuietStep DEF Begin
<1>4. CASE Refuse(t)
  BY <1>1, <1>4, QuietStep DEF Refuse, Raised
<1>5. CASE NoPrompt(t) \/ ModelReplies(t)
  BY <1>0, <1>2, <1>5, QuietStep DEF NoPrompt, ModelReplies, Persist, Asked
<1>6. CASE Prompt(t)
  <2>1. [at |-> "call", ask |-> turn[t].ask, history |-> turn[t].history, attempt |-> 1] \in TurnStates
    BY <1>0, <1>6, TurnFields, GenerationAssumption DEF Prompt, Asked, TurnStates, GenerationAssumption
  <2> QED
    BY <1>0, <1>6, <2>1, QuietStep DEF Prompt, Asked
<1>7. CASE CallFails(t)
  <2>1. CASE turn[t].attempt < Attempts
    <3> DEFINE next == [turn[t] EXCEPT !.attempt = turn[t].attempt + 1]
    <3>1. turn[t] \in [at : {"call"}, ask : Asks, history : SUBSET Messages, attempt : 1..Attempts]
      BY <1>0, <1>7 DEF CallFails, TurnStates
    <3>2. /\ next = [at |-> "call", ask |-> turn[t].ask, history |-> turn[t].history,
                     attempt |-> turn[t].attempt + 1]
          /\ turn[t].attempt + 1 \in 1..Attempts
      BY <2>1, <3>1, GenerationAssumption DEF GenerationAssumption
    <3>3. next \in TurnStates
      BY <3>1, <3>2 DEF TurnStates
    <3> QED
      BY <1>0, <1>7, <2>1, <3>2, <3>3, QuietStep DEF CallFails, Asked
  <2>2. CASE ~ (turn[t].attempt < Attempts)
    BY <1>0, <1>2, <1>7, <2>2, QuietStep DEF CallFails, Persist, Asked
  <2> QED
    BY <2>1, <2>2
<1>8. CASE FindConversation(t)
  <2> DEFINE c == turn[t].ask.conversation
             next == [at |-> "commit", ask |-> turn[t].ask, history |-> turn[t].history,
                      inserted |-> FALSE, conversation |-> c, seq |-> NextSequence(c)]
  <2>1. c \in Conversations /\ Scoped(c, turn[t].ask.workspace) /\ turn[t].at = "persist"
    BY <1>8 DEF FindConversation, Scoped
  <2>2. next \in TurnStates
    BY <1>0, <2>1, TurnFields, NextIsOdd DEF TurnStates, Asked
  <2>3. turn' = [turn EXCEPT ![t] = next] /\ UNCHANGED <<kb, conversation, messages, deletion>>
    BY <1>8 DEF FindConversation
  <2> QED
    BY <1>0, <2>1, <2>2, <2>3, QuietStep, NextIsOdd DEF Asked
<1>9. CASE InsertConversation(t)
  <2>1. CASE Step(t, "persist", Raised)
    BY <1>1, <1>9, <2>1, QuietStep DEF InsertConversation, Raised
  <2>2. ASSUME NEW c \in Conversations, conversation[c] = Unborn, c \notin Taken,
               Step(t, "persist",
                    [at |-> "commit", ask |-> turn[t].ask, history |-> turn[t].history,
                     inserted |-> TRUE, conversation |-> c, seq |-> NextSequence(c)])
        PROVE IInv'
    <3> DEFINE next == [at |-> "commit", ask |-> turn[t].ask, history |-> turn[t].history,
                        inserted |-> TRUE, conversation |-> c, seq |-> NextSequence(c)]
    <3>1. next \in TurnStates /\ turn[t].at = "persist"
      BY <1>0, <2>2, TurnFields, NextIsOdd DEF TurnStates, Asked
    <3>2. turn' = [turn EXCEPT ![t] = next] /\ UNCHANGED <<kb, conversation, messages, deletion>>
      BY <1>9, <2>2 DEF InsertConversation
    <3> QED
      BY <1>0, <2>2, <3>1, <3>2, QuietStep, NextIsOdd DEF Asked
  <2> QED
    BY <1>9, <2>1, <2>2 DEF InsertConversation
<1> QED
  BY <1>3, <1>4, <1>5, <1>6, <1>7, <1>8, <1>9

\* The commit of a turn.
LEMMA TurnCommits ==
    ASSUME IInv, NEW t \in Turns, CommitTurn(t)
    PROVE  IInv'
<1> DEFINE c == turn[t].conversation
           next == [at |-> "answered", ask |-> turn[t].ask, history |-> turn[t].history,
                    inserted |-> turn[t].inserted, conversation |-> c, seq |-> turn[t].seq]
<1>0. /\ TypeOK /\ turn \in [Turns -> TurnStates] /\ turn[t].at = "commit"
      /\ turn[t] \in [at : {"commit", "answered"}, ask : Asks, history : SUBSET Messages,
                      inserted : BOOLEAN, conversation : Conversations, seq : Nat \ {0}]
  BY DEF IInv, TypeOK, CommitTurn, TurnStates
<1>1. CASE Step(t, "commit", Raised) /\ UNCHANGED <<messages, conversation>>
  <2>1. Raised \in TurnStates
    BY DEF TurnStates, Raised
  <2> QED
    BY <1>0, <1>1, <2>1, QuietStep DEF CommitTurn, Step, Raised
<1>2. CASE /\ CanRefer(t)
           /\ messages' = messages \cup TurnMessages(t)
           /\ conversation' = IF turn[t].inserted
                              THEN [conversation EXCEPT ![c] =
                                       [workspace |-> turn[t].ask.workspace, kb |-> turn[t].ask.kb]]
                              ELSE conversation
           /\ Step(t, "commit", With(t, "answered"))
  <2>1. With(t, "answered") = next
    BY <1>0 DEF With
  <2>2. /\ turn' = [turn EXCEPT ![t] = next] /\ turn'[t] = next
        /\ \A u \in Turns \ {t} : turn'[u] = turn[u]
    BY <1>0, <1>2, <2>1 DEF Step
  <2>3. /\ c \in Conversations /\ turn[t].seq \in Nat \ {0} /\ turn[t].ask \in Asks
        /\ [workspace |-> turn[t].ask.workspace, kb |-> turn[t].ask.kb] \in Rows
    BY <1>0 DEF Asks, Rows
  <2>4. \A m \in TurnMessages(t) : /\ m \in Messages /\ m.turn = t /\ m.conversation = c
                                   /\ m.workspace = turn[t].ask.workspace
                                   /\ m.seq <= turn[t].seq + 1
    BY <2>3 DEF TurnMessages, Messages, Asks
  <2>5. \A d \in Conversations : d # c => conversation'[d] = conversation[d]
    BY <1>0, <1>2 DEF TypeOK
  <2>6. turn[t].inserted => conversation[c] = Unborn /\ conversation'[c] \in Rows
                            /\ conversation'[c].workspace = turn[t].ask.workspace
    BY <1>0, <1>2, <2>3 DEF IInv, OwnConversation, Inserting, Placed, TypeOK
  <2>7. ~ turn[t].inserted => conversation' = conversation
    BY <1>2
  <2>8. UNCHANGED <<kb, deletion>>
    BY DEF CommitTurn
  <2>9. TypeOK'
    <3>1. next \in TurnStates
      BY <1>0 DEF TurnStates
    <3> QED
      BY <1>0, <1>2, <2>2, <2>3, <2>4, <2>8, <3>1 DEF TypeOK
  <2>10. TurnKeptWhole'
    <3>1. \A u \in Turns : TurnMessages(u)' = TurnMessages(u)
      BY <2>2 DEF TurnMessages
    <3>2. \A u \in Turns \ {t} : Of(u)' = Of(u)
      BY <1>2, <2>4 DEF Of
    <3>3. Of(t)' = TurnMessages(t)
      BY <1>0, <1>2, <2>4 DEF Of, IInv, TurnKeptWhole
    <3> QED
      BY <2>2, <2>8, <3>1, <3>2, <3>3 DEF IInv, TurnKeptWhole
  <2>11. DeletionsOwn'
    <3>1. \A d \in Conversations : conversation[d] # Unborn => conversation'[d] # Unborn
      BY <2>5, <2>6, <2>7
    <3> QED
      BY <1>0, <2>8, <3>1 DEF IInv, DeletionsOwn, TypeOK, Deletions
  <2>12. Odd'
    BY <1>0, <2>2 DEF IInv, Odd, Placed
  <2>13. Bounded'
    <3>1. PICK b \in Nat : \A m \in messages : m.seq <= b
      BY DEF IInv, Bounded
    <3>2. \A m \in messages' : m.seq \in Nat
      BY <2>9 DEF TypeOK, Messages
    <3>3. PICK n \in Nat : n = b + turn[t].seq + 1
      BY <2>3
    <3>4. \A m \in messages' : m.seq <= n
      BY <1>2, <2>3, <2>4, <3>1, <3>2, <3>3
    <3> QED
      BY <3>4 DEF Bounded
  <2>14. HistoryEarlier'
    <3> SUFFICES ASSUME NEW u \in Turns, Asked(u)', NEW m \in turn'[u].history
                 PROVE  m.turn # u /\ turn'[m.turn].at = "answered"
      BY DEF HistoryEarlier
    <3>1. Asked(u) /\ m \in turn[u].history
      BY <1>0, <2>2 DEF Asked
    <3>2. m.turn \in Turns
      BY <1>0, <3>1, TurnFields DEF Messages
    <3> QED
      BY <2>2, <3>1, <3>2 DEF IInv, HistoryEarlier
  <2>15. NumberAfter'
    <3> SUFFICES ASSUME NEW u \in Turns, Placed(u)', NEW m \in turn'[u].history,
                        m \in messages', m.conversation = turn'[u].conversation
                 PROVE  m.seq < turn'[u].seq
      BY DEF NumberAfter
    <3>1. Placed(u) /\ m \in turn[u].history /\ turn[u].conversation = turn'[u].conversation
          /\ turn'[u].seq = turn[u].seq
      BY <1>0, <2>2 DEF Placed
    <3>2. m.turn # t
      BY <1>0, <3>1 DEF IInv, HistoryEarlier, Placed, Asked
    <3>3. m \in messages
      BY <1>2, <2>4, <3>2
    <3> QED
      BY <3>1, <3>3 DEF IInv, NumberAfter
  <2>16. OwnConversation'
    <3>1. \A u \in Turns : turn'[u].conversation = turn[u].conversation /\ turn'[u].ask = turn[u].ask
                           /\ turn'[u].inserted = turn[u].inserted
                           /\ (u # t => turn'[u].at = turn[u].at)
      BY <1>0, <2>2
    <3>2. /\ conversation'[c] # Unborn
          /\ Kept(c)' => conversation'[c].workspace = turn[t].ask.workspace
      <4>1. CASE turn[t].inserted
        BY <2>2, <2>6, <4>1, GenerationAssumption DEF GenerationAssumption, Kept
      <4>2. CASE ~ turn[t].inserted
        <5>1. Placed(t) /\ ~ Inserting(t)
          BY <1>0, <4>2 DEF Placed, Inserting
        <5>2. /\ conversation[c] # Unborn
              /\ Kept(c) => conversation[c].workspace = turn[t].ask.workspace
          BY <5>1 DEF IInv, OwnConversation
        <5> QED
          BY <2>2, <2>7, <4>2, <5>2 DEF Kept
      <4> QED
        BY <4>1, <4>2
    <3>3. ASSUME NEW u \in Turns \ {t}, Inserting(u)
          PROVE  conversation'[turn[u].conversation] = Unborn
      <4>1. conversation[turn[u].conversation] = Unborn /\ turn[u].conversation # c
        BY <1>0, <3>3 DEF IInv, OwnConversation, Inserting, Placed
      <4>2. turn[u].conversation \in Conversations
        BY <1>0, <3>3, TurnFields DEF Inserting, Placed
      <4> QED
        BY <2>5, <4>1, <4>2
    <3>4. ASSUME NEW u \in Turns \ {t}, Placed(u), ~ Inserting(u)
          PROVE  /\ conversation'[turn[u].conversation] # Unborn
                 /\ Kept(turn[u].conversation)' =>
                       conversation'[turn[u].conversation].workspace = turn[u].ask.workspace
      <4>1. /\ conversation[turn[u].conversation] # Unborn
            /\ Kept(turn[u].conversation) =>
                  conversation[turn[u].conversation].workspace = turn[u].ask.workspace
        BY <3>4 DEF IInv, OwnConversation
      <4>2. turn[u].conversation \in Conversations
        BY <1>0, <3>4, TurnFields
      <4>3. conversation'[turn[u].conversation] = conversation[turn[u].conversation]
        BY <2>5, <2>6, <2>7, <4>1, <4>2
      <4> QED
        BY <3>1, <4>1, <4>3 DEF Kept
    <3>5. \A u \in Turns \ {t} : (Placed(u)' => Placed(u)) /\ (Inserting(u)' <=> Inserting(u))
      BY <2>2 DEF Placed, Inserting
    <3>6. ~ Inserting(t)'
      BY <2>2 DEF Inserting
    <3>7. \A u, v \in Turns : u # v /\ Inserting(u)' /\ turn'[v].at = "commit" =>
                                 turn'[v].conversation # turn'[u].conversation
      <4> SUFFICES ASSUME NEW u \in Turns, NEW v \in Turns, u # v, Inserting(u)', turn'[v].at = "commit"
                   PROVE  turn[v].conversation # turn[u].conversation
        BY <3>1
      <4>1. u # t /\ v # t
        BY <2>2 DEF Inserting
      <4> QED
        BY <3>1, <3>5, <4>1 DEF IInv, OwnConversation, Inserting, Placed
    <3> HIDE DEF c
    <3> QED
      BY <2>2, <3>1, <3>2, <3>3, <3>4, <3>5, <3>6, <3>7 DEF OwnConversation, c
  <2>17. WorkspacesApart'
    <3>1. ASSUME NEW m \in messages', Kept(m.conversation)'
          PROVE  m.workspace = conversation'[m.conversation].workspace
      <4>1. CASE m \in TurnMessages(t)
        BY <1>0, <2>2, <2>4, <2>16, <3>1, <4>1 DEF OwnConversation, Inserting, Placed
      <4>2. CASE m \in messages
        <5>1. /\ m.turn \in Turns /\ turn[m.turn].at = "answered"
              /\ m.conversation = turn[m.turn].conversation
          <6>1. /\ m.turn \in Turns /\ turn[m.turn].at = "answered"
                /\ m \in {Message(m.turn, "user", turn[m.turn].seq),
                          Message(m.turn, "assistant", turn[m.turn].seq + 1)}
            <7> HIDE DEF c, next
            <7> QED
              BY <4>2, MessagesOfTurns DEF IInv
          <6> QED
            BY <6>1 DEF Message
        <5>2. conversation[m.conversation] # Unborn
          BY <5>1 DEF IInv, OwnConversation, Inserting, Placed
        <5>3. m.conversation \in Conversations
          BY <1>0, <4>2 DEF TypeOK, Messages
        <5>4. conversation'[m.conversation] = conversation[m.conversation]
          BY <2>5, <2>6, <2>7, <5>2, <5>3
        <5> QED
          BY <3>1, <4>2, <5>4 DEF IInv, WorkspacesApart, Kept
      <4> QED
        BY <1>2, <4>1, <4>2
    <3>2. ASSUME NEW u \in Turns, Asked(u)', NEW m \in turn'[u].history
          PROVE  m.workspace = turn'[u].ask.workspace
      BY <1>0, <2>2, <3>2 DEF IInv, WorkspacesApart, Asked
    <3> QED
      BY <3>1, <3>2 DEF WorkspacesApart, Asked
  <2> QED
    BY <2>9, <2>10, <2>11, <2>12, <2>13, <2>14, <2>15, <2>16, <2>17 DEF IInv
<1> QED
  BY <1>1, <1>2 DEF CommitTurn

\* The steps of a deletion.
LEMMA DeletionSteps ==
    ASSUME IInv, NEW k \in KnowledgeBases,
           DeleteMessages(k) \/ DeleteConversations(k) \/ DeleteKnowledgeBase(k)
    PROVE  IInv'
<1> DEFINE D == deletion[k].messages
           C == deletion[k].conversations
<1>0. TypeOK /\ turn' = turn /\ turn \in [Turns -> TurnStates]
  BY DEF IInv, TypeOK, DeleteMessages, DeleteConversations, DeleteKnowledgeBase
<1>1. deletion' \in [KnowledgeBases -> Deletions]
  <2>1. NoDeletion \in Deletions
    BY DEF NoDeletion, Deletions
  <2>2. CASE DeleteMessages(k)
    BY <1>0, <2>2 DEF DeleteMessages, DeletionStep, Deletions, TypeOK
  <2>3. CASE DeleteConversations(k)
    <3> DEFINE own == {c \in Conversations : Kept(c) /\ conversation[c].kb = k}
    <3>1. D \in SUBSET Messages
      BY <1>0, <2>3 DEF DeleteConversations, Deletions, TypeOK
    <3>2. [at |-> "kb", messages |-> D, conversations |-> own] \in Deletions
      BY <3>1 DEF Deletions
    <3> QED
      BY <1>0, <2>1, <2>3, <3>2 DEF DeleteConversations, DeletionStep, TypeOK
  <2>4. CASE DeleteKnowledgeBase(k)
    BY <1>0, <2>1, <2>4 DEF DeleteKnowledgeBase, DeletionStep, TypeOK
  <2> QED
    BY <2>2, <2>3, <2>4
<1>2. CASE UNCHANGED <<kb, messages, conversation>>
  <2>1. TypeOK'
    BY <1>0, <1>1, <1>2 DEF TypeOK
  <2>2. DeletionsOwn'
    <3>1. CASE DeleteMessages(k)
      BY <1>0, <1>2, <3>1 DEF DeleteMessages, DeletionStep, TypeOK, IInv, DeletionsOwn
    <3>2. CASE DeleteConversations(k)
      <4>1. \A m \in D : m.kb = k
        BY <3>2 DEF IInv, DeletionsOwn, DeleteConversations
      <4> QED
        BY <1>0, <1>2, <3>2, <4>1
        DEF DeleteConversations, DeletionStep, NoDeletion, TypeOK, IInv, DeletionsOwn, Kept
    <3>3. CASE DeleteKnowledgeBase(k)
      BY <1>0, <1>2, <3>3
      DEF DeleteKnowledgeBase, DeletionStep, NoDeletion, TypeOK, IInv, DeletionsOwn
    <3> QED
      BY <3>1, <3>2, <3>3
  <2>3. (TurnKeptWhole /\ Odd /\ Bounded /\ HistoryEarlier /\ NumberAfter /\ OwnConversation)'
    BY <1>0, <1>2
    DEF IInv, TurnKeptWhole, Of, TurnMessages, Odd, Placed, Bounded, HistoryEarlier, Asked,
        NumberAfter, OwnConversation, Inserting, Kept
  <2>4. WorkspacesApart'
    BY <1>0, <1>2 DEF IInv, WorkspacesApart, Kept
  <2> QED
    BY <2>1, <2>2, <2>3, <2>4 DEF IInv
<1>3. CASE /\ DeleteKnowledgeBase(k)
           /\ {m \in messages : m.kb = k} \ D = {}
           /\ kb' = [kb EXCEPT ![k] = "gone"]
           /\ messages' = messages \ D
           /\ conversation' = [c \in Conversations |-> IF c \in C THEN Gone ELSE conversation[c]]
  <2>1. \A m \in messages : m \in D <=> m.kb = k
    BY <1>3 DEF IInv, DeletionsOwn, DeleteKnowledgeBase
  <2>2. \A c \in C : conversation[c] # Unborn
    BY <1>3 DEF IInv, DeletionsOwn, DeleteKnowledgeBase
  <2>3. /\ \A c \in Conversations : conversation'[c] = conversation[c] \/ conversation'[c] = Gone
        /\ \A c \in Conversations : conversation[c] = Unborn <=> conversation'[c] = Unborn
    BY <1>3, <2>2, GenerationAssumption DEF GenerationAssumption
  <2>4. TypeOK'
    BY <1>0, <1>1, <1>3 DEF TypeOK
  <2>5. TurnKeptWhole'
    <3>1. \A u \in Turns : TurnMessages(u)' = TurnMessages(u)
      BY <1>0 DEF TurnMessages
    <3>2. \A u \in Turns : \A m \in TurnMessages(u) : m.kb = turn[u].ask.kb
      BY DEF TurnMessages
    <3>3. ASSUME NEW u \in Turns, turn[u].at = "answered"
          PROVE  Of(u)' = TurnMessages(u) \/ (Of(u)' = {} /\ kb'[turn[u].ask.kb] = "gone")
      <4>1. turn[u].ask.kb \in KnowledgeBases
        BY <1>0, <3>3, TurnFields DEF Asked, Asks
      <4>2. CASE Of(u) = {}
        BY <1>0, <1>3, <3>3, <4>1, <4>2 DEF IInv, TurnKeptWhole, Of, TypeOK, TurnMessages
      <4>3. CASE Of(u) = TurnMessages(u) /\ turn[u].ask.kb = k
        BY <1>0, <1>3, <2>1, <3>2, <4>1, <4>3 DEF Of, TypeOK
      <4>4. CASE Of(u) = TurnMessages(u) /\ turn[u].ask.kb # k
        BY <1>3, <2>1, <3>2, <4>4 DEF Of
      <4> QED
        BY <3>3, <4>2, <4>3, <4>4 DEF IInv, TurnKeptWhole
    <3>4. ASSUME NEW u \in Turns, turn[u].at # "answered" PROVE Of(u)' = {}
      BY <1>3, <3>4 DEF IInv, TurnKeptWhole, Of
    <3> QED
      BY <1>0, <3>1, <3>3, <3>4 DEF TurnKeptWhole
  <2>6. DeletionsOwn'
    <3>1. \A l \in KnowledgeBases :
              deletion'[l] = deletion[l] \/ deletion'[l].at = "idle"
      BY <1>0, <1>3 DEF DeleteKnowledgeBase, DeletionStep, NoDeletion, TypeOK
    <3>2. \A l \in KnowledgeBases : deletion[l].at = "kb" =>
                                       deletion[l].conversations \subseteq Conversations
      BY <1>0 DEF TypeOK, Deletions
    <3> QED
      BY <2>3, <3>1, <3>2 DEF IInv, DeletionsOwn
  <2>7. Odd' /\ HistoryEarlier'
    BY <1>0 DEF IInv, Odd, HistoryEarlier, Placed, Asked
  <2>8. Bounded' /\ NumberAfter'
    BY <1>0, <1>3 DEF IInv, Bounded, NumberAfter, Placed
  <2>9. OwnConversation'
    <3>1. \A u \in Turns : Placed(u) => turn[u].conversation \in Conversations
      BY <1>0, TurnFields
    <3> QED
      BY <1>0, <2>3, <3>1 DEF IInv, OwnConversation, Placed, Inserting, Kept
  <2>10. WorkspacesApart'
    <3>1. \A m \in messages : m.conversation \in Conversations
      BY <1>0 DEF TypeOK, Messages
    <3> QED
      BY <1>0, <1>3, <2>3, <3>1 DEF IInv, WorkspacesApart, Kept
  <2> QED
    BY <2>4, <2>5, <2>6, <2>7, <2>8, <2>9, <2>10 DEF IInv
<1> QED
  BY <1>2, <1>3 DEF DeleteMessages, DeleteConversations, DeleteKnowledgeBase

LEMMA Inductive == Spec => []IInv
<1>1. Init => IInv
  <2> SUFFICES ASSUME Init PROVE IInv
    OBVIOUS
  <2>1. TypeOK
    BY DEF Init, TypeOK, TurnStates, Deletions, Idle, NoDeletion
  <2>2. \A t \in Turns : turn[t].at = "idle"
    BY DEF Init, Idle
  <2>3. Bounded
    BY DEF Init, Bounded
  <2>4. TurnKeptWhole /\ Odd /\ HistoryEarlier /\ NumberAfter /\ OwnConversation /\ WorkspacesApart
    BY <2>2 DEF Init, TurnKeptWhole, Of, Odd, HistoryEarlier, NumberAfter, OwnConversation,
                WorkspacesApart, Placed, Asked
  <2>5. DeletionsOwn
    BY DEF Init, DeletionsOwn, NoDeletion
  <2> QED
    BY <2>1, <2>3, <2>4, <2>5 DEF IInv
<1>2. IInv /\ [Next]_vars => IInv'
  <2> SUFFICES ASSUME IInv, [Next]_vars PROVE IInv'
    OBVIOUS
  <2>1. CASE UNCHANGED vars
    BY <2>1
    DEF vars, IInv, TypeOK, TurnKeptWhole, Of, TurnMessages, DeletionsOwn, Odd, Bounded,
        HistoryEarlier, NumberAfter, OwnConversation, WorkspacesApart, Placed, Asked, Inserting, Kept
  <2>2. ASSUME NEW t \in Turns, TurnStep(t) \/ \E ask \in Asks : Begin(t, ask) PROVE IInv'
    BY <2>2, TurnMoves, TurnCommits DEF TurnStep
  <2>3. ASSUME NEW k \in KnowledgeBases, DeleteMessages(k) \/ DeletionEnds(k) PROVE IInv'
    BY <2>3, DeletionSteps DEF DeletionEnds
  <2> QED
    BY <2>1, <2>2, <2>3 DEF Next
<1> QED
  BY <1>1, <1>2, PTL DEF Spec

-----------------------------------------------------------------------------
(* Theorems *)

\* A turn that was answered is kept as a question and its answer until its knowledge base is
\* deleted, and nothing of any other is (_persist_turn, DeleteKnowledgeBaseHandler).
THEOREM TurnsAreKept == Spec => []TurnKeptWhole
<1> QED
  BY Inductive, PTL DEF IInv

\* Questions have odd numbers and the answer to each has the next one (next_sequence).
THEOREM AnswersFollow == Spec => []AnswerFollowsQuestion
<1>1. IInv => AnswerFollowsQuestion
  <2> SUFFICES ASSUME IInv, NEW m \in messages
               PROVE  /\ (m.role = "user") <=> (m.seq % 2 = 1)
                      /\ m.role = "assistant" =>
                            \E q \in messages : q.turn = m.turn /\ q.role = "user" /\ q.seq = m.seq - 1
    BY DEF AnswerFollowsQuestion
  <2> DEFINE n == turn[m.turn].seq
             question == Message(m.turn, "user", n)
  <2>1. /\ n \in Nat \ {0} /\ n % 2 = 1 /\ question \in messages
        /\ m \in {question, Message(m.turn, "assistant", n + 1)}
    BY MessagesOfTurns DEF IInv
  <2>2. CASE m = question
    BY <2>1, <2>2 DEF Message
  <2>3. CASE m = Message(m.turn, "assistant", n + 1)
    <3>1. m.role = "assistant" /\ m.seq = n + 1
      BY <2>3 DEF Message
    <3>2. question.turn = m.turn /\ question.role = "user" /\ question.seq = n
      BY DEF Message
    <3>3. (n + 1) % 2 = 0 /\ (n + 1) - 1 = n
      BY <2>1
    <3> HIDE DEF n, question
    <3> QED
      BY <2>1, <3>1, <3>2, <3>3
  <2> QED
    BY <2>1, <2>2, <2>3
<1> QED
  BY <1>1, Inductive, PTL

\* A turn is numbered after the messages its prompt has shown (list_recent_turns).
THEOREM TurnsAfterTheirHistory == Spec => []AfterItsHistory
<1>1. IInv => AfterItsHistory
  <2> SUFFICES ASSUME IInv, NEW t \in Turns, turn[t].at = "answered",
                      NEW m \in turn[t].history, NEW n \in Of(t),
                      m \in messages, m.conversation = n.conversation
               PROVE  m.seq < n.seq
    BY DEF AfterItsHistory
  <2>1. n \in messages /\ n.turn = t
    BY DEF Of
  <2>2. /\ turn[t].seq \in Nat
        /\ n \in {Message(t, "user", turn[t].seq), Message(t, "assistant", turn[t].seq + 1)}
    BY <2>1, MessagesOfTurns DEF IInv
  <2>3. n.conversation = turn[t].conversation
        /\ (n.seq = turn[t].seq \/ n.seq = turn[t].seq + 1)
    BY <2>2 DEF Message
  <2>4. m.seq < turn[t].seq
    BY <2>3 DEF IInv, NumberAfter, Placed
  <2>5. m.seq \in Nat
    BY DEF IInv, TypeOK, Messages
  <2> QED
    BY <2>2, <2>3, <2>4, <2>5
<1> QED
  BY <1>1, Inductive, PTL

\* What a conversation keeps and what its prompts have shown is of one workspace (get_scoped).
THEOREM WorkspacesStayApart == Spec => []WorkspacesApart
<1> QED
  BY Inductive, PTL DEF IInv
=============================================================================
