------------------------------ MODULE Progress ------------------------------
(***************************************************************************)
(* The progress message that a job shows in a conversation while it works  *)
(* (internal/summary/progress.go, and the calls it makes in                *)
(* internal/vk/client.go).  VK answers messages.send with a global id,     *)
(* which is 0 for conversations, so the message has to be found before it  *)
(* can be edited every second and deleted in the end.                      *)
(*                                                                         *)
(* A text of the message (a phrase and the frame of the title) is a member *)
(* of Texts.  The conversation is a sequence, its index the                *)
(* conversation_message_id.                                                *)
(***************************************************************************)
EXTENDS Integers, Sequences, FiniteSetsExt

CONSTANTS
  Jobs,      \* executions of executeNext for the conversation
  Overlap,   \* whether a job starts while another one runs
  Texts,     \* what progress messages may say
  Window,    \* lookupWindow
  MaxLen,    \* bound: messages of the conversation
  Faults     \* what may go wrong: calls of VK, anchors, crashes

ASSUME TextsAssumption ==
  Texts # {} /\ {"message", "post", "nothing"} \cap Texts = {}
ASSUME WindowAssumption == Window \in Nat \ {0}
ASSUME LenAssumption == MaxLen \in Nat
ASSUME OverlapAssumption == Overlap \in BOOLEAN
ASSUME FaultsAssumption ==
  Faults \subseteq {"anchor", "send", "find", "edit", "delete", "crash"}

VARIABLES
  chat,    \* the messages: who wrote them and what they show now
  at,      \* where every job is
  after,   \* candidate.LastConversationMessageID, 0 if it has none
  first,   \* text the progress message was sent with
  probe,   \* id of the next blind edit
  mid,     \* summaryProgress.conversationMessageID, 0 without progress
  own,     \* history variable: id of the job's progress message, 0 if none
  mishap   \* history variable: what went wrong for the job

locals == <<at, after, first, probe, mid>>
vars   == <<chat, locals, own, mishap>>

Init ==
  /\ chat = << >>
  /\ at = [j \in Jobs |-> "idle"]
  /\ after = [j \in Jobs |-> 0]
  /\ first = [j \in Jobs |-> CHOOSE t \in Texts : TRUE]
  /\ probe = [j \in Jobs |-> 0]
  /\ mid = [j \in Jobs |-> 0]
  /\ own = [j \in Jobs |-> 0]
  /\ mishap = [j \in Jobs |-> {}]

-----------------------------------------------------------------------------
(* VK.                                                                     *)

\* kind is what was written, shows what is there now.
Post(writer, kind, text) ==
  /\ Len(chat) < MaxLen
  /\ chat' = Append(chat, [by |-> writer, kind |-> kind, shows |-> text])

\* messages.edit and messages.delete work on the bot's own messages.
Editable(c) ==
  /\ c \in DOMAIN chat
  /\ chat[c].kind # "message" /\ chat[c].shows # "nothing"

Show(c, text) == chat' = [chat EXCEPT ![c].shows = text]

UserWrites ==
  /\ Post("user", "message", "message")
  /\ UNCHANGED <<locals, own, mishap>>

-----------------------------------------------------------------------------
(* A job.                                                                  *)

Go(j, label)  == at' = [at EXCEPT ![j] = label]
Fault(j, f)   == f \in Faults /\ mishap' = [mishap EXCEPT ![j] = @ \cup {f}]
NoFault       == UNCHANGED mishap
Running(j)    == at[j] \notin {"idle", "done"}

UserMessages == {c \in DOMAIN chat : chat[c].kind = "message"}

\* buildCandidate: the anchor is the last row of the candidate, which need not be
\* the newest message; rows stored before the column existed have none.
Start(j) ==
  /\ at[j] = "idle" /\ UserMessages # {}
  /\ Overlap \/ \A k \in Jobs : ~Running(k)
  /\ Go(j, "send")
  /\ \/ \E c \in UserMessages : after' = [after EXCEPT ![j] = c] /\ NoFault
     \/ after' = [after EXCEPT ![j] = 0] /\ Fault(j, "anchor")
  /\ UNCHANGED <<chat, first, probe, mid, own>>

\* PublishProgressMessage with a random phrase; the answer may be an error
\* whether or not the message is there.
Send(j) ==
  /\ at[j] = "send"
  /\ \E text \in Texts :
       /\ first' = [first EXCEPT ![j] = text]
       /\ \/ /\ Post(j, "progress", text)
             /\ own' = [own EXCEPT ![j] = Len(chat) + 1]
             /\ \/ Go(j, "find") /\ NoFault
                \/ Go(j, "work") /\ Fault(j, "send")
          \/ UNCHANGED <<chat, own>> /\ Go(j, "work") /\ Fault(j, "send")
  /\ UNCHANGED <<after, probe, mid>>

\* The ids that discoverSummaryProgressMessage looks at.
InWindow(j) == (after[j] + 1) .. (after[j] + Window)

\* findProgressConversationMessageID: the bot's messages with that text.
Matches(j) ==
  {c \in InWindow(j) : Editable(c) /\ chat[c].shows = first[j]}

\* Mutant: the items are searched from the first one.
FindEarliest(j) ==
  /\ at[j] = "find" /\ after[j] # 0
  /\ Go(j, "work") /\ NoFault /\ Matches(j) # {}
  /\ mid' = [mid EXCEPT ![j] = Min(Matches(j))]
  /\ UNCHANGED <<chat, after, first, probe, own>>

\* FindProgressMessage: the latest match.
Find(j) ==
  /\ at[j] = "find" /\ after[j] # 0
  /\ Go(j, "work") /\ NoFault /\ Matches(j) # {}
  /\ mid' = [mid EXCEPT ![j] = Max(Matches(j))]
  /\ UNCHANGED <<chat, after, first, probe, own>>

\* Mutant: the text never compares equal.
FindNothingEver(j) ==
  /\ at[j] = "find" /\ after[j] # 0
  /\ Go(j, "blind") /\ probe' = [probe EXCEPT ![j] = after[j] + 1]
  /\ UNCHANGED <<chat, after, first, mid, own, mishap>>

\* No match, because the message is beyond the window or shows another text by
\* now, or the lookup fails: ids are tried in turn.
FindNothing(j) ==
  /\ at[j] = "find" /\ after[j] # 0
  /\ \/ Matches(j) = {} /\ NoFault
     \/ Fault(j, "find")
  /\ Go(j, "blind") /\ probe' = [probe EXCEPT ![j] = after[j] + 1]
  /\ UNCHANGED <<chat, after, first, mid, own>>

\* No anchor, or the end of the window: the job works without progress.
GiveUp(j) ==
  /\ \/ at[j] = "find" /\ after[j] = 0
     \/ at[j] = "blind" /\ probe[j] \notin InWindow(j)
  /\ Go(j, "work")
  /\ UNCHANGED <<chat, after, first, probe, mid, own, mishap>>

\* EditProgressMessage of the next id; the first id that can be edited is
\* taken for the progress message.
TryNextId(j) ==
  \/ /\ Editable(probe[j]) /\ Show(probe[j], first[j]) /\ NoFault
     /\ mid' = [mid EXCEPT ![j] = probe[j]] /\ Go(j, "work")
     /\ UNCHANGED probe
  \/ /\ \/ ~Editable(probe[j]) /\ UNCHANGED chat /\ NoFault
        \/ Editable(probe[j]) /\ Show(probe[j], first[j]) /\ Fault(j, "edit")
        \/ UNCHANGED chat /\ Fault(j, "edit")
     /\ probe' = [probe EXCEPT ![j] = @ + 1] /\ UNCHANGED <<at, mid>>

BlindEdit(j) ==
  /\ at[j] = "blind" /\ probe[j] \in InWindow(j) /\ TryNextId(j)
  /\ UNCHANGED <<after, first, own>>

\* summaryProgress.run until Stop: another phrase and frame every second; an
\* edit that fails only leaves the old text.
Tick(j) ==
  /\ at[j] \in {"work", "stop"} /\ mid[j] # 0 /\ Editable(mid[j])
  /\ \E text \in Texts \ {chat[mid[j]].shows} : Show(mid[j], text)
  /\ UNCHANGED <<locals, own, mishap>>

\* The digest or a notice, or neither.
Work(j) ==
  /\ at[j] = "work" /\ Go(j, "stop")
  /\ Post(j, "post", "post") \/ UNCHANGED chat
  /\ UNCHANGED <<after, first, probe, mid, own, mishap>>

\* Mutant: Stop does not delete.
StopKeeping(j) ==
  /\ at[j] = "stop" /\ Go(j, "done") /\ NoFault
  /\ UNCHANGED <<chat, after, first, probe, mid, own>>

\* Stop, after the goroutine has ended: delete what is taken for the message.
Stop(j) ==
  /\ at[j] = "stop" /\ Go(j, "done")
  /\ \/ mid[j] # 0 /\ Editable(mid[j]) /\ Show(mid[j], "nothing") /\ NoFault
     \/ (mid[j] = 0 \/ ~Editable(mid[j])) /\ UNCHANGED chat /\ NoFault
     \/ mid[j] # 0 /\ UNCHANGED chat /\ Fault(j, "delete")
  /\ UNCHANGED <<after, first, probe, mid, own>>

\* The process is killed; its other jobs may be the next process's.
Crash(j) ==
  /\ Running(j) /\ Fault(j, "crash") /\ Go(j, "done")
  /\ UNCHANGED <<chat, after, first, probe, mid, own>>

Step(j) ==
  \/ Send(j) \/ Find(j) \/ FindNothing(j) \/ GiveUp(j) \/ BlindEdit(j)
  \/ Work(j) \/ Stop(j)

Next ==
  \/ UserWrites
  \/ \E j \in Jobs : Start(j) \/ Step(j) \/ Tick(j) \/ Crash(j)

Spec == Init /\ [][Next]_vars

-----------------------------------------------------------------------------
(* Properties.                                                             *)

\* The lookup worked, and at most Window messages had come since the anchor.
Findable(j) == "find" \notin mishap[j] /\ own[j] \in {0} \cup InWindow(j)

\* A job edits and deletes its own message only, also beside messages with
\* the same text that an earlier job left behind.  Where the lookup fails or
\* looks too early nothing is promised: blind edits take what they can edit.
HoldsOwnMessage ==
  \A j \in Jobs : Findable(j) => mid[j] \in {0, own[j]}

\* While lookups work, no digest or notice is overwritten or deleted.
PostsIntact ==
  (\A j \in Jobs : Findable(j)) =>
    \A c \in DOMAIN chat : chat[c].kind = "post" => chat[c].shows = "post"

\* The progress message is found and correctly deleted (CHANGELOG.md, 27-29),
\* if no call failed and it was in the window.
ProgressRemoved ==
  \A j \in Jobs :
    at[j] = "done" /\ mishap[j] = {} /\ own[j] # 0 /\ Findable(j) =>
      chat[own[j]].shows = "nothing"
=============================================================================
