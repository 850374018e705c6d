--------------------------- MODULE ProgressProofs ---------------------------
(***************************************************************************)
(* Proofs about Progress for jobs that do not overlap: for any texts,      *)
(* window, length of the conversation and set of faults.                   *)
(***************************************************************************)
EXTENDS Progress, WellFoundedInduction, TLAPS

-----------------------------------------------------------------------------
(* The latest message.                                                     *)

LEMMA MaxOfIds ==
  ASSUME NEW n \in Nat, NEW S \in SUBSET (1 .. n), S # {}
  PROVE  Max(S) \in S /\ \A c \in S : c <= Max(S)
<1> DEFINE T == {k \in Nat : k <= n /\ n - k \in S}
<1>1. \A c \in S : n - c \in T
  <2> TAKE c \in S
  <2>1. n - c \in Nat /\ n - c <= n
    OBVIOUS
  <2>2. n - (n - c) = c
    OBVIOUS
  <2>3. n - (n - c) \in S
    BY <2>2
  <2> QED
    BY <2>1, <2>3
<1>2. PICK k \in T : \A l \in T : ~ (l < k)
  <2> DEFINE R == {ss \in Nat \X Nat : ss[1] < ss[2]}
  <2>1. IsWellFoundedOn(R, Nat)
    BY NatLessThanWellFounded DEF OpToRel
  <2>2. T \subseteq Nat /\ T # {}
    BY <1>1
  <2>3. \A k, l \in Nat : l < k => <<l, k>> \in R
    OBVIOUS
  <2> HIDE DEF R, T
  <2>4. \E x \in T : \A y \in T : ~ (<<y, x>> \in R)
    BY <2>1, <2>2, WFMin
  <2> QED
    BY <2>2, <2>3, <2>4
<1>3. n - k \in S
  OBVIOUS
<1>4. \A d \in S : d <= n - k
  <2> TAKE d \in S
  <2>1. ~ (n - d < k)
    BY <1>1, <1>2
  <2> QED
    BY <2>1
<1>5. \E x \in S : \A y \in S : x >= y
  <2>1. \A d \in S : n - k >= d
    BY <1>3, <1>4
  <2> QED
    BY <1>3, <2>1
<1>6. Max(S) \in S /\ \A y \in S : Max(S) >= y
  BY <1>5 DEF Max
<1> QED
  BY <1>6

-----------------------------------------------------------------------------
(* Types.                                                                  *)

Entry == [by : Jobs \cup {"user"}, kind : {"message", "progress", "post"},
          shows : Texts \cup {"message", "post", "nothing"}]

Labels == {"idle", "send", "find", "blind", "work", "stop", "done"}

Typed ==
  /\ chat \in Seq(Entry)
  /\ at \in [Jobs -> Labels]
  /\ after \in [Jobs -> Nat] /\ probe \in [Jobs -> Nat]
  /\ mid \in [Jobs -> Nat] /\ own \in [Jobs -> Nat]
  /\ first \in [Jobs -> Texts]
  /\ mishap \in [Jobs -> SUBSET Faults]

\* What Post and Show leave alone.
LEMMA Posting ==
  ASSUME Typed, NEW writer \in Jobs \cup {"user"}, NEW kind, NEW text,
         kind \in {"message", "progress", "post"},
         text \in Texts \cup {"message", "post", "nothing"},
         Post(writer, kind, text)
  PROVE  /\ chat' \in Seq(Entry) /\ Len(chat') = Len(chat) + 1
         /\ \A c \in DOMAIN chat : c \in DOMAIN chat' /\ chat'[c] = chat[c]
         /\ \A c \in DOMAIN chat' : c \in DOMAIN chat \/ c = Len(chat) + 1
         /\ chat'[Len(chat) + 1].kind = kind /\ chat'[Len(chat) + 1].shows = text
<1> DEFINE e == [by |-> writer, kind |-> kind, shows |-> text]
<1>1. e \in Entry /\ e.kind = kind /\ e.shows = text
  BY DEF Entry
<1>2. chat' = Append(chat, e) /\ chat \in Seq(Entry)
  BY DEF Post, Typed
<1> HIDE DEF e
<1> QED
  BY <1>1, <1>2

LEMMA Showing ==
  ASSUME Typed, NEW c, Editable(c), NEW text,
         text \in Texts \cup {"message", "post", "nothing"}, Show(c, text)
  PROVE  /\ chat' \in Seq(Entry) /\ Len(chat') = Len(chat)
         /\ DOMAIN chat' = DOMAIN chat
         /\ \A d \in DOMAIN chat : chat'[d].kind = chat[d].kind
         /\ \A d \in DOMAIN chat : d # c => chat'[d] = chat[d]
         /\ chat'[c].shows = text
<1>1. chat \in Seq(Entry) /\ c \in DOMAIN chat /\ chat[c] \in Entry
  BY DEF Typed, Editable
<1> DEFINE e == [chat[c] EXCEPT !.shows = text]
<1>2. e \in Entry /\ e.kind = chat[c].kind /\ e.shows = text
  BY <1>1 DEF Entry
<1>3. chat' = [chat EXCEPT ![c] = e]
  BY DEF Show
<1> HIDE DEF e
<1> QED
  BY <1>1, <1>2, <1>3
-----------------------------------------------------------------------------
(* The invariant.                                                          *)

\* The message of a job is one that a job sent, and where a job waits to find
\* it nothing but users' messages came after it.
OwnFits(j) ==
  /\ own[j] <= Len(chat)
  /\ own[j] # 0 => chat[own[j]].kind = "progress"
  /\ at[j] \in {"idle", "send"} => own[j] = 0
  /\ at[j] = "find" =>
       /\ own[j] # 0 /\ chat[own[j]].shows = first[j]
       /\ \A c \in DOMAIN chat : c > own[j] => chat[c].kind = "message"

\* What a job takes for its message.
MidFits(j) ==
  /\ at[j] \in {"idle", "send", "find", "blind"} => mid[j] = 0
  /\ at[j] # "idle" /\ after[j] = 0 => "anchor" \in mishap[j]
  /\ at[j] = "blind" => ~ Findable(j)
  /\ Findable(j) => mid[j] \in {0, own[j]}
  /\ at[j] \in {"work", "stop"} /\ mishap[j] = {} /\ own[j] # 0 /\ Findable(j) =>
       mid[j] = own[j] /\ chat[own[j]].shows # "nothing"

Removed(j) ==
  at[j] = "done" /\ mishap[j] = {} /\ own[j] # 0 /\ Findable(j) =>
    chat[own[j]].shows = "nothing"

JobInv(j) == OwnFits(j) /\ MidFits(j) /\ Removed(j)

OneRunner == \A j, k \in Jobs : Running(j) /\ Running(k) => j = k

IInv == Typed /\ (\A j \in Jobs : JobInv(j)) /\ OneRunner /\ PostsIntact

\* What a step of a job promises to the others.
Unmoved(k) ==
  /\ at'[k] = at[k] /\ after'[k] = after[k] /\ first'[k] = first[k]
  /\ mid'[k] = mid[k] /\ own'[k] = own[k] /\ mishap'[k] = mishap[k]

Evolves ==
  /\ Len(chat) <= Len(chat')
  /\ \A c \in DOMAIN chat :
       /\ c \in DOMAIN chat' /\ chat'[c].kind = chat[c].kind
       /\ chat[c].shows = "nothing" => chat'[c].shows = "nothing"

PostsKept(j) ==
  Findable(j)' =>
    /\ Findable(j)
    /\ \A c \in DOMAIN chat' : chat'[c].kind = "post" =>
         chat'[c].shows = "post" \/ (c \in DOMAIN chat /\ chat'[c] = chat[c])

Promise(j) ==
  /\ Typed' /\ JobInv(j)' /\ Evolves /\ PostsKept(j)
  /\ \A k \in Jobs \ {j} : Unmoved(k)

LEMMA InitInv == Init => IInv
<1> SUFFICES ASSUME Init PROVE IInv
  OBVIOUS
<1>1. Typed
  <2>1. (CHOOSE t \in Texts : TRUE) \in Texts
    BY TextsAssumption
  <2> QED
    BY <2>1 DEF Init, Typed, Labels
<1>2. \A j \in Jobs : JobInv(j)
  BY DEF Init, JobInv, OwnFits, MidFits, Removed, Findable
<1>3. OneRunner /\ PostsIntact
  BY DEF Init, OneRunner, Running, PostsIntact
<1> QED
  BY <1>1, <1>2, <1>3 DEF IInv

\* A conversation that does not change, or in which somebody writes.
LEMMA NothingWritten ==
  ASSUME Typed, UNCHANGED chat
  PROVE  Evolves /\ \A j \in Jobs : (Findable(j)' => Findable(j)) => PostsKept(j)
BY DEF Typed, Evolves, PostsKept

LEMMA SomethingWritten ==
  ASSUME Typed, NEW writer \in Jobs \cup {"user"}, NEW kind, NEW text,
         kind \in {"message", "progress", "post"},
         text \in Texts \cup {"message", "post", "nothing"},
         kind = "post" => text = "post", Post(writer, kind, text)
  PROVE  Evolves /\ \A j \in Jobs : (Findable(j)' => Findable(j)) => PostsKept(j)
<1>1. chat \in Seq(Entry)
  BY DEF Typed
<1>2. /\ chat' \in Seq(Entry) /\ Len(chat') = Len(chat) + 1
      /\ \A c \in DOMAIN chat : c \in DOMAIN chat' /\ chat'[c] = chat[c]
      /\ \A c \in DOMAIN chat' : c \in DOMAIN chat \/ c = Len(chat) + 1
      /\ chat'[Len(chat) + 1].kind = kind /\ chat'[Len(chat) + 1].shows = text
  BY Posting
<1> QED
  BY <1>1, <1>2 DEF Evolves, PostsKept

\* An edit of a message that is not a post.
LEMMA SomethingShown ==
  ASSUME Typed, NEW c, Editable(c), NEW text,
         text \in Texts \cup {"message", "post", "nothing"}, Show(c, text)
  PROVE  /\ Evolves
         /\ \A j \in Jobs :
              (Findable(j)' => Findable(j) /\ chat[c].kind # "post") => PostsKept(j)
<1>1. chat \in Seq(Entry) /\ c \in DOMAIN chat /\ chat[c].shows # "nothing"
  BY DEF Typed, Editable
<1>2. /\ chat' \in Seq(Entry) /\ Len(chat') = Len(chat)
      /\ DOMAIN chat' = DOMAIN chat
      /\ \A d \in DOMAIN chat : chat'[d].kind = chat[d].kind
      /\ \A d \in DOMAIN chat : d # c => chat'[d] = chat[d]
      /\ chat'[c].shows = text
  BY Showing
<1> QED
  BY <1>1, <1>2 DEF Evolves, PostsKept

-----------------------------------------------------------------------------
(* The actions of a job.                                                   *)

LEMMA StartStep ==
  ASSUME Typed, NEW j \in Jobs, JobInv(j), Start(j)
  PROVE  Promise(j)
<1>1. PICK a \in Nat : /\ after' = [after EXCEPT ![j] = a]
                       /\ a = 0 => "anchor" \in mishap'[j]
  <2>1. ASSUME NEW c \in UserMessages, after' = [after EXCEPT ![j] = c]
        PROVE  \E a \in Nat : after' = [after EXCEPT ![j] = a] /\ a # 0
    <3>1. c \in Nat \ {0}
      BY DEF UserMessages, Typed
    <3> QED
      BY <2>1, <3>1
  <2>2. CASE after' = [after EXCEPT ![j] = 0] /\ Fault(j, "anchor")
    BY <2>2 DEF Fault, Typed
  <2> QED
    BY <2>1, <2>2 DEF Start
<1>2. /\ at[j] = "idle" /\ at' = [at EXCEPT ![j] = "send"]
      /\ UNCHANGED <<chat, first, probe, mid, own>>
  BY DEF Start, Go
<1>3. PICK M \in SUBSET Faults : /\ mishap' = [mishap EXCEPT ![j] = M]
                                 /\ mishap[j] \subseteq M
  BY DEF Start, Fault, NoFault, Typed
<1>4. own[j] = 0 /\ mid[j] = 0
  BY <1>2 DEF JobInv, OwnFits, MidFits
<1>5. Typed'
  BY <1>1, <1>2, <1>3 DEF Typed, Labels
<1>6. /\ at'[j] = "send" /\ own'[j] = 0 /\ mid'[j] = 0 /\ after'[j] = a
      /\ mishap'[j] = M /\ after[j] \in Nat
  BY <1>1, <1>2, <1>3, <1>4 DEF Typed
<1>7. JobInv(j)'
  BY <1>1, <1>2, <1>6 DEF JobInv, OwnFits, MidFits, Removed, Typed
<1>8. Findable(j)' => Findable(j)
  BY <1>3, <1>4, <1>6 DEF Findable
<1>9. \A k \in Jobs \ {j} : Unmoved(k)
  BY <1>1, <1>2, <1>3 DEF Unmoved, Typed
<1> QED
  BY <1>2, <1>5, <1>7, <1>8, <1>9, NothingWritten DEF Promise

\* What the windows say stays said: mishaps are not forgotten.
LEMMA StillFindable ==
  ASSUME Typed, NEW j \in Jobs, after'[j] = after[j], own'[j] = own[j],
         mishap[j] \subseteq mishap'[j]
  PROVE  Findable(j)' => Findable(j)
BY DEF Findable, InWindow

LEMMA SendStep ==
  ASSUME Typed, NEW j \in Jobs, JobInv(j), Send(j)
  PROVE  Promise(j)
<1>1. /\ at[j] = "send" /\ own[j] = 0 /\ mid[j] = 0
      /\ after[j] = 0 => "anchor" \in mishap[j]
  BY DEF Send, JobInv, OwnFits, MidFits
<1>2. PICK text \in Texts :
        /\ first' = [first EXCEPT ![j] = text]
        /\ \/ /\ Post(j, "progress", text)
              /\ own' = [own EXCEPT ![j] = Len(chat) + 1]
              /\ \/ Go(j, "find") /\ NoFault
                 \/ Go(j, "work") /\ Fault(j, "send")
           \/ UNCHANGED <<chat, own>> /\ Go(j, "work") /\ Fault(j, "send")
  BY DEF Send
<1>3. PICK l \in {"find", "work"} : at' = [at EXCEPT ![j] = l]
  BY <1>2 DEF Go
<1>4. PICK M \in SUBSET Faults : /\ mishap' = [mishap EXCEPT ![j] = M]
                                 /\ mishap[j] \subseteq M
  BY <1>2 DEF Fault, NoFault, Typed
<1>5. UNCHANGED <<after, probe, mid>>
  BY DEF Send
<1>6. PICK o \in Nat : own' = [own EXCEPT ![j] = o]
  BY <1>1, <1>2 DEF Typed
<1>7. /\ at'[j] = l /\ first'[j] = text /\ mishap'[j] = M /\ own'[j] = o
      /\ mid'[j] = 0 /\ after'[j] = after[j]
  BY <1>1, <1>2, <1>3, <1>4, <1>5, <1>6 DEF Typed
<1>8. \A k \in Jobs \ {j} : Unmoved(k)
  BY <1>2, <1>3, <1>4, <1>5, <1>6 DEF Unmoved, Typed
<1>9. Findable(j)' => Findable(j)
  BY <1>1, <1>4, <1>7 DEF Findable
<1>10. CASE Post(j, "progress", text) /\ o = Len(chat) + 1 /\ (l = "find" \/ "send" \in M)
  <2>1. /\ chat' \in Seq(Entry) /\ Len(chat') = Len(chat) + 1
        /\ \A c \in DOMAIN chat : c \in DOMAIN chat' /\ chat'[c] = chat[c]
        /\ \A c \in DOMAIN chat' : c \in DOMAIN chat \/ c = Len(chat) + 1
        /\ chat'[Len(chat) + 1].kind = "progress"
        /\ chat'[Len(chat) + 1].shows = text
    BY <1>10, Posting
  <2>2. Typed'
    BY <1>2, <1>3, <1>4, <1>5, <1>6, <2>1 DEF Typed, Labels
  <2>3. OwnFits(j)'
    <3>1. Len(chat) \in Nat /\ chat' \in Seq(Entry) /\ DOMAIN chat = 1 .. Len(chat)
      BY <2>1 DEF Typed
    <3> QED
      BY <1>7, <1>10, <2>1, <3>1 DEF OwnFits
  <2>4. MidFits(j)' /\ Removed(j)'
    BY <1>1, <1>4, <1>7, <1>10 DEF MidFits, Removed
  <2>5. Evolves /\ PostsKept(j)
    BY <1>9, <1>10, SomethingWritten
  <2> QED
    BY <1>8, <2>2, <2>3, <2>4, <2>5 DEF Promise, JobInv
<1>11. CASE UNCHANGED <<chat, own>> /\ l = "work" /\ "send" \in M
  <2>1. o = 0
    BY <1>1, <1>7, <1>11
  <2>2. Typed'
    BY <1>2, <1>3, <1>4, <1>5, <1>6, <1>11 DEF Typed, Labels
  <2>3. JobInv(j)'
    BY <1>1, <1>4, <1>7, <1>11, <2>1 DEF JobInv, OwnFits, MidFits, Removed, Typed
  <2> QED
    BY <1>8, <1>9, <1>11, <2>2, <2>3, NothingWritten DEF Promise
<1>12. \/ Post(j, "progress", text) /\ o = Len(chat) + 1 /\ (l = "find" \/ "send" \in M)
       \/ UNCHANGED <<chat, own>> /\ l = "work" /\ "send" \in M
  <2>1. Go(j, "find") => l = "find"
    BY <1>3 DEF Go, Typed
  <2>2. Go(j, "work") => l = "work"
    BY <1>3 DEF Go, Typed
  <2>3. Fault(j, "send") => "send" \in M
    BY <1>4 DEF Fault, Typed
  <2>4. own' = [own EXCEPT ![j] = Len(chat) + 1] => o = Len(chat) + 1
    BY <1>6 DEF Typed
  <2> QED
    BY <1>2, <2>1, <2>2, <2>3, <2>4
<1> QED
  BY <1>10, <1>11, <1>12

LEMMA FindStep ==
  ASSUME Typed, NEW j \in Jobs, JobInv(j), Find(j)
  PROVE  Promise(j)
<1>1. /\ at[j] = "find" /\ after[j] # 0 /\ at' = [at EXCEPT ![j] = "work"]
      /\ UNCHANGED <<chat, after, first, probe, own, mishap>>
  BY DEF Find, Go, NoFault
<1>2. PICK m : m = Max(Matches(j)) /\ mid' = [mid EXCEPT ![j] = m]
  BY DEF Find
<1>3. after[j] + Window \in Nat
  BY WindowAssumption DEF Typed
<1>4. Matches(j) \in SUBSET (1 .. (after[j] + Window))
  BY <1>3 DEF Matches, InWindow, Typed
<1>5. m \in Matches(j) /\ \A c \in Matches(j) : c <= m
  BY <1>2, <1>3, <1>4, MaxOfIds DEF Find
<1>6. m \in Nat
  BY <1>4, <1>5
<1>7. /\ own[j] \in DOMAIN chat /\ chat[own[j]].kind = "progress"
      /\ chat[own[j]].shows = first[j] /\ first[j] # "nothing"
      /\ \A c \in DOMAIN chat : c > own[j] => chat[c].kind = "message"
  BY <1>1, TextsAssumption DEF JobInv, OwnFits, Typed
<1>8. Findable(j) => m = own[j]
  <2> SUFFICES ASSUME Findable(j) PROVE m = own[j]
    OBVIOUS
  <2>1. own[j] \in Nat /\ own[j] # 0
    BY <1>1 DEF JobInv, OwnFits, Typed
  <2>2. own[j] \in InWindow(j)
    BY <2>1 DEF Findable
  <2>3. own[j] \in Matches(j)
    BY <1>7, <2>2 DEF Matches, Editable
  <2>4. m \in DOMAIN chat /\ chat[m].kind # "message"
    BY <1>5 DEF Matches, Editable
  <2>5. own[j] <= m /\ ~ (m > own[j])
    BY <1>5, <1>7, <2>3, <2>4
  <2> QED
    BY <1>6, <2>1, <2>5
<1>9. /\ at'[j] = "work" /\ mid'[j] = m /\ after'[j] = after[j]
      /\ own'[j] = own[j] /\ mishap'[j] = mishap[j]
  BY <1>1, <1>2 DEF Typed
<1>10. Findable(j)' => Findable(j)
  BY <1>9, StillFindable
<1>11. Typed'
  BY <1>1, <1>2, <1>6 DEF Typed, Labels
<1>12. OwnFits(j)'
  BY <1>1, <1>9 DEF JobInv, OwnFits
<1>13. MidFits(j)' /\ Removed(j)'
  BY <1>1, <1>7, <1>8, <1>9, <1>10 DEF JobInv, MidFits, Removed
<1>14. \A k \in Jobs \ {j} : Unmoved(k)
  BY <1>1, <1>2 DEF Unmoved, Typed
<1> QED
  BY <1>1, <1>10, <1>11, <1>12, <1>13, <1>14, NothingWritten DEF Promise, JobInv

LEMMA FindNothingStep ==
  ASSUME Typed, NEW j \in Jobs, JobInv(j), FindNothing(j)
  PROVE  Promise(j)
<1>1. /\ at[j] = "find" /\ after[j] # 0 /\ at' = [at EXCEPT ![j] = "blind"]
      /\ probe' = [probe EXCEPT ![j] = after[j] + 1]
      /\ UNCHANGED <<chat, after, first, mid, own>>
  BY DEF FindNothing, Go
<1>2. PICK M \in SUBSET Faults : /\ mishap' = [mishap EXCEPT ![j] = M]
                                 /\ mishap[j] \subseteq M
                                 /\ Matches(j) = {} \/ "find" \in M
  <2>1. CASE Matches(j) = {} /\ NoFault
    BY <2>1 DEF NoFault, Typed
  <2>2. CASE Fault(j, "find")
    BY <2>2 DEF Fault, Typed
  <2> QED
    BY <2>1, <2>2 DEF FindNothing
<1>3. /\ own[j] \in DOMAIN chat /\ chat[own[j]].kind = "progress" /\ own[j] # 0
      /\ chat[own[j]].shows = first[j] /\ first[j] # "nothing" /\ mid[j] = 0
  BY <1>1, TextsAssumption DEF JobInv, OwnFits, MidFits, Typed
<1>4. /\ at'[j] = "blind" /\ mid'[j] = 0 /\ after'[j] = after[j]
      /\ own'[j] = own[j] /\ mishap'[j] = M
  BY <1>1, <1>2, <1>3 DEF Typed
<1>5. ~ Findable(j)'
  <2>1. Matches(j) = {} => own[j] \notin InWindow(j)
    BY <1>3 DEF Matches, Editable
  <2>2. InWindow(j)' = InWindow(j)
    BY <1>1 DEF InWindow
  <2> QED
    BY <1>2, <1>3, <1>4, <2>1, <2>2 DEF Findable
<1>6. Typed'
  BY <1>1, <1>2 DEF Typed, Labels
<1>7. OwnFits(j)'
  BY <1>1, <1>4 DEF JobInv, OwnFits
<1>8. MidFits(j)' /\ Removed(j)'
  BY <1>1, <1>4, <1>5 DEF MidFits, Removed
<1>9. \A k \in Jobs \ {j} : Unmoved(k)
  BY <1>1, <1>2 DEF Unmoved, Typed
<1> QED
  BY <1>1, <1>5, <1>6, <1>7, <1>8, <1>9, NothingWritten DEF Promise, JobInv

LEMMA GiveUpStep ==
  ASSUME Typed, NEW j \in Jobs, JobInv(j), GiveUp(j)
  PROVE  Promise(j)
<1>1. /\ at[j] = "blind" \/ (at[j] = "find" /\ after[j] = 0)
      /\ at' = [at EXCEPT ![j] = "work"]
      /\ UNCHANGED <<chat, after, first, probe, mid, own, mishap>>
  BY DEF GiveUp, Go
<1>2. /\ at'[j] = "work" /\ after'[j] = after[j] /\ mid'[j] = mid[j]
      /\ own'[j] = own[j] /\ mishap'[j] = mishap[j]
  BY <1>1 DEF Typed
<1>3. mid[j] = 0 /\ (~ Findable(j) \/ "anchor" \in mishap[j])
  BY <1>1 DEF JobInv, MidFits
<1>4. Findable(j)' => Findable(j)
  BY <1>2, StillFindable
<1>5. Typed'
  BY <1>1 DEF Typed, Labels
<1>6. OwnFits(j)'
  BY <1>1, <1>2 DEF JobInv, OwnFits
<1>7. MidFits(j)' /\ Removed(j)'
  BY <1>1, <1>2, <1>3, <1>4 DEF JobInv, MidFits, Removed
<1>8. \A k \in Jobs \ {j} : Unmoved(k)
  BY <1>1 DEF Unmoved, Typed
<1> QED
  BY <1>1, <1>4, <1>5, <1>6, <1>7, <1>8, NothingWritten DEF Promise, JobInv

LEMMA CrashStep ==
  ASSUME Typed, NEW j \in Jobs, JobInv(j), Crash(j)
  PROVE  Promise(j)
<1>1. /\ at[j] \notin {"idle", "done"} /\ at' = [at EXCEPT ![j] = "done"]
      /\ UNCHANGED <<chat, after, first, probe, mid, own>>
  BY DEF Crash, Go, Running
<1>2. PICK M \in SUBSET Faults : /\ mishap' = [mishap EXCEPT ![j] = M]
                                 /\ mishap[j] \subseteq M /\ "crash" \in M
  BY DEF Crash, Fault, Typed
<1>3. /\ at'[j] = "done" /\ after'[j] = after[j] /\ mid'[j] = mid[j]
      /\ own'[j] = own[j] /\ mishap'[j] = M
  BY <1>1, <1>2 DEF Typed
<1>4. Findable(j)' => Findable(j)
  BY <1>2, <1>3, StillFindable
<1>5. Typed'
  BY <1>1, <1>2 DEF Typed, Labels
<1>6. OwnFits(j)'
  BY <1>1, <1>3 DEF JobInv, OwnFits
<1>7. MidFits(j)' /\ Removed(j)'
  BY <1>1, <1>2, <1>3, <1>4 DEF JobInv, MidFits, Removed
<1>8. \A k \in Jobs \ {j} : Unmoved(k)
  BY <1>1, <1>2 DEF Unmoved, Typed
<1> QED
  BY <1>1, <1>4, <1>5, <1>6, <1>7, <1>8, NothingWritten DEF Promise, JobInv

\* A job whose own message changes only where it does itself.
LEMMA OwnStays ==
  ASSUME Typed, NEW j \in Jobs, JobInv(j), Evolves, own'[j] = own[j],
         own' \in [Jobs -> Nat], at'[j] \notin {"idle", "send", "find"}
  PROVE  OwnFits(j)'
<1>1. own[j] \in Nat /\ own[j] <= Len(chat) /\ Len(chat) <= Len(chat')
  BY DEF Typed, JobInv, OwnFits, Evolves
<1>2. own[j] # 0 => own[j] \in DOMAIN chat /\ chat[own[j]].kind = "progress"
  BY <1>1 DEF Typed, JobInv, OwnFits
<1>3. own[j] # 0 => chat'[own[j]].kind = "progress"
  BY <1>2 DEF Evolves
<1>4. Len(chat) \in Nat /\ own[j] <= Len(chat')
  BY <1>1 DEF Typed, Evolves
<1> QED
  BY <1>3, <1>4 DEF OwnFits

LEMMA WorkStep ==
  ASSUME Typed, NEW j \in Jobs, JobInv(j), Work(j)
  PROVE  Promise(j)
<1>1. /\ at[j] = "work" /\ at' = [at EXCEPT ![j] = "stop"]
      /\ UNCHANGED <<after, first, probe, mid, own, mishap>>
      /\ Post(j, "post", "post") \/ UNCHANGED chat
  BY DEF Work, Go
<1>2. /\ at'[j] = "stop" /\ after'[j] = after[j] /\ mid'[j] = mid[j]
      /\ own'[j] = own[j] /\ mishap'[j] = mishap[j]
  BY <1>1 DEF Typed
<1>3. Findable(j)' => Findable(j)
  BY <1>2, StillFindable
<1>4. chat' \in Seq(Entry) /\ \A c \in DOMAIN chat : chat'[c] = chat[c]
  <2>1. CASE Post(j, "post", "post")
    BY <2>1, Posting
  <2>2. CASE UNCHANGED chat
    BY <2>2 DEF Typed
  <2> QED
    BY <1>1, <2>1, <2>2
<1>5. Evolves /\ PostsKept(j)
  <2>1. CASE Post(j, "post", "post")
    BY <1>3, <2>1, SomethingWritten
  <2>2. CASE UNCHANGED chat
    BY <1>3, <2>2, NothingWritten
  <2> QED
    BY <1>1, <2>1, <2>2
<1>6. Typed'
  BY <1>1, <1>4 DEF Typed, Labels
<1>7. OwnFits(j)'
  BY <1>2, <1>5, <1>6, OwnStays DEF Typed
<1>8. MidFits(j)' /\ Removed(j)'
  <2>1. own[j] # 0 => own[j] \in DOMAIN chat
    BY DEF Typed, JobInv, OwnFits
  <2>2. own[j] # 0 => chat'[own[j]] = chat[own[j]]
    BY <1>4, <2>1
  <2>3. at[j] \in {"work", "stop"} /\ (after[j] = 0 => "anchor" \in mishap[j])
    BY <1>1 DEF JobInv, MidFits
  <2> QED
    BY <1>2, <1>3, <2>2, <2>3 DEF JobInv, MidFits, Removed
<1>9. \A k \in Jobs \ {j} : Unmoved(k)
  BY <1>1 DEF Unmoved, Typed
<1> QED
  BY <1>5, <1>6, <1>7, <1>8, <1>9 DEF Promise, JobInv

\* What a job that can be found edits or deletes is its own message.
LEMMA EditsOwn ==
  ASSUME Typed, NEW j \in Jobs, JobInv(j), mid[j] # 0, Findable(j)
  PROVE  mid[j] = own[j] /\ chat[mid[j]].kind = "progress"
BY DEF JobInv, MidFits, OwnFits

LEMMA TickStep ==
  ASSUME Typed, NEW j \in Jobs, JobInv(j), Tick(j)
  PROVE  Promise(j)
<1>1. /\ at[j] \in {"work", "stop"} /\ mid[j] # 0 /\ Editable(mid[j])
      /\ UNCHANGED <<at, after, first, probe, mid, own, mishap>>
  BY DEF Tick, locals
<1>2. PICK text \in Texts : Show(mid[j], text)
  BY DEF Tick
<1>3. /\ at'[j] = at[j] /\ after'[j] = after[j] /\ mid'[j] = mid[j]
      /\ own'[j] = own[j] /\ mishap'[j] = mishap[j]
  BY <1>1
<1>4. Findable(j)' => Findable(j)
  BY <1>3, StillFindable
<1>5. Findable(j)' => Findable(j) /\ chat[mid[j]].kind # "post"
  BY <1>1, <1>4, EditsOwn
<1>6. Evolves /\ PostsKept(j)
  BY <1>1, <1>2, <1>5, SomethingShown
<1>7. chat' \in Seq(Entry) /\ chat'[mid[j]].shows = text
  BY <1>1, <1>2, Showing
<1>8. Typed'
  BY <1>1, <1>7 DEF Typed
<1>9. OwnFits(j)'
  BY <1>1, <1>3, <1>6, <1>8, OwnStays DEF Typed
<1>10. MidFits(j)' /\ Removed(j)'
  <2>1. text # "nothing"
    BY TextsAssumption
  <2>2. (after[j] = 0 => "anchor" \in mishap[j]) /\ (Findable(j) => mid[j] = own[j])
    BY <1>1, EditsOwn DEF JobInv, MidFits
  <2>3. MidFits(j)'
    BY <1>1, <1>3, <1>4, <1>7, <2>1, <2>2 DEF JobInv, MidFits
  <2> QED
    BY <1>1, <1>3, <2>3 DEF Removed
<1>11. \A k \in Jobs \ {j} : Unmoved(k)
  BY <1>1 DEF Unmoved
<1> QED
  BY <1>6, <1>8, <1>9, <1>10, <1>11 DEF Promise, JobInv

LEMMA StopStep ==
  ASSUME Typed, NEW j \in Jobs, JobInv(j), Stop(j)
  PROVE  Promise(j)
<1>1. /\ at[j] = "stop" /\ at' = [at EXCEPT ![j] = "done"]
      /\ UNCHANGED <<after, first, probe, mid, own>>
  BY DEF Stop, Go
<1>2. \/ mid[j] # 0 /\ Editable(mid[j]) /\ Show(mid[j], "nothing") /\ NoFault
      \/ (mid[j] = 0 \/ ~ Editable(mid[j])) /\ UNCHANGED chat /\ NoFault
      \/ mid[j] # 0 /\ UNCHANGED chat /\ Fault(j, "delete")
  BY DEF Stop
<1>3. PICK M \in SUBSET Faults :
        /\ mishap' = [mishap EXCEPT ![j] = M] /\ mishap[j] \subseteq M
        /\ \/ mid[j] # 0 /\ Editable(mid[j]) /\ Show(mid[j], "nothing")
           \/ (mid[j] = 0 \/ ~ Editable(mid[j])) /\ UNCHANGED chat
           \/ UNCHANGED chat /\ "delete" \in M
  <2>1. CASE NoFault
    BY <1>2, <2>1 DEF NoFault, Typed, Fault
  <2>2. CASE mid[j] # 0 /\ UNCHANGED chat /\ Fault(j, "delete")
    BY <2>2 DEF Fault, Typed
  <2> QED
    BY <1>2, <2>1, <2>2
<1>4. /\ at'[j] = "done" /\ after'[j] = after[j] /\ mid'[j] = mid[j]
      /\ own'[j] = own[j] /\ mishap'[j] = M
  BY <1>1, <1>3 DEF Typed
<1>5. Findable(j)' => Findable(j)
  BY <1>3, <1>4, StillFindable
<1>6. chat' \in Seq(Entry) /\ Evolves /\ PostsKept(j)
  <2>1. CASE mid[j] # 0 /\ Editable(mid[j]) /\ Show(mid[j], "nothing")
    <3>1. Findable(j)' => Findable(j) /\ chat[mid[j]].kind # "post"
      BY <1>5, <2>1, EditsOwn
    <3> QED
      BY <2>1, <3>1, SomethingShown, Showing
  <2>2. CASE UNCHANGED chat
    BY <1>5, <2>2, NothingWritten DEF Typed
  <2> QED
    BY <1>3, <2>1, <2>2
<1>7. Typed'
  BY <1>1, <1>3, <1>6 DEF Typed, Labels
<1>8. OwnFits(j)'
  BY <1>4, <1>6, <1>7, OwnStays DEF Typed
<1>9. MidFits(j)'
  <2>1. (after[j] = 0 => "anchor" \in mishap[j])
        /\ (Findable(j) => mid[j] \in {0, own[j]})
    BY <1>1 DEF JobInv, MidFits
  <2> QED
    BY <1>3, <1>4, <1>5, <2>1 DEF MidFits
<1>10. Removed(j)'
  <2> SUFFICES ASSUME M = {}, own[j] # 0, Findable(j)
               PROVE  chat'[own[j]].shows = "nothing"
    BY <1>4, <1>5 DEF Removed
  <2>1. mid[j] = own[j] /\ chat[own[j]].shows # "nothing"
    BY <1>1, <1>3 DEF JobInv, MidFits
  <2>2. own[j] \in DOMAIN chat /\ chat[own[j]].kind = "progress"
    BY DEF JobInv, OwnFits, Typed
  <2>3. Editable(mid[j])
    BY <2>1, <2>2 DEF Editable
  <2>4. Show(mid[j], "nothing")
    BY <1>3, <2>1, <2>3
  <2> QED
    BY <2>1, <2>3, <2>4, Showing
<1>11. \A k \in Jobs \ {j} : Unmoved(k)
  BY <1>1, <1>3 DEF Unmoved, Typed
<1> QED
  BY <1>6, <1>7, <1>8, <1>9, <1>10, <1>11 DEF Promise, JobInv

LEMMA BlindEditStep ==
  ASSUME Typed, NEW j \in Jobs, JobInv(j), BlindEdit(j)
  PROVE  Promise(j)
<1>1. /\ at[j] = "blind" /\ TryNextId(j) /\ UNCHANGED <<after, first, own>>
      /\ ~ Findable(j) /\ (after[j] = 0 => "anchor" \in mishap[j])
  BY DEF BlindEdit, JobInv, MidFits
<1>2. chat' = chat \/ (Editable(probe[j]) /\ Show(probe[j], first[j]))
  BY <1>1 DEF TryNextId
<1>3. PICK M \in SUBSET Faults : /\ mishap' = [mishap EXCEPT ![j] = M]
                                 /\ mishap[j] \subseteq M
  <2>1. NoFault \/ Fault(j, "edit")
    BY <1>1 DEF TryNextId
  <2> QED
    BY <2>1 DEF NoFault, Fault, Typed
<1>4. PICK l \in {"blind", "work"} :
        /\ at' = [at EXCEPT ![j] = l]
        /\ \/ l = "work" /\ mid' = [mid EXCEPT ![j] = probe[j]] /\ UNCHANGED probe
           \/ l = "blind" /\ UNCHANGED mid /\ probe' = [probe EXCEPT ![j] = @ + 1]
  <2>1. CASE Go(j, "work") /\ mid' = [mid EXCEPT ![j] = probe[j]] /\ UNCHANGED probe
    BY <2>1 DEF Go
  <2>2. CASE UNCHANGED <<at, mid>> /\ probe' = [probe EXCEPT ![j] = @ + 1]
    BY <1>1, <2>2 DEF Typed
  <2> QED
    BY <1>1, <2>1, <2>2 DEF TryNextId
<1>5. PICK m \in Nat : /\ mid' = [mid EXCEPT ![j] = m]
                       /\ l = "blind" => m = mid[j]
  BY <1>4 DEF Typed
<1>6. /\ at'[j] = l /\ after'[j] = after[j] /\ own'[j] = own[j] /\ mid'[j] = m
      /\ mishap'[j] = M
  BY <1>1, <1>3, <1>4, <1>5 DEF Typed
<1>7. ~ Findable(j)'
  BY <1>1, <1>3, <1>6, StillFindable
<1>8. chat' \in Seq(Entry) /\ Evolves /\ PostsKept(j)
  <2>1. CASE Editable(probe[j]) /\ Show(probe[j], first[j])
    <3>1. first[j] \in Texts
      BY DEF Typed
    <3> QED
      BY <1>7, <2>1, <3>1, SomethingShown, Showing
  <2>2. CASE chat' = chat
    BY <1>7, <2>2, NothingWritten DEF Typed
  <2> QED
    BY <1>2, <2>1, <2>2
<1>9. Typed'
  <2>1. probe' \in [Jobs -> Nat]
    <3>1. probe \in [Jobs -> Nat] /\ probe[j] + 1 \in Nat
      BY DEF Typed
    <3>2. probe' = probe \/ probe' = [probe EXCEPT ![j] = probe[j] + 1]
      BY <1>4
    <3> QED
      BY <3>1, <3>2
  <2> QED
    BY <1>1, <1>3, <1>4, <1>5, <1>8, <2>1 DEF Typed, Labels
<1>10. OwnFits(j)'
  BY <1>6, <1>8, <1>9, OwnStays DEF Typed
<1>11. MidFits(j)' /\ Removed(j)'
  <2>1. l = "blind" => m = 0
    BY <1>1, <1>5 DEF JobInv, MidFits
  <2> QED
    BY <1>1, <1>3, <1>6, <1>7, <2>1 DEF MidFits, Removed
<1>12. \A k \in Jobs \ {j} : Unmoved(k)
  BY <1>1, <1>3, <1>4, <1>5 DEF Unmoved, Typed
<1> QED
  BY <1>8, <1>9, <1>10, <1>11, <1>12 DEF Promise, JobInv

-----------------------------------------------------------------------------
(* The step.                                                               *)

\* Jobs that have not begun or are done.
LEMMA Bystander ==
  ASSUME Typed, Evolves, NEW k \in Jobs, JobInv(k), Unmoved(k), ~ Running(k),
         own' \in [Jobs -> Nat]
  PROVE  JobInv(k)'
<1>1. at[k] \in {"idle", "done"} /\ mishap'[k] = mishap[k] /\ at'[k] = at[k]
      /\ after'[k] = after[k] /\ mid'[k] = mid[k] /\ own'[k] = own[k]
  BY DEF Running, Unmoved
<1>2. Findable(k)' => Findable(k)
  BY <1>1, StillFindable
<1>3. CASE at[k] = "idle"
  <2>1. own[k] = 0 /\ mid[k] = 0
    BY <1>3 DEF JobInv, OwnFits, MidFits
  <2>2. own'[k] <= Len(chat')
    BY <1>1 DEF Typed, JobInv, OwnFits, Evolves
  <2> QED
    BY <1>1, <1>3, <2>1, <2>2 DEF JobInv, OwnFits, MidFits, Removed
<1>4. CASE at[k] = "done"
  <2>1. OwnFits(k)'
    BY <1>1, <1>4, OwnStays
  <2>2. MidFits(k)'
    BY <1>1, <1>2, <1>4 DEF JobInv, MidFits
  <2>3. own[k] # 0 => own[k] \in DOMAIN chat
    BY DEF Typed, JobInv, OwnFits
  <2>4. Removed(k)'
    BY <1>1, <1>2, <1>4, <2>3 DEF JobInv, Removed, Evolves
  <2> QED
    BY <2>1, <2>2, <2>4 DEF JobInv
<1> QED
  BY <1>1, <1>3, <1>4

\* A step of one job, where no other one runs.
LEMMA JobStep ==
  ASSUME IInv, NEW j \in Jobs, Promise(j),
         \A k \in Jobs \ {j} : ~ Running(k)
  PROVE  IInv'
<1>1. Typed /\ JobInv(j) /\ PostsIntact
  BY DEF IInv
<1>2. Typed' /\ JobInv(j)' /\ Evolves /\ PostsKept(j)
  BY DEF Promise
<1>3. own' \in [Jobs -> Nat]
  BY <1>2 DEF Typed
<1>4. ASSUME NEW k \in Jobs, k # j
      PROVE  JobInv(k)' /\ ~ Running(k)' /\ (Findable(k)' => Findable(k))
  <2>1. JobInv(k) /\ Unmoved(k) /\ ~ Running(k)
    BY <1>4 DEF IInv, Promise
  <2>2. JobInv(k)'
    BY <1>1, <1>2, <1>3, <2>1, Bystander
  <2>3. Findable(k)' => Findable(k)
    BY <1>1, <2>1, StillFindable DEF Unmoved
  <2> QED
    BY <2>1, <2>2, <2>3 DEF Running, Unmoved
<1>5. OneRunner'
  BY <1>4 DEF OneRunner
<1>6. PostsIntact'
  <2> SUFFICES ASSUME \A k \in Jobs : Findable(k)',
                      NEW c \in DOMAIN chat', chat'[c].kind = "post"
               PROVE  chat'[c].shows = "post"
    BY DEF PostsIntact
  <2>1. \A k \in Jobs : Findable(k)
    BY <1>2, <1>4 DEF PostsKept
  <2>2. chat'[c].shows = "post" \/ (c \in DOMAIN chat /\ chat'[c] = chat[c])
    BY <1>2 DEF PostsKept
  <2> QED
    BY <1>1, <2>1, <2>2 DEF PostsIntact
<1> QED
  BY <1>2, <1>4, <1>5, <1>6 DEF IInv

\* A message of a user changes nothing for a job, which works or waits.
LEMMA UserStep ==
  ASSUME IInv, UserWrites
  PROVE  IInv'
<1>1. Typed /\ PostsIntact /\ UNCHANGED <<locals, own, mishap>>
  BY DEF IInv, UserWrites
<1>2. Post("user", "message", "message")
  BY DEF UserWrites
<1>3. /\ chat' \in Seq(Entry) /\ Len(chat') = Len(chat) + 1
      /\ \A c \in DOMAIN chat : c \in DOMAIN chat' /\ chat'[c] = chat[c]
      /\ \A c \in DOMAIN chat' : c \in DOMAIN chat \/ c = Len(chat) + 1
      /\ chat'[Len(chat) + 1].kind = "message"
  BY <1>1, <1>2, Posting
<1>4. Typed'
  BY <1>1, <1>3 DEF Typed, locals
<1>5. OneRunner' /\ PostsIntact'
  <2>1. OneRunner'
    BY <1>1 DEF IInv, OneRunner, Running, locals
  <2>2. (\A j \in Jobs : Findable(j)') => (\A j \in Jobs : Findable(j))
    BY <1>1 DEF Findable, InWindow, locals
  <2>3. PostsIntact'
    BY <1>1, <1>3, <2>2 DEF PostsIntact
  <2> QED
    BY <2>1, <2>3
<1>6. ASSUME NEW j \in Jobs PROVE JobInv(j)'
  <2>1. JobInv(j)
    BY DEF IInv
  <2>2. /\ at'[j] = at[j] /\ after'[j] = after[j] /\ first'[j] = first[j]
        /\ mid'[j] = mid[j] /\ own'[j] = own[j] /\ mishap'[j] = mishap[j]
    BY <1>1 DEF locals
  <2>3. Findable(j)' <=> Findable(j)
    BY <2>2 DEF Findable, InWindow
  <2>4. own[j] # 0 => own[j] \in DOMAIN chat /\ chat'[own[j]] = chat[own[j]]
    BY <1>1, <1>3, <2>1 DEF Typed, JobInv, OwnFits
  <2>5. OwnFits(j)'
    <3>1. own[j] \in Nat /\ Len(chat) \in Nat /\ own[j] <= Len(chat)
      BY <1>1, <2>1 DEF Typed, JobInv, OwnFits
    <3> QED
      BY <1>3, <2>1, <2>2, <2>4, <3>1 DEF JobInv, OwnFits
  <2>6. MidFits(j)' /\ Removed(j)'
    BY <2>1, <2>2, <2>3, <2>4 DEF JobInv, MidFits, Removed
  <2> QED
    BY <2>5, <2>6 DEF JobInv
<1> QED
  BY <1>4, <1>5, <1>6 DEF IInv

LEMMA StutterStep ==
  ASSUME IInv, UNCHANGED vars
  PROVE  IInv'
<1>1. UNCHANGED <<chat, at, after, first, probe, mid, own, mishap>>
  BY DEF vars, locals
<1>2. Typed' /\ OneRunner' /\ PostsIntact'
  BY <1>1 DEF IInv, Typed, OneRunner, Running, PostsIntact, Findable, InWindow
<1>3. \A j \in Jobs : JobInv(j)'
  BY <1>1 DEF IInv, JobInv, OwnFits, MidFits, Removed, Findable, InWindow
<1> QED
  BY <1>2, <1>3 DEF IInv

LEMMA NextStep ==
  ASSUME ~ Overlap, IInv, [Next]_vars
  PROVE  IInv'
<1>1. CASE UserWrites
  BY <1>1, UserStep
<1>2. ASSUME NEW j \in Jobs, Start(j) \/ Step(j) \/ Tick(j) \/ Crash(j)
      PROVE  IInv'
  <2>1. Typed /\ JobInv(j)
    BY DEF IInv
  <2>2. CASE Start(j)
    <3>1. \A k \in Jobs : ~ Running(k)
      BY <2>2 DEF Start
    <3> QED
      BY <2>1, <2>2, <3>1, StartStep, JobStep
  <2>3. ASSUME Running(j), Promise(j) PROVE IInv'
    <3>1. \A k \in Jobs \ {j} : ~ Running(k)
      BY <2>3 DEF IInv, OneRunner
    <3> QED
      BY <2>3, <3>1, JobStep
  <2>4. CASE Step(j)
    <3>1. Promise(j)
      BY <2>1, <2>4, SendStep, FindStep, FindNothingStep, GiveUpStep,
         BlindEditStep, WorkStep, StopStep DEF Step
    <3>2. Running(j)
      BY <2>4 DEF Step, Send, Find, FindNothing, GiveUp, BlindEdit, Work, Stop,
         Running
    <3> QED
      BY <2>3, <3>1, <3>2
  <2>5. CASE Tick(j)
    BY <2>1, <2>3, <2>5, TickStep DEF Tick, Running
  <2>6. CASE Crash(j)
    BY <2>1, <2>3, <2>6, CrashStep DEF Crash
  <2> QED
    BY <1>2, <2>2, <2>4, <2>5, <2>6
<1>3. CASE UNCHANGED vars
  BY <1>3, StutterStep
<1> QED
  BY <1>1, <1>2, <1>3 DEF Next

-----------------------------------------------------------------------------
(* Theorems: jobs of the conversation do not overlap.                      *)

THEOREM Invariance ==
  ASSUME ~ Overlap
  PROVE  Spec => []IInv
<1>1. Init => IInv
  BY InitInv
<1>2. IInv /\ [Next]_vars => IInv'
  BY NextStep
<1> QED
  BY <1>1, <1>2, PTL DEF Spec

\* A job edits and deletes its own message only, as long as its lookup works
\* and its message is in the window, also beside messages of the same text
\* (summaryProgress, FindProgressMessage).
THEOREM JobsHoldTheirOwn ==
  ASSUME ~ Overlap
  PROVE  Spec => []HoldsOwnMessage
<1>1. IInv => HoldsOwnMessage
  BY DEF IInv, JobInv, MidFits, HoldsOwnMessage
<1> QED
  BY <1>1, Invariance, PTL

\* While lookups work, no edit and no deletion of a progress message hits a
\* digest or a notice.
THEOREM PostsStayIntact ==
  ASSUME ~ Overlap
  PROVE  Spec => []PostsIntact
<1>1. IInv => PostsIntact
  BY DEF IInv
<1> QED
  BY <1>1, Invariance, PTL

\* Where no call fails and the message is in the window, it is deleted when
\* the job is done (summaryProgress.Stop).
THEOREM FinishedJobsLeaveNothing ==
  ASSUME ~ Overlap
  PROVE  Spec => []ProgressRemoved
<1>1. IInv => ProgressRemoved
  BY DEF IInv, JobInv, Removed, ProgressRemoved
<1> QED
  BY <1>1, Invariance, PTL
=============================================================================
