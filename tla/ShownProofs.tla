---------------------------- MODULE ShownProofs -----------------------------
(*****************************************************************************)
(* What is shown, heard and said is of now: proofs about the conversation of *)
(* a task as the window shows it and as the store holds it, the spoken       *)
(* conversation, terminals, and the signed-in session.                       *)
(*****************************************************************************)
EXTENDS ConversationView, LiveChat, Composer, Terminals, ApiSession, FiniteSetTheorems,
        SequenceTheorems, TLAPS

-----------------------------------------------------------------------------
(* The view of a task *)

\* The page of a load is what was stored of the response, from its beginning.
OneLoad(l) == \E n \in 0..emitted[l.task] : l.page = 1..n

\* Only the newest request is not outdated.
LoadsOK ==
  /\ loads \in Seq(Load)
  /\ \A i \in 1..Len(loads) : OneLoad(loads[i])
  /\ \A i, j \in 1..Len(loads) : loads[i].fresh /\ loads[j].fresh => i = j

\* No piece is in the store, the view or a stream that was not sent.
PiecesSent ==
  \A t \in Chats : /\ stored[t] <= emitted[t]
                   /\ view.text[t] \subseteq 1..emitted[t] /\ streams[t] \subseteq 1..emitted[t]

\* An older page that is to be shown adds to the pages there are.
OlderAdds ==
  older.phase = "previews" /\ older.fresh =>
    older.text \subseteq 1..emitted[shown] /\ (view.owner = shown => older.pages >= view.pages)

ViewInv == ViewTypeOK /\ LoadsOK /\ PiecesSent /\ OlderAdds

\* What is left of a sequence from which the element of a place is removed.
LEMMA RemoveAtFacts ==
  ASSUME NEW S, NEW s \in Seq(S), NEW i \in 1..Len(s)
  PROVE  /\ RemoveAt(s, i) \in Seq(S) /\ Len(RemoveAt(s, i)) = Len(s) - 1
         /\ \A j \in 1..Len(s) - 1 : RemoveAt(s, i)[j] = IF j < i THEN s[j] ELSE s[j + 1]
<1> DEFINE a == SubSeq(s, 1, i - 1)
           b == SubSeq(s, i + 1, Len(s))
<1>1. /\ a \in Seq(S) /\ Len(a) = i - 1 /\ \A j \in 1..(i - 1) : a[j] = s[j]
  OBVIOUS
<1>2. /\ b \in Seq(S) /\ Len(b) = Len(s) - i /\ \A j \in 1..(Len(s) - i) : b[j] = s[i + j]
  OBVIOUS
<1>3. RemoveAt(s, i) = a \o b
  BY DEF RemoveAt
<1> HIDE DEF a, b
<1>0. Len(s) \in Nat /\ i \in Nat /\ (i - 1) + (Len(s) - i) = Len(s) - 1
  OBVIOUS
<1>4. a \o b \in Seq(S) /\ Len(a \o b) = Len(s) - 1
  <2>1. a \o b \in Seq(S) /\ Len(a \o b) = Len(a) + Len(b)
    BY <1>1, <1>2, ConcatProperties
  <2> QED BY <1>0, <1>1, <1>2, <2>1
<1>5. ASSUME NEW j \in 1..Len(s) - 1 PROVE (a \o b)[j] = IF j < i THEN s[j] ELSE s[j + 1]
  <2>1. CASE j < i
    BY <1>1, <1>2, <2>1
  <2>2. CASE ~(j < i)
    <3>0. j - Len(a) = j + 1 - i /\ j + 1 - i \in 1..(Len(s) - i) /\ j \in 1..Len(a) + Len(b) /\ j > Len(a)
      BY <1>0, <1>1, <1>2, <2>2
    <3>1. (a \o b)[j] = b[j - Len(a)]
      BY <1>1, <1>2, <3>0, ConcatProperties
    <3>2. b[j + 1 - i] = s[i + (j + 1 - i)]
      BY <1>2, <3>0
    <3>3. i + (j + 1 - i) = j + 1
      BY <1>0
    <3> QED BY <2>2, <3>0, <3>1, <3>2, <3>3
  <2> QED BY <2>1, <2>2
<1> QED BY <1>3, <1>4, <1>5

\* ls: the loads under way after a new request, of task t, which is the only one that is not
\* outdated.
NewRequest(t, ls) ==
  /\ ls \in Seq(Load) /\ Len(ls) = Len(loads) + 1
  /\ \A i \in 1..Len(loads) : ls[i].fresh = FALSE /\ ls[i].task = loads[i].task /\ ls[i].page = loads[i].page
  /\ ls[Len(loads) + 1].fresh = TRUE /\ ls[Len(loads) + 1].task = t /\ ls[Len(loads) + 1].page = {}

\* A new request is the only one that is not outdated.
LEMMA WithLoadFacts ==
  ASSUME ViewAssumption, ViewInv, NEW reset \in BOOLEAN, NEW scheduled \in BOOLEAN
  PROVE  \A t \in Chats : NewRequest(t, WithLoad(t, reset, scheduled))
<1> TAKE t \in Chats
<1> DEFINE new == [task |-> t, fresh |-> TRUE, reset |-> reset, scheduled |-> scheduled,
                   phase |-> "page", page |-> {}]
<1>1. new \in Load
  BY DEF Load
<1>2. loads \in Seq(Load) /\ DOMAIN loads = 1..Len(loads)
  BY DEF ViewInv, ViewTypeOK
<1>3. \A i \in 1..Len(loads) : loads[i] \in Load
  BY <1>2
<1>4. \A i \in 1..Len(loads) : /\ [loads[i] EXCEPT !.fresh = FALSE] \in Load
                               /\ [loads[i] EXCEPT !.fresh = FALSE].fresh = FALSE
                               /\ [loads[i] EXCEPT !.fresh = FALSE].task = loads[i].task
                               /\ [loads[i] EXCEPT !.fresh = FALSE].page = loads[i].page
  BY <1>3 DEF Load
<1>5. Outdated = [i \in 1..Len(loads) |-> [loads[i] EXCEPT !.fresh = FALSE]]
  BY <1>2 DEF Outdated
<1>6. Outdated \in [1..Len(loads) -> Load] /\ Len(loads) \in Nat
  BY <1>2, <1>4, <1>5
<1>7. Outdated \in Seq(Load) /\ Len(Outdated) = Len(loads)
  BY <1>6
<1>8. WithLoad(t, reset, scheduled) = Append(Outdated, new)
  BY DEF WithLoad
<1> HIDE DEF new
<1>9. /\ Append(Outdated, new) \in Seq(Load) /\ Len(Append(Outdated, new)) = Len(loads) + 1
      /\ \A i \in 1..Len(loads) : Append(Outdated, new)[i] = Outdated[i]
      /\ Append(Outdated, new)[Len(loads) + 1] = new
  BY <1>1, <1>7
<1>10. \A i \in 1..Len(loads) : Outdated[i].fresh = FALSE /\ Outdated[i].task = loads[i].task
                                /\ Outdated[i].page = loads[i].page
  BY <1>4, <1>5
<1>11. new.fresh = TRUE /\ new.task = t /\ new.page = {}
  BY DEF new
<1> QED BY <1>8, <1>9, <1>10, <1>11 DEF NewRequest

\* A request is made for a task.
LEMMA AskedKeeps ==
  ASSUME ViewAssumption, ViewInv, NEW reset \in BOOLEAN, NEW scheduled \in BOOLEAN, NEW t \in Chats,
         loads' = WithLoad(t, reset, scheduled), UNCHANGED emitted
  PROVE  LoadsOK'
<1> DEFINE n == Len(loads)
<1>0. n \in Nat /\ loads \in Seq(Load)
  BY DEF ViewInv, ViewTypeOK
<1>1. /\ loads' \in Seq(Load) /\ Len(loads') = n + 1
      /\ \A i \in 1..n : loads'[i].fresh = FALSE /\ loads'[i].task = loads[i].task /\ loads'[i].page = loads[i].page
      /\ loads'[n + 1].fresh = TRUE /\ loads'[n + 1].task = t /\ loads'[n + 1].page = {}
  <2>1. NewRequest(t, loads')
    BY WithLoadFacts
  <2> QED BY <2>1 DEF NewRequest
<1> HIDE DEF n
<1>2. \A i \in 1..n + 1 : i \in 1..n \/ i = n + 1
  BY <1>0
<1>3. 0 \in 0..emitted[t] /\ {} = 1..0
  BY ViewAssumption DEF ViewInv, ViewTypeOK, ViewAssumption
<1>4. ASSUME NEW i \in 1..n PROVE OneLoad(loads[i])
  BY DEF ViewInv, LoadsOK, n
<1>5. ASSUME NEW i \in 1..n + 1 PROVE OneLoad(loads[i])'
  <2>1. CASE i \in 1..n
    BY <1>1, <1>4, <2>1 DEF OneLoad
  <2>2. CASE i = n + 1
    BY <1>1, <1>3, <2>2 DEF OneLoad
  <2> QED BY <1>2, <2>1, <2>2
<1> QED BY <1>1, <1>2, <1>5 DEF LoadsOK

\* A load is over.
LEMMA OverKeeps ==
  ASSUME ViewInv, NEW i \in 1..Len(loads), loads' = RemoveAt(loads, i), UNCHANGED <<shown, emitted>>
  PROVE  LoadsOK'
<1>0. Len(loads) \in Nat /\ loads \in Seq(Load)
  BY DEF ViewInv, ViewTypeOK
<1>1. /\ loads' \in Seq(Load) /\ Len(loads') = Len(loads) - 1
      /\ \A j \in 1..Len(loads) - 1 : loads'[j] = IF j < i THEN loads[j] ELSE loads[j + 1]
  BY <1>0, RemoveAtFacts
<1> DEFINE from(j) == IF j < i THEN j ELSE j + 1
<1>2. \A j \in 1..Len(loads) - 1 : from(j) \in 1..Len(loads) /\ loads'[j] = loads[from(j)]
  BY <1>0, <1>1
<1>3. \A j, k \in 1..Len(loads) - 1 : from(j) = from(k) => j = k
  BY <1>0
<1> HIDE DEF from
<1>4. ASSUME NEW j \in 1..Len(loads) - 1 PROVE OneLoad(loads[j])'
  <2>1. OneLoad(loads[from(j)])
    BY <1>2 DEF ViewInv, LoadsOK
  <2> QED BY <2>1, <1>2 DEF OneLoad
<1>5. ASSUME NEW j \in 1..Len(loads) - 1, NEW k \in 1..Len(loads) - 1, loads'[j].fresh, loads'[k].fresh
      PROVE  j = k
  BY <1>2, <1>3, <1>5 DEF ViewInv, LoadsOK
<1> QED BY <1>1, <1>4, <1>5 DEF LoadsOK

\* The loads that are under way stay, and so does the selected task.
LEMMA LoadsStay ==
  ASSUME ViewInv, UNCHANGED <<shown, loads, emitted>>
  PROVE  LoadsOK'
BY DEF ViewInv, LoadsOK, OneLoad

\* The window opens with one load of the task it shows, and with nothing sent yet.
LEMMA ViewStarts == ASSUME ViewAssumption, ViewInit PROVE ViewInv
<1> DEFINE first == [task |-> shown, fresh |-> TRUE, reset |-> TRUE, scheduled |-> FALSE,
                     phase |-> "page", page |-> {}]
<1>1. first \in Load /\ first.task = shown /\ first.page = {} /\ shown \in Chats
  BY DEF ViewInit, Load
<1>2. loads = <<first>>
  BY DEF ViewInit
<1> HIDE DEF first
<1>3. loads \in Seq(Load) /\ Len(loads) = 1 /\ loads[1] = first
  BY <1>1, <1>2
<1>4. MaxDeltas \in Nat /\ MaxPages \in Nat
  BY DEF ViewAssumption
<1>5. ViewTypeOK
  BY <1>3, <1>4 DEF ViewInit, ViewTypeOK, NoOlder
<1>6. LoadsOK
  <2>1. emitted[shown] = 0 /\ {} = 1..0 /\ 0 \in 0..0
    BY <1>1 DEF ViewInit
  <2>2. OneLoad(first)
    BY <1>1, <2>1 DEF OneLoad
  <2> QED BY <1>3, <2>2 DEF LoadsOK
<1>7. PiecesSent
  BY DEF ViewInit, PiecesSent
<1>8. OlderAdds
  BY DEF ViewInit, OlderAdds, NoOlder
<1> QED BY <1>5, <1>6, <1>7, <1>8 DEF ViewInv

\* Another task is shown: a load that replaces the view is asked for, and nothing
\* else is touched.
LEMMA ShowTaskKeeps == ASSUME ViewAssumption, ViewInv, NEW t \in Chats, ShowTask(t) PROVE ViewInv'
<1>1. LoadsOK'
  BY AskedKeeps DEF ShowTask
<1>2. ViewTypeOK'
  BY <1>1 DEF ViewInv, ViewTypeOK, LoadsOK, ShowTask
<1>3. PiecesSent'
  BY DEF ViewInv, ViewTypeOK, PiecesSent, ShowTask
<1>4. OlderAdds'
  BY DEF ViewInv, ViewTypeOK, OlderAdds, ShowTask
<1> QED BY <1>1, <1>2, <1>3, <1>4 DEF ViewInv

\* A reload asks for a load of a task.
LEMMA ReloadKeeps == ASSUME ViewAssumption, ViewInv, NEW t \in Chats, Reload(t) PROVE ViewInv'
<1>1. LoadsOK'
  <2>1. PICK reset \in BOOLEAN : loads' = WithLoad(t, reset, FALSE)
    BY DEF Reload
  <2> QED BY <2>1, AskedKeeps DEF Reload
<1>2. ViewTypeOK'
  BY <1>1 DEF ViewInv, ViewTypeOK, LoadsOK, Reload
<1>3. PiecesSent' /\ OlderAdds'
  BY DEF ViewInv, PiecesSent, OlderAdds, Reload
<1> QED BY <1>1, <1>2, <1>3 DEF ViewInv

\* A refresh that was scheduled asks for a load that keeps what the view holds.
LEMMA RefreshFiresKeeps == ASSUME ViewAssumption, ViewInv, RefreshFires PROVE ViewInv'
<1>1. LoadsOK'
  BY AskedKeeps DEF RefreshFires, ViewInv, ViewTypeOK
<1>2. ViewTypeOK'
  BY <1>1 DEF ViewInv, ViewTypeOK, LoadsOK, RefreshFires
<1>3. PiecesSent' /\ OlderAdds'
  BY DEF ViewInv, PiecesSent, OlderAdds, RefreshFires
<1> QED BY <1>1, <1>2, <1>3 DEF ViewInv

\* An event without text at most schedules a refresh.
LEMMA OtherEventKeeps == ASSUME ViewInv, OtherEvent PROVE ViewInv'
<1>1. LoadsOK'
  BY LoadsStay DEF OtherEvent
<1>2. ViewTypeOK'
  BY DEF ViewInv, ViewTypeOK, OtherEvent, Scheduled
<1>3. PiecesSent' /\ OlderAdds'
  BY DEF ViewInv, PiecesSent, OlderAdds, OtherEvent
<1> QED BY <1>1, <1>2, <1>3 DEF ViewInv

\* The store records a piece that was sent: the loads that run saw no more than it
\* held.
LEMMA StorePieceKeeps == ASSUME ViewAssumption, ViewInv, NEW t \in Chats, StorePiece(t) PROVE ViewInv'
<1>1. LoadsOK'
  BY LoadsStay DEF StorePiece
<1>0. stored \in [Chats -> 0..MaxDeltas] /\ emitted \in [Chats -> 0..MaxDeltas] /\ MaxDeltas \in Nat
  BY DEF ViewInv, ViewTypeOK, ViewAssumption
<1>4. stored' = [stored EXCEPT ![t] = stored[t] + 1] /\ stored[t] < emitted[t] /\ emitted' = emitted
  BY DEF StorePiece
<1>5. stored[t] + 1 \in 0..emitted[t] /\ stored[t] + 1 \in 0..MaxDeltas
  BY <1>0, <1>4
<1>2. ViewTypeOK'
  BY <1>0, <1>4, <1>5 DEF ViewInv, ViewTypeOK, StorePiece
<1>3. PiecesSent'
  BY <1>0, <1>4, <1>5 DEF ViewInv, PiecesSent, StorePiece
<1>6. OlderAdds'
  BY DEF ViewInv, OlderAdds, StorePiece
<1> QED BY <1>1, <1>2, <1>3, <1>6 DEF ViewInv

\* Older messages are asked for of the task that is shown.
LEMMA LoadOlderKeeps == ASSUME ViewAssumption, ViewInv, LoadOlder PROVE ViewInv'
<1>1. LoadsOK'
  BY LoadsStay DEF LoadOlder
<1>2. ViewTypeOK'
  BY DEF ViewInv, ViewTypeOK, LoadOlder, ViewAssumption
<1>3. PiecesSent' /\ OlderAdds'
  BY DEF ViewInv, PiecesSent, OlderAdds, LoadOlder
<1> QED BY <1>1, <1>2, <1>3 DEF ViewInv

\* Of two texts that were sent, the one that is taken was sent.
LEMMA OneOfTwo ==
  ASSUME NEW a, NEW b PROVE Reconciled(a, b) \in {a, b}
BY DEF Reconciled

\* A page of older messages holds what the store did: pieces that were sent.
LEMMA OlderArrivesKeeps == ASSUME ViewAssumption, ViewInv, OlderArrives PROVE ViewInv'
<1>1. LoadsOK'
  BY LoadsStay DEF OlderArrives
<1> DEFINE both == Reconciled(view.text[shown], streams[shown])
<1>2. both \in {view.text[shown], streams[shown]}
  BY OneOfTwo
<1> DEFINE n == IF view.owner # shown THEN 1 ELSE IF view.pages < MaxPages THEN view.pages + 1 ELSE MaxPages
<1>3. n \in 0..MaxPages /\ (view.owner = shown => n >= view.pages)
  <2>1. view.pages \in 0..MaxPages
    BY DEF ViewInv, ViewTypeOK
  <2>2. MaxPages \in Nat \ {0}
    BY DEF ViewAssumption
  <2> QED BY <2>1, <2>2
<1>4. older' = NoOlder \/ older' = [phase |-> "previews", fresh |-> TRUE, pages |-> n, text |-> both]
  BY DEF OlderArrives
<1> HIDE DEF n, both
<1>5. shown \in Chats /\ both \subseteq 1..emitted[shown] /\ both \subseteq Pieces
  BY <1>2 DEF ViewInv, ViewTypeOK, PiecesSent
<1>9. older' \in [phase : {"off", "page", "previews"}, fresh : BOOLEAN, pages : 0..MaxPages, text : SUBSET Pieces]
  <2>1. MaxPages \in Nat
    BY DEF ViewAssumption
  <2>2. 0 \in 0..MaxPages /\ {} \in SUBSET Pieces /\ both \in SUBSET Pieces /\ n \in 0..MaxPages
    BY <1>3, <1>5, <2>1
  <2> HIDE DEF n, both
  <2>3. CASE older' = NoOlder
    BY <2>2, <2>3 DEF NoOlder
  <2>4. CASE older' = [phase |-> "previews", fresh |-> TRUE, pages |-> n, text |-> both]
    BY <2>2, <2>4
  <2> QED BY <1>4, <2>3, <2>4
<1>6. ViewTypeOK'
  BY <1>9 DEF ViewInv, ViewTypeOK, OlderArrives
<1>7. PiecesSent'
  BY DEF ViewInv, PiecesSent, OlderArrives
<1>8. OlderAdds'
  BY <1>3, <1>4, <1>5 DEF OlderAdds, OlderArrives, NoOlder
<1> QED BY <1>1, <1>6, <1>7, <1>8 DEF ViewInv

\* A new piece is shown at once when its task is in view, and waits for the load
\* otherwise.
LEMMA AssistantDeltaKeeps ==
  ASSUME ViewAssumption, ViewInv, NEW t \in Chats, AssistantDelta(t) PROVE ViewInv'
<1> DEFINE e == emitted[t]
           text == view.text[t] \cup {e + 1}
<1>0. emitted \in [Chats -> 0..MaxDeltas] /\ e \in Nat /\ MaxDeltas \in Nat /\ e + 1 \in 0..MaxDeltas
  <2>1. emitted \in [Chats -> 0..MaxDeltas] /\ MaxDeltas \in Nat
    BY DEF ViewInv, ViewTypeOK, ViewAssumption
  <2>2. e < MaxDeltas
    BY DEF AssistantDelta
  <2>3. e \in 0..MaxDeltas
    BY <2>1
  <2> HIDE DEF e
  <2> QED BY <2>1, <2>2, <2>3
<1>1. emitted' = [emitted EXCEPT ![t] = e + 1]
  BY DEF AssistantDelta
<1>2. \A u \in Chats : emitted[u] \in Nat /\ emitted'[u] \in 0..MaxDeltas /\ emitted[u] <= emitted'[u]
  BY <1>0, <1>1
<1>3. \A u \in Chats : 0..emitted[u] \subseteq 0..emitted'[u] /\ 1..emitted[u] \subseteq 1..emitted'[u]
  BY <1>2
<1>4. text \subseteq 1..emitted'[t]
  <2>1. view.text[t] \subseteq 1..e /\ emitted'[t] = e + 1
    BY <1>0, <1>1 DEF ViewInv, PiecesSent
  <2> QED BY <1>0, <2>1
<1>5. text \subseteq Pieces
  <2>1. emitted'[t] \in 0..MaxDeltas
    BY <1>2
  <2> QED BY <1>0, <1>4, <2>1 DEF Pieces
<1>6. \/ UNCHANGED <<view, streams>>
      \/ view' = [view EXCEPT !.text[t] = text] /\ streams' = [streams EXCEPT ![t] = text]
  BY DEF AssistantDelta
<1> HIDE DEF text, e
<1>7. /\ view.text \in [Chats -> SUBSET Pieces] /\ streams \in [Chats -> SUBSET Pieces]
      /\ view \in [owner : Chats, text : [Chats -> SUBSET Pieces], pages : 0..MaxPages, cursor : BOOLEAN]
  BY DEF ViewInv, ViewTypeOK
<1>8. /\ view' \in [owner : Chats, text : [Chats -> SUBSET Pieces], pages : 0..MaxPages, cursor : BOOLEAN]
      /\ streams' \in [Chats -> SUBSET Pieces]
      /\ view'.pages = view.pages /\ view'.owner = view.owner
      /\ \A u \in Chats : /\ view'.text[u] = view.text[u] \/ (u = t /\ view'.text[u] = text)
                          /\ streams'[u] = streams[u] \/ (u = t /\ streams'[u] = text)
  <2>1. CASE UNCHANGED <<view, streams>>
    <3>1. view' = view /\ streams' = streams
      BY <2>1
    <3> QED BY <1>7, <3>1
  <2>2. CASE view' = [view EXCEPT !.text[t] = text] /\ streams' = [streams EXCEPT ![t] = text]
    <3>1. [view.text EXCEPT ![t] = text] \in [Chats -> SUBSET Pieces]
      BY <1>5, <1>7
    <3>2. view' = [view EXCEPT !.text = [view.text EXCEPT ![t] = text]]
      BY <2>2
    <3>3. /\ view' \in [owner : Chats, text : [Chats -> SUBSET Pieces], pages : 0..MaxPages, cursor : BOOLEAN]
          /\ view'.pages = view.pages /\ view'.owner = view.owner /\ view'.text = [view.text EXCEPT ![t] = text]
      BY <1>7, <3>1, <3>2
    <3>4. streams' \in [Chats -> SUBSET Pieces]
      BY <1>5, <1>7, <2>2
    <3>5. \A u \in Chats : view'.text[u] = IF u = t THEN text ELSE view.text[u]
      BY <1>7, <3>3
    <3>6. \A u \in Chats : streams'[u] = IF u = t THEN text ELSE streams[u]
      BY <1>7, <2>2
    <3> QED BY <3>3, <3>4, <3>5, <3>6
  <2> QED BY <1>6, <2>1, <2>2
<1>9. UNCHANGED <<shown, stored, loads, older, refresh>>
  BY DEF AssistantDelta
<1>10. ViewTypeOK'
  BY <1>0, <1>2, <1>1, <1>8, <1>9 DEF ViewInv, ViewTypeOK
<1>11. LoadsOK'
  <2>1. ASSUME NEW i \in 1..Len(loads) PROVE OneLoad(loads[i])'
    <3>1. loads[i] \in Load /\ OneLoad(loads[i])
      BY DEF ViewInv, LoadsOK
    <3>2. loads[i].task \in Chats
      BY <3>1 DEF Load
    <3>3. OneLoad(loads[i])' = \E m \in 0..emitted'[loads[i].task] : loads[i].page = 1..m
      BY <1>9 DEF OneLoad
    <3> QED BY <1>3, <3>1, <3>2, <3>3 DEF OneLoad
  <2> QED BY <1>9, <2>1 DEF ViewInv, LoadsOK
<1>12. PiecesSent'
  <2> SUFFICES ASSUME NEW u \in Chats
               PROVE  /\ stored[u] <= emitted'[u]
                      /\ view'.text[u] \subseteq 1..emitted'[u] /\ streams'[u] \subseteq 1..emitted'[u]
    BY <1>9 DEF PiecesSent
  <2>1. stored[u] <= emitted[u] /\ view.text[u] \subseteq 1..emitted[u] /\ streams[u] \subseteq 1..emitted[u]
    BY DEF ViewInv, PiecesSent
  <2>2. stored[u] \in Nat
    BY DEF ViewInv, ViewTypeOK
  <2>3. emitted[u] \in Nat /\ emitted'[u] \in Nat /\ emitted[u] <= emitted'[u] /\ 1..emitted[u] \subseteq 1..emitted'[u]
    BY <1>2, <1>3
  <2>4. view'.text[u] \subseteq 1..emitted'[u]
    BY <1>4, <1>8, <2>1, <2>3
  <2>5. streams'[u] \subseteq 1..emitted'[u]
    BY <1>4, <1>8, <2>1, <2>3
  <2> QED BY <2>1, <2>2, <2>3, <2>4, <2>5
<1>13. OlderAdds'
  <2>1. shown \in Chats
    BY DEF ViewInv, ViewTypeOK
  <2>2. 1..emitted[shown] \subseteq 1..emitted'[shown]
    BY <1>3, <2>1
  <2> QED BY <1>8, <1>9, <2>2 DEF ViewInv, OlderAdds
<1> QED BY <1>10, <1>11, <1>12, <1>13 DEF ViewInv

\* What the page of a load makes of the loads and of the streams.
LEMMA PageArrivesKeeps ==
  ASSUME ViewAssumption, ViewInv, NEW i \in DOMAIN loads, PageArrives(i) PROVE ViewInv'
<1> DEFINE t == loads[i].task
           page == 1..stored[t]
<1>0. loads \in Seq(Load) /\ DOMAIN loads = 1..Len(loads) /\ i \in 1..Len(loads)
  BY DEF ViewInv, LoadsOK
<1>1. loads[i] \in Load /\ t \in Chats
  <2>1. loads[i] \in Load
    BY <1>0
  <2> QED BY <2>1 DEF Load
<1>2. /\ stored[t] \in Nat /\ emitted[t] \in Nat /\ stored[t] <= emitted[t] /\ emitted[t] \in 0..MaxDeltas
      /\ MaxDeltas \in Nat
  BY <1>1 DEF ViewInv, ViewTypeOK, PiecesSent, ViewAssumption
<1>3. stored[t] \in 0..emitted[t] /\ page \in SUBSET Pieces
  BY <1>2 DEF Pieces
<1>4. loads' = [loads EXCEPT ![i].phase = "previews", ![i].page = page]
  BY DEF PageArrives
<1>5. UNCHANGED <<shown, emitted, stored, view, older, refresh>>
  BY DEF PageArrives
<1>6. \E merged : streams' = [streams EXCEPT ![t] = IF merged # {} /\ Persisted(merged, streams[t]) THEN {} ELSE streams[t]]
  BY DEF PageArrives
<1>7. streams' \in [Chats -> SUBSET Pieces] /\ \A u \in Chats : streams'[u] = streams[u] \/ streams'[u] = {}
  <2>1. streams \in [Chats -> SUBSET Pieces] /\ {} \in SUBSET Pieces
    BY DEF ViewInv, ViewTypeOK
  <2> QED BY <1>1, <1>6, <2>1
<1> DEFINE new == [loads[i] EXCEPT !.phase = "previews", !.page = page]
<1>8. loads' = [loads EXCEPT ![i] = new]
  BY <1>4
<1>9. new \in Load /\ new.fresh = loads[i].fresh /\ new.task = t /\ new.page = page
  BY <1>1, <1>3 DEF Load
<1> HIDE DEF new
<1>10. loads' \in Seq(Load) /\ Len(loads') = Len(loads) /\ \A j \in 1..Len(loads) : loads'[j] = IF j = i THEN new ELSE loads[j]
  BY <1>0, <1>8, <1>9
<1>11. LoadsOK'
  <2>1. ASSUME NEW j \in 1..Len(loads) PROVE OneLoad(loads[j])' /\ loads'[j].fresh = loads[j].fresh
    <3>1. OneLoad(loads[j])
      BY DEF ViewInv, LoadsOK
    <3>2. CASE j = i
      BY <1>3, <1>5, <1>9, <1>10, <3>1, <3>2 DEF OneLoad
    <3>3. CASE j # i
      BY <1>5, <1>10, <3>1, <3>3 DEF OneLoad
    <3> QED BY <3>2, <3>3
  <2> QED BY <1>10, <2>1 DEF ViewInv, LoadsOK
<1>12. ViewTypeOK'
  BY <1>5, <1>7, <1>10 DEF ViewInv, ViewTypeOK
<1>13. PiecesSent' /\ OlderAdds'
  BY <1>5, <1>7 DEF ViewInv, PiecesSent, OlderAdds
<1> QED BY <1>11, <1>12, <1>13 DEF ViewInv

\* The scheduler of the refreshes, when a load is over.
LEMMA RefreshOver ==
  ASSUME ViewInv, NEW i \in DOMAIN loads, Over(i)
  PROVE  refresh' \in [timer : BOOLEAN, inFlight : BOOLEAN, wanted : BOOLEAN]
<1>1. refresh \in [timer : BOOLEAN, inFlight : BOOLEAN, wanted : BOOLEAN]
  BY DEF ViewInv, ViewTypeOK
<1>2. refresh' = refresh \/ refresh' = [refresh EXCEPT !.inFlight = FALSE, !.timer = refresh.timer \/ refresh.wanted]
  BY DEF Over
<1>3. (refresh.timer \/ refresh.wanted) \in BOOLEAN
  BY <1>1
<1> QED BY <1>1, <1>2, <1>3

\* A load that fails is over, and leaves the view as it was.
LEMMA LoadFailsKeeps == ASSUME ViewInv, NEW i \in DOMAIN loads, LoadFails(i) PROVE ViewInv'
<1>0. i \in 1..Len(loads)
  BY DEF ViewInv, LoadsOK
<1>1. LoadsOK'
  BY <1>0, OverKeeps DEF LoadFails, Over
<1>2. ViewTypeOK'
  BY <1>1, RefreshOver DEF ViewInv, ViewTypeOK, LoadsOK, LoadFails
<1>3. PiecesSent' /\ OlderAdds'
  BY DEF ViewInv, PiecesSent, OlderAdds, LoadFails
<1> QED BY <1>1, <1>2, <1>3 DEF ViewInv

\* What the newest load shows: of its task, nothing that was not sent.
LEMMA RebuiltFacts ==
  ASSUME ViewAssumption, ViewInv, NEW i \in 1..Len(loads), NEW t, t = loads[i].task
  PROVE  LET new == Rebuilt(loads[i])
             base == IF loads[i].reset \/ loads[i].page # {} THEN loads[i].page ELSE view.text[t]
         IN /\ new \in [owner : Chats, text : [Chats -> SUBSET Pieces], pages : 0..MaxPages, cursor : BOOLEAN]
            /\ new.owner = t /\ new.pages <= view.pages /\ (view.owner = t \/ new.pages = 0)
            /\ ~loads[i].reset /\ view.owner = t => new.pages = view.pages
            /\ base \subseteq 1..emitted[t]
            /\ new.text[t] = Reconciled(base, streams[t])
            /\ \A u \in Chats : new.text[u] \subseteq 1..emitted[u]
<1> DEFINE base == IF loads[i].reset \/ loads[i].page # {} THEN loads[i].page ELSE view.text[t]
           both == Reconciled(base, streams[t])
           n == IF loads[i].reset \/ view.owner # t THEN 0 ELSE view.pages
<1>1. loads[i] \in Load /\ OneLoad(loads[i]) /\ t \in Chats
  <2>1. loads \in Seq(Load) /\ OneLoad(loads[i])
    BY DEF ViewInv, LoadsOK
  <2>2. loads[i] \in Load
    BY <2>1
  <2> QED BY <2>1, <2>2 DEF Load
<1>2. emitted[t] \in 0..MaxDeltas /\ MaxDeltas \in Nat
  BY <1>1 DEF ViewInv, ViewTypeOK, ViewAssumption
<1>3. loads[i].page \subseteq 1..emitted[t]
  <2>1. PICK m \in 0..emitted[t] : loads[i].page = 1..m
    BY <1>1 DEF OneLoad
  <2> QED BY <1>2, <2>1
<1>4. base \subseteq 1..emitted[t]
  BY <1>1, <1>3 DEF ViewInv, PiecesSent
<1>5. both \in {base, streams[t]}
  BY OneOfTwo
<1>6. both \subseteq 1..emitted[t]
  BY <1>1, <1>4, <1>5 DEF ViewInv, PiecesSent
<1>7. both \in SUBSET Pieces
  BY <1>2, <1>6 DEF Pieces
<1>8. view.pages \in 0..MaxPages /\ MaxPages \in Nat
  BY DEF ViewInv, ViewTypeOK, ViewAssumption
<1>9. n \in 0..MaxPages /\ n <= view.pages /\ (view.owner = t \/ n = 0) /\ (~loads[i].reset /\ view.owner = t => n = view.pages)
  BY <1>8
<1> DEFINE text == [u \in Chats |-> IF u = t THEN both ELSE {}]
<1>10. Rebuilt(loads[i]) = [owner |-> t, text |-> text, pages |-> n, cursor |-> TRUE]
  BY <1>1 DEF Rebuilt
<1> HIDE DEF both, n, base
<1>11. /\ text \in [Chats -> SUBSET Pieces] /\ text[t] = both
       /\ \A u \in Chats : text[u] \subseteq 1..emitted[u]
  BY <1>1, <1>6, <1>7
<1> HIDE DEF text
<1>12. /\ Rebuilt(loads[i]) \in [owner : Chats, text : [Chats -> SUBSET Pieces], pages : 0..MaxPages, cursor : BOOLEAN]
       /\ Rebuilt(loads[i]).owner = t /\ Rebuilt(loads[i]).pages = n /\ Rebuilt(loads[i]).text = text
  BY <1>1, <1>9, <1>10, <1>11
<1>13. Rebuilt(loads[i]).text[t] = both
  BY <1>11, <1>12
<1> QED BY <1>4, <1>9, <1>11, <1>12, <1>13 DEF both, base

\* A load that is committed shows its page and what arrived while it ran.
LEMMA CommitKeeps == ASSUME ViewAssumption, ViewInv, NEW i \in DOMAIN loads, Commit(i) PROVE ViewInv'
<1>0. i \in 1..Len(loads)
  BY DEF ViewInv, LoadsOK
<1>1. LoadsOK'
  BY <1>0, OverKeeps DEF Commit, Over
<1>4. /\ view' \in [owner : Chats, text : [Chats -> SUBSET Pieces], pages : 0..MaxPages, cursor : BOOLEAN]
      /\ view'.pages <= view.pages /\ (view.owner = shown \/ view'.owner # shown \/ view'.pages = 0 \/ view' = view)
      /\ \A u \in Chats : view'.text[u] \subseteq 1..emitted[u]
  <2>1. CASE loads[i].fresh
    <3>1. view' = Rebuilt(loads[i])
      BY <2>1 DEF Commit
    <3>2. /\ view' \in [owner : Chats, text : [Chats -> SUBSET Pieces], pages : 0..MaxPages, cursor : BOOLEAN]
          /\ view'.owner = loads[i].task /\ view'.pages <= view.pages
          /\ view.owner = loads[i].task \/ view'.pages = 0
          /\ \A u \in Chats : view'.text[u] \subseteq 1..emitted[u]
      BY <1>0, <3>1, RebuiltFacts
    <3> QED BY <3>2
  <2>2. CASE ~loads[i].fresh
    <3>1. view' = view
      BY <2>2 DEF Commit
    <3>2. view.pages \in 0..MaxPages /\ MaxPages \in Nat
      BY DEF ViewInv, ViewTypeOK, ViewAssumption
    <3> QED BY <3>1, <3>2 DEF ViewInv, ViewTypeOK, PiecesSent
  <2> QED BY <2>1, <2>2
<1>2. ViewTypeOK'
  BY <1>1, <1>4, RefreshOver DEF ViewInv, ViewTypeOK, LoadsOK, Commit
<1>3. PiecesSent'
  BY <1>4 DEF ViewInv, PiecesSent, Commit
<1>5. OlderAdds'
  <2>1. view.pages \in Nat /\ view'.pages \in Nat /\ older.pages \in Nat
    BY <1>4 DEF ViewInv, ViewTypeOK, ViewAssumption
  <2>2. UNCHANGED <<shown, emitted, older>>
    BY DEF Commit
  <2> QED BY <1>4, <2>1, <2>2 DEF ViewInv, OlderAdds
<1> QED BY <1>1, <1>2, <1>3, <1>5 DEF ViewInv

\* Older messages that are committed are added to what the view holds.
LEMMA CommitOlderKeeps == ASSUME ViewAssumption, ViewInv, CommitOlder PROVE ViewInv'
<1>1. LoadsOK'
  BY LoadsStay DEF CommitOlder
<1>0. shown \in Chats /\ MaxPages \in Nat /\ older.pages \in 0..MaxPages /\ older.text \in SUBSET Pieces
  BY DEF ViewInv, ViewTypeOK, ViewAssumption
<1>4. /\ view' \in [owner : Chats, text : [Chats -> SUBSET Pieces], pages : 0..MaxPages, cursor : BOOLEAN]
      /\ \A u \in Chats : view'.text[u] \subseteq 1..emitted[u]
  <2>1. CASE older.fresh
    <3> DEFINE text == [u \in Chats |-> IF u = shown THEN older.text ELSE {}]
    <3>1. view' = [owner |-> shown, pages |-> older.pages, cursor |-> TRUE, text |-> text]
      BY <2>1 DEF CommitOlder
    <3>2. older.text \subseteq 1..emitted[shown]
      BY <2>1 DEF CommitOlder, ViewInv, OlderAdds
    <3>3. text \in [Chats -> SUBSET Pieces] /\ \A u \in Chats : text[u] \subseteq 1..emitted[u]
      BY <1>0, <3>2
    <3> HIDE DEF text
    <3> QED BY <1>0, <3>1, <3>3
  <2>2. CASE ~older.fresh
    BY <2>2 DEF CommitOlder, ViewInv, ViewTypeOK, PiecesSent
  <2> QED BY <2>1, <2>2
<1>2. ViewTypeOK'
  BY <1>0, <1>4 DEF ViewInv, ViewTypeOK, CommitOlder, NoOlder
<1>3. PiecesSent'
  BY <1>4 DEF ViewInv, PiecesSent, CommitOlder
<1>5. OlderAdds'
  BY DEF OlderAdds, CommitOlder, NoOlder
<1> QED BY <1>1, <1>2, <1>3, <1>5 DEF ViewInv

\* Every step keeps the invariant.
LEMMA ViewStep == ASSUME ViewAssumption, ViewInv, [ViewNext]_viewVars PROVE ViewInv'
<1>1. CASE UNCHANGED viewVars
  <2>1. LoadsOK'
    BY <1>1, LoadsStay DEF viewVars
  <2> QED BY <1>1, <2>1 DEF viewVars, ViewInv, ViewTypeOK, PiecesSent, OlderAdds
<1>2. CASE ViewNext
  BY <1>2, ReloadKeeps, OtherEventKeeps, RefreshFiresKeeps, LoadOlderKeeps, OlderArrivesKeeps,
     CommitOlderKeeps, ShowTaskKeeps, AssistantDeltaKeeps, StorePieceKeeps, PageArrivesKeeps,
     LoadFailsKeeps, CommitKeeps DEF ViewNext
<1> QED BY <1>1, <1>2

\* Of two texts that begin a response, one as long as the other is all of it.
LEMMA AllOfIt ==
  ASSUME NEW n \in Nat, NEW a, a \subseteq 1..n
  PROVE  /\ Reconciled(1..n, a) = 1..n
         /\ Reconciled(a, 1..n) = 1..n
<1>1. IsFiniteSet(1..n) /\ Cardinality(1..n) \in Nat
  BY FS_Interval, FS_CardinalityType
<1>2. IsFiniteSet(a) /\ Cardinality(a) <= Cardinality(1..n) /\ (Cardinality(1..n) = Cardinality(a) => 1..n = a)
  BY <1>1, FS_Subset
<1>3. Cardinality(a) \in Nat
  BY <1>2, FS_CardinalityType
<1>4. Reconciled(1..n, a) = 1..n
  BY <1>1, <1>2 DEF Reconciled
<1>5. Reconciled(a, 1..n) = 1..n
  <2>1. CASE Cardinality(a) >= Cardinality(1..n)
    <3>1. Cardinality(a) = Cardinality(1..n)
      BY <1>1, <1>2, <1>3, <2>1
    <3> QED BY <1>2, <2>1, <3>1 DEF Reconciled
  <2>2. CASE ~(Cardinality(a) >= Cardinality(1..n))
    BY <2>2 DEF Reconciled
  <2> QED BY <2>1, <2>2
<1> QED BY <1>4, <1>5

\* A step after which one load less is under way ends a load.
LEMMA EndsALoad ==
  ASSUME ViewAssumption, ViewInv, ViewNext, NEW k \in DOMAIN loads, loads' = RemoveAt(loads, k)
  PROVE  \E i \in DOMAIN loads : LoadFails(i) \/ Commit(i)
<1>0. loads \in Seq(Load) /\ DOMAIN loads = 1..Len(loads) /\ k \in 1..Len(loads) /\ Len(loads) \in Nat
  BY DEF ViewInv, LoadsOK
<1>1. Len(loads') = Len(loads) - 1
  BY <1>0, RemoveAtFacts
<1>2. ASSUME loads' = loads PROVE FALSE
  BY <1>0, <1>1, <1>2
<1>3. ASSUME NEW t \in Chats, NEW reset \in BOOLEAN, NEW scheduled \in BOOLEAN,
             loads' = WithLoad(t, reset, scheduled)
      PROVE  FALSE
  <2>1. NewRequest(t, loads')
    BY <1>3, WithLoadFacts
  <2> QED BY <1>0, <1>1, <2>1 DEF NewRequest
<1>4. ASSUME NEW i \in DOMAIN loads, PageArrives(i) PROVE FALSE
  <2>1. \E x : loads' = [loads EXCEPT ![i] = x]
    BY <1>4 DEF PageArrives
  <2>2. DOMAIN loads' = DOMAIN loads
    BY <2>1
  <2>3. loads' \in Seq(Load)
    BY <1>0, RemoveAtFacts
  <2>4. DOMAIN loads' = 1..Len(loads')
    BY <2>3
  <2>5. Len(loads) \in 1..Len(loads)
    BY <1>0
  <2> QED BY <1>0, <1>1, <2>2, <2>4, <2>5
<1>5. ASSUME NEW t \in Chats, ShowTask(t) PROVE FALSE
  BY <1>3, <1>5 DEF ShowTask
<1>6. ASSUME RefreshFires PROVE FALSE
  BY <1>3, <1>6 DEF RefreshFires, ViewInv, ViewTypeOK
<1>9. ASSUME NEW t \in Chats, Reload(t) PROVE FALSE
  BY <1>3, <1>9 DEF Reload
<1>7. ASSUME OtherEvent \/ LoadOlder \/ OlderArrives \/ CommitOlder PROVE FALSE
  BY <1>2, <1>7 DEF OtherEvent, LoadOlder, OlderArrives, CommitOlder
<1>8. ASSUME NEW t \in Chats, AssistantDelta(t) \/ StorePiece(t) PROVE FALSE
  BY <1>2, <1>8 DEF AssistantDelta, StorePiece
<1> QED BY <1>4, <1>5, <1>6, <1>7, <1>8, <1>9 DEF ViewNext

\* A load that read all of the response and is not outdated is the one that is over, where no
\* other is over.
LEMMA OnlyOneIsOver ==
  ASSUME ViewInv, NEW k \in DOMAIN loads, NEW i \in DOMAIN loads, loads[k].fresh,
         RemoveAt(loads, k) = RemoveAt(loads, i)
  PROVE  i = k
<1>0. loads \in Seq(Load) /\ DOMAIN loads = 1..Len(loads) /\ i \in 1..Len(loads) /\ k \in 1..Len(loads)
      /\ Len(loads) \in Nat
  BY DEF ViewInv, LoadsOK
<1> DEFINE left == RemoveAt(loads, k)
<1>1. \A j \in 1..Len(loads) - 1 : left[j] = IF j < k THEN loads[j] ELSE loads[j + 1]
  BY <1>0, RemoveAtFacts
<1>2. \A j \in 1..Len(loads) - 1 : left[j] = IF j < i THEN loads[j] ELSE loads[j + 1]
  BY <1>0, RemoveAtFacts
<1> HIDE DEF left
<1>3. \A j \in 1..Len(loads) : loads[j].fresh => j = k
  BY <1>0 DEF ViewInv, LoadsOK
<1>4. CASE k < i
  <2>1. k \in 1..Len(loads) - 1 /\ left[k] = loads[k] /\ left[k] = loads[k + 1] /\ k + 1 \in 1..Len(loads)
    BY <1>0, <1>1, <1>2, <1>4
  <2>2. k + 1 = k
    BY <1>3, <2>1
  <2> QED BY <1>0, <2>2
<1>5. CASE i < k
  <2>1. k - 1 \in 1..Len(loads) - 1 /\ left[k - 1] = loads[k - 1] /\ k - 1 \in 1..Len(loads)
    BY <1>0, <1>1, <1>5
  <2>2. left[k - 1] = loads[(k - 1) + 1] /\ (k - 1) + 1 = k
    BY <1>0, <1>2, <1>5, <2>1
  <2>3. k - 1 = k
    BY <1>3, <2>1, <2>2
  <2> QED BY <1>0, <2>3
<1> QED BY <1>0, <1>4, <1>5

\* A load that read all that was sent shows all of it.
LEMMA AllIsShown ==
  ASSUME ViewAssumption, ViewInv, ViewNext, CommitsAll, shown' = shown, ~StrayLoad
  PROVE  Complete'
<1>1. PICK k \in DOMAIN loads : /\ loads[k].phase = "previews" /\ loads[k].fresh
                                /\ loads[k].page = 1..emitted[shown] /\ loads' = RemoveAt(loads, k)
  BY DEF CommitsAll
<1>2. PICK i \in DOMAIN loads : LoadFails(i) \/ Commit(i)
  BY <1>1, EndsALoad
<1>3. loads' = RemoveAt(loads, i)
  BY <1>2 DEF LoadFails, Commit, Over
<1>4. i = k
  BY <1>1, <1>3, OnlyOneIsOver
<1>5. Commit(k)
  BY <1>1, <1>2, <1>4 DEF LoadFails
<1>6. view' = Rebuilt(loads[k]) /\ emitted' = emitted
  BY <1>1, <1>5 DEF Commit
<1>7. k \in 1..Len(loads)
  BY DEF ViewInv, LoadsOK
<1> DEFINE base == IF loads[k].reset \/ loads[k].page # {} THEN loads[k].page ELSE view.text[shown]
<1>8. /\ view'.owner = shown /\ base \subseteq 1..emitted[shown]
      /\ view'.text[shown] = Reconciled(base, streams[shown])
  <2>1. shown = loads[k].task
    BY <1>1 DEF StrayLoad
  <2> DEFINE t == loads[k].task
             read == IF loads[k].reset \/ loads[k].page # {} THEN loads[k].page ELSE view.text[t]
  <2>2. /\ Rebuilt(loads[k]).owner = t /\ read \subseteq 1..emitted[t]
        /\ Rebuilt(loads[k]).text[t] = Reconciled(read, streams[t])
    BY <1>7, RebuiltFacts
  <2>3. read = base
    BY <2>1
  <2> HIDE DEF read, base
  <2> QED BY <1>6, <2>1, <2>2, <2>3
<1>9. emitted[shown] \in Nat /\ streams[shown] \subseteq 1..emitted[shown]
  BY DEF ViewInv, ViewTypeOK, PiecesSent, ViewAssumption
<1>10. base = 1..emitted[shown]
  <2>1. CASE loads[k].reset \/ loads[k].page # {}
    BY <1>1, <2>1
  <2>2. CASE ~(loads[k].reset \/ loads[k].page # {})
    BY <1>1, <1>8, <2>2
  <2> QED BY <2>1, <2>2
<1> HIDE DEF base
<1>11. Reconciled(base, streams[shown]) = 1..emitted[shown]
  BY <1>9, <1>10, AllOfIt
<1> QED BY <1>6, <1>8, <1>11 DEF Complete

\* What was complete, and whose stream is pending, stays complete.
LEMMA StaysComplete ==
  ASSUME ViewAssumption, ViewInv, ViewNext, shown' = shown, view.owner = shown, Complete,
         streams[shown] = view.text[shown], ~OlderCommits, ~Missed, ~StrayLoad
  PROVE  Complete'
<1>0. shown \in Chats /\ emitted \in [Chats -> 0..MaxDeltas] /\ emitted[shown] \in Nat
  BY DEF ViewInv, ViewTypeOK, ViewAssumption
<1>1. view.text[shown] = 1..emitted[shown] /\ streams[shown] = 1..emitted[shown]
  BY DEF Complete
<1>2. ASSUME view' = view, emitted' = emitted PROVE Complete'
  BY <1>2 DEF Complete
<1>3. ASSUME NEW t \in Chats, AssistantDelta(t) PROVE Complete'
  <2>1. emitted' = [emitted EXCEPT ![t] = emitted[t] + 1]
    BY <1>3 DEF AssistantDelta
  <2>2. CASE t # shown
    BY <1>0, <1>3, <2>1, <2>2 DEF AssistantDelta, Complete
  <2>3. CASE t = shown
    <3>2. emitted'[shown] = emitted[shown] + 1
      BY <1>0, <2>1, <2>3
    <3>6. view' # view
      BY <1>0, <3>2 DEF Missed
    <3>1. view' = [view EXCEPT !.text[shown] = view.text[shown] \cup {emitted[shown] + 1}]
      BY <1>3, <2>3, <3>6 DEF AssistantDelta
    <3>3. 1..(emitted[shown] + 1) = (1..emitted[shown]) \cup {emitted[shown] + 1}
      BY <1>0
    <3>4. view \in [owner : Chats, text : [Chats -> SUBSET Pieces], pages : 0..MaxPages, cursor : BOOLEAN]
      BY DEF ViewInv, ViewTypeOK
    <3>5. view'.owner = view.owner /\ view'.text[shown] = view.text[shown] \cup {emitted[shown] + 1}
      BY <1>0, <3>1, <3>4
    <3> QED BY <1>1, <3>2, <3>3, <3>5 DEF Complete
  <2> QED BY <2>2, <2>3
<1>4. ASSUME NEW i \in DOMAIN loads, Commit(i) PROVE Complete'
  <2>1. CASE loads[i].fresh
    <3>1. i \in 1..Len(loads)
      BY DEF ViewInv, LoadsOK
    <3>2. view' = Rebuilt(loads[i]) /\ emitted' = emitted
      BY <1>4, <2>1 DEF Commit
    <3> DEFINE base == IF loads[i].reset \/ loads[i].page # {} THEN loads[i].page ELSE view.text[shown]
    <3>3. /\ view'.owner = shown /\ base \subseteq 1..emitted[shown]
          /\ view'.text[shown] = Reconciled(base, streams[shown])
      <4>1. shown = loads[i].task
        BY <2>1, <3>1 DEF StrayLoad
      <4> QED BY <3>1, <3>2, <4>1, RebuiltFacts
    <3> HIDE DEF base
    <3>4. Reconciled(base, streams[shown]) = 1..emitted[shown]
      BY <1>0, <1>1, <3>3, AllOfIt
    <3> QED BY <3>2, <3>3, <3>4 DEF Complete
  <2>2. CASE ~loads[i].fresh
    BY <1>2, <1>4, <2>2 DEF Commit
  <2> QED BY <2>1, <2>2
<1>5. ASSUME CommitOlder PROVE FALSE
  BY <1>5 DEF CommitOlder, OlderCommits, NoOlder
<1>6. ASSUME NEW i \in DOMAIN loads, PageArrives(i) \/ LoadFails(i) PROVE Complete'
  BY <1>2, <1>6 DEF PageArrives, LoadFails
<1>7. ASSUME OtherEvent \/ RefreshFires \/ LoadOlder \/ OlderArrives PROVE Complete'
  BY <1>2, <1>7 DEF OtherEvent, RefreshFires, LoadOlder, OlderArrives, Reload
<1>8. ASSUME NEW t \in Chats, StorePiece(t) \/ Reload(t) PROVE Complete'
  BY <1>2, <1>8 DEF StorePiece, Reload
<1>9. ASSUME NEW t \in Chats, ShowTask(t) PROVE FALSE
  BY <1>9 DEF ShowTask
<1> QED BY <1>3, <1>4, <1>5, <1>6, <1>7, <1>8, <1>9 DEF ViewNext

\* Who the view belongs to, and how many pages it has, after a step.
LEMMA OwnerAndPages ==
  ASSUME ViewAssumption, ViewInv, ViewNext
  PROVE  /\ view'.owner # view.owner => view'.owner = shown \/ StrayLoad
         /\ view.owner = shown /\ ~StrayLoad => view'.pages >= view.pages \/ ResetUnderWay
<1>0. view.pages \in Nat /\ view \in [owner : Chats, text : [Chats -> SUBSET Pieces], pages : 0..MaxPages, cursor : BOOLEAN]
  BY DEF ViewInv, ViewTypeOK, ViewAssumption
<1>1. ASSUME view'.owner = view.owner, view'.pages = view.pages
      PROVE  /\ view'.owner # view.owner => view'.owner = shown \/ StrayLoad
             /\ view.owner = shown /\ ~StrayLoad => view'.pages >= view.pages \/ ResetUnderWay
  BY <1>0, <1>1
<1>2. ASSUME NEW i \in DOMAIN loads, Commit(i), loads[i].fresh
      PROVE  /\ view'.owner = shown \/ StrayLoad
             /\ view.owner = shown /\ ~StrayLoad => view'.pages >= view.pages \/ ResetUnderWay
  <2>1. i \in 1..Len(loads)
    BY DEF ViewInv, LoadsOK
  <2>2. view' = Rebuilt(loads[i])
    BY <1>2 DEF Commit
  <2>3. CASE ~StrayLoad
    <3>1. shown = loads[i].task
      BY <1>2, <2>1, <2>3 DEF StrayLoad
    <3>2. view'.owner = shown /\ (~loads[i].reset /\ view.owner = shown => view'.pages = view.pages)
      BY <2>1, <2>2, <3>1, RebuiltFacts
    <3> QED BY <1>0, <1>2, <3>2 DEF ResetUnderWay
  <2> QED BY <2>3
<1>3. ASSUME CommitOlder, older.fresh
      PROVE  view'.owner = shown /\ (view.owner = shown => view'.pages >= view.pages)
  BY <1>3 DEF CommitOlder, ViewInv, OlderAdds
<1>4. ASSUME NEW t \in Chats, AssistantDelta(t) PROVE view'.owner = view.owner /\ view'.pages = view.pages
  <2>1. view' = view \/ \E x : view' = [view EXCEPT !.text = x]
    BY <1>4 DEF AssistantDelta
  <2> QED BY <1>0, <2>1
<1>5. ASSUME NEW t \in Chats, ShowTask(t) PROVE view'.owner = view.owner /\ view'.pages = view.pages
  BY <1>0, <1>5 DEF ShowTask
<1>6. ASSUME \/ OtherEvent \/ RefreshFires \/ LoadOlder \/ OlderArrives
             \/ \E t \in Chats : StorePiece(t) \/ Reload(t)
             \/ \E i \in DOMAIN loads : PageArrives(i) \/ LoadFails(i) \/ (Commit(i) /\ ~loads[i].fresh)
             \/ (CommitOlder /\ ~older.fresh)
      PROVE  view' = view
  BY <1>6 DEF OtherEvent, RefreshFires, LoadOlder, OlderArrives, Reload, StorePiece, PageArrives, LoadFails,
              Commit, CommitOlder
<1> QED BY <1>1, <1>2, <1>3, <1>4, <1>5, <1>6 DEF ViewNext

LEMMA ViewsAreKept == ViewSpec => []ViewInv
<1>1. ViewInit => ViewInv
  BY ViewAssumption, ViewStarts
<1>2. ViewInv /\ [ViewNext]_viewVars => ViewInv'
  BY ViewAssumption, ViewStep
<1> QED BY <1>1, <1>2, PTL DEF ViewSpec

\* ViewKept holds of every run: but for a stray load, the view is filled with the activities of
\* the selected task only, a refresh drops no older page, and what is complete stays complete,
\* but for a piece of a turn that is not the active one and the commit of an older page.
THEOREM TheViewIsKept == ViewSpec => ViewKept
<1>1. ViewInv /\ [ViewNext]_viewVars =>
        [/\ view'.owner # view.owner => view'.owner = shown \/ StrayLoad
         /\ shown' = shown /\ view.owner = shown /\ ~StrayLoad =>
              /\ view'.pages >= view.pages \/ ResetUnderWay
              /\ Complete /\ streams[shown] = view.text[shown] /\ ~OlderCommits /\ ~Missed => Complete'
              /\ CommitsAll => Complete']_viewVars
  BY ViewAssumption, OwnerAndPages, StaysComplete, AllIsShown
<1> QED BY <1>1, ViewsAreKept, PTL DEF ViewSpec, ViewKept

\* The variables of the view of a conversation keep their types.
THEOREM ViewTypeCorrect == ViewSpec => []ViewTypeOK
BY ViewsAreKept, PTL DEF ViewInv

-----------------------------------------------------------------------------
(* The response of a turn in segments *)

\* A cell, of which the length has no bound here.
SomeCell == [seg : Segments, id : {"live", "stored", "replacement"}, len : Nat \ {0},
             phase : {"progress", "final"}, interrupted : BOOLEAN]

\* Apart from its replacement, a segment is one cell.
OnePerSegment(cs) ==
  \A c, d \in cs : c.seg = d.seg /\ c.id # "replacement" /\ d.id # "replacement" => c = d
NotReplaced(cs) == \A c \in cs : c.id # "replacement"

SameCell(c, d) == c.seg = d.seg /\ c.id = d.id
\* No cell of cs is lost or shortened in ds.
Continued(cs, ds) == \A c \in cs : \E d \in ds : SameCell(c, d) /\ c.len <= d.len
\* The cells of ds are those of cs, of the same length.
Alike(cs, ds) ==
  /\ \A c \in cs : \E d \in ds : SameCell(c, d) /\ c.len = d.len
  /\ \A d \in ds : \E c \in cs : SameCell(c, d) /\ c.len = d.len

\* Without a replacement, the length that is shown of a segment is that of its cell.
LEMMA ShownIsTheCell ==
  ASSUME NEW cs \in SUBSET SomeCell, OnePerSegment(cs), NotReplaced(cs), NEW g
  PROVE  /\ \A c \in cs : c.seg = g => ShownLength(cs, g) = c.len
         /\ (\A c \in cs : c.seg # g) => ShownLength(cs, g) = 0
         /\ ShownLength(cs, g) \in Nat
         /\ FindAssistant(cs, g) = {c \in cs : c.seg = g}
<1>1. FindAssistant(cs, g) = {c \in cs : c.seg = g}
  BY DEF FindAssistant, NotReplaced
<1>2. ASSUME NEW c \in cs, c.seg = g PROVE ShownLength(cs, g) = c.len
  <2>1. FindAssistant(cs, g) = {c}
    BY <1>1, <1>2 DEF OnePerSegment, NotReplaced
  <2>2. (CHOOSE x \in {c} : TRUE) = c
    OBVIOUS
  <2> QED BY <2>1, <2>2 DEF ShownLength
<1>3. ASSUME \A c \in cs : c.seg # g PROVE ShownLength(cs, g) = 0
  BY <1>1, <1>3 DEF ShownLength
<1>4. ShownLength(cs, g) \in Nat
  <2>1. CASE \E c \in cs : c.seg = g
    <3>1. PICK c \in cs : c.seg = g
      BY <2>1
    <3>2. c.len \in Nat
      BY DEF SomeCell
    <3> QED BY <1>2, <3>1, <3>2
  <2>2. CASE \A c \in cs : c.seg # g
    BY <1>3, <2>2
  <2> QED BY <2>1, <2>2
<1> QED BY <1>1, <1>2, <1>3, <1>4

\* What has the cells of another set, of the same lengths, is as good as it.
LEMMA AlikeFacts ==
  ASSUME NEW cs \in SUBSET SomeCell, NEW ds \in SUBSET SomeCell, Alike(cs, ds)
  PROVE  /\ Continued(cs, ds)
         /\ NotReplaced(cs) => NotReplaced(ds)
         /\ OnePerSegment(cs) /\ OnePerSegment(ds) /\ NotReplaced(cs) =>
              \A g : ShownLength(ds, g) = ShownLength(cs, g)
<1>1. Continued(cs, ds)
  <2>1. ASSUME NEW c \in cs PROVE \E d \in ds : SameCell(c, d) /\ c.len <= d.len
    <3>1. PICK d \in ds : SameCell(c, d) /\ c.len = d.len
      BY DEF Alike
    <3>2. c.len \in Nat
      BY DEF SomeCell
    <3> QED BY <3>1, <3>2
  <2> QED BY <2>1 DEF Continued
<1>2. NotReplaced(cs) => NotReplaced(ds)
  BY DEF Alike, NotReplaced, SameCell
<1>3. ASSUME OnePerSegment(cs), OnePerSegment(ds), NotReplaced(cs), NEW g
      PROVE  ShownLength(ds, g) = ShownLength(cs, g)
  <2>1. CASE \E c \in cs : c.seg = g
    <3>1. PICK c \in cs : c.seg = g
      BY <2>1
    <3>2. PICK d \in ds : SameCell(c, d) /\ c.len = d.len
      BY DEF Alike
    <3>3. ShownLength(cs, g) = c.len
      BY <1>3, <3>1, ShownIsTheCell
    <3>4. ShownLength(ds, g) = d.len
      BY <1>2, <1>3, <3>1, <3>2, ShownIsTheCell DEF SameCell
    <3> QED BY <3>2, <3>3, <3>4
  <2>2. CASE \A c \in cs : c.seg # g
    <3>1. \A d \in ds : d.seg # g
      BY <2>2 DEF Alike, SameCell
    <3>2. ShownLength(cs, g) = 0
      BY <1>3, <2>2, ShownIsTheCell
    <3>3. ShownLength(ds, g) = 0
      BY <1>2, <1>3, <3>1, ShownIsTheCell
    <3> QED BY <3>2, <3>3
  <2> QED BY <2>1, <2>2
<1> QED BY <1>1, <1>2, <1>3

\* ds: the cells cs with one more piece of a segment.
Lengthened(cs, ds, g, how) ==
  /\ ds \in SUBSET SomeCell
  /\ Continued(cs, ds)
  /\ OnePerSegment(cs) => OnePerSegment(ds)
  /\ \E d \in ds : d.seg = g
  /\ \A d \in ds : \/ \E c \in cs : /\ SameCell(c, d)
                                    /\ (d.len = c.len \/ (d.seg = g /\ d.len = c.len + 1))
                                    /\ (d.seg = g /\ NotReplaced(cs) => d.len = c.len + 1)
                   \/ d.id = how /\ d.seg = g /\ d.len = 1 /\ \A c \in cs : c.seg # g

\* What appending a piece does to the cells of a conversation.
LEMMA AppendDeltaFacts ==
  ASSUME NEW cs \in SUBSET SomeCell, NEW g \in Segments, NEW how \in {"live", "stored"}
  PROVE  Lengthened(cs, AppendDelta(cs, g, how), g, how)
<1> DEFINE ds == AppendDelta(cs, g, how)
           old == FindAssistant(cs, g)
           new == [seg |-> g, id |-> how, len |-> 1, phase |-> "progress", interrupted |-> FALSE]
           longer(c) == [c EXCEPT !.len = c.len + 1, !.phase = "progress"]
<1>1. old \subseteq {c \in cs : c.seg = g} /\ (old = {} => \A c \in cs : c.seg # g)
      /\ (NotReplaced(cs) => \A c \in cs : c.seg = g => c \in old)
  BY DEF FindAssistant, NotReplaced
<1>2. new \in SomeCell /\ new.seg = g /\ new.id = how /\ new.len = 1
  BY DEF SomeCell
<1>3. ASSUME NEW c \in SomeCell
      PROVE  longer(c) \in SomeCell /\ SameCell(c, longer(c)) /\ longer(c).len = c.len + 1 /\ c.len \in Nat
  <2>1. c.len \in Nat /\ c.len + 1 \in Nat \ {0}
    BY DEF SomeCell
  <2> DEFINE n == c.len + 1
  <2>2. longer(c) = [c EXCEPT !.len = n, !.phase = "progress"] /\ n \in Nat \ {0}
    BY <2>1
  <2> HIDE DEF n, longer
  <2>3. longer(c) \in SomeCell
    BY <2>2 DEF SomeCell
  <2>4. longer(c).len = n /\ SameCell(c, longer(c))
    BY <2>2 DEF SomeCell, SameCell
  <2> QED BY <2>1, <2>3, <2>4 DEF n
<1>4. ds = IF old = {} THEN cs \cup {new} ELSE (cs \ old) \cup {longer(c) : c \in old}
  BY DEF AppendDelta
<1>c. \A c \in cs : c \in SomeCell
  OBVIOUS
<1> HIDE DEF ds, old, new, longer
<1>5. CASE old = {}
  <2>1. ds = cs \cup {new} /\ \A c \in cs : c.seg # g
    BY <1>1, <1>4, <1>5
  <2>2. ds \in SUBSET SomeCell
    BY <1>2, <2>1
  <2>3. Continued(cs, ds)
    <3>1. \A c \in cs : c.len <= c.len
      BY <1>c, <1>3
    <3> QED BY <2>1, <3>1 DEF Continued, SameCell
  <2>4. OnePerSegment(cs) => OnePerSegment(ds)
    BY <1>2, <2>1 DEF OnePerSegment
  <2>5. \E d \in ds : d.seg = g
    BY <1>2, <2>1
  <2>6. \A d \in ds : \/ \E c \in cs : /\ SameCell(c, d)
                                       /\ (d.len = c.len \/ (d.seg = g /\ d.len = c.len + 1))
                                       /\ (d.seg = g /\ NotReplaced(cs) => d.len = c.len + 1)
                      \/ d.id = how /\ d.seg = g /\ d.len = 1 /\ \A c \in cs : c.seg # g
    BY <1>2, <2>1 DEF SameCell
  <2> QED BY <2>2, <2>3, <2>4, <2>5, <2>6 DEF ds, Lengthened
<1>6. CASE old # {}
  <2>1. ds = (cs \ old) \cup {longer(c) : c \in old}
    BY <1>4, <1>6
  <2>2. ds \in SUBSET SomeCell
    BY <1>1, <1>3, <1>c, <2>1
  <2>3. Continued(cs, ds)
    <3>1. ASSUME NEW c \in cs PROVE \E d \in ds : SameCell(c, d) /\ c.len <= d.len
      <4>1. c.len <= c.len /\ c.len <= c.len + 1
        BY <1>c, <1>3
      <4>2. CASE c \in old
        BY <1>c, <1>3, <2>1, <4>1, <4>2
      <4>3. CASE c \notin old
        BY <2>1, <4>1, <4>3 DEF SameCell
      <4> QED BY <4>2, <4>3
    <3> QED BY <3>1 DEF Continued
  <2>4. ASSUME NEW d \in ds
        PROVE  \E c \in cs : /\ SameCell(c, d)
                             /\ \/ d = c /\ c \notin old
                                \/ d = longer(c) /\ c \in old
    BY <1>1, <1>3, <1>c, <2>1 DEF SameCell
  <2>5. OnePerSegment(cs) => OnePerSegment(ds)
    <3> SUFFICES ASSUME OnePerSegment(cs), NEW d \in ds, NEW e \in ds, d.seg = e.seg,
                        d.id # "replacement", e.id # "replacement"
                 PROVE  d = e
      BY DEF OnePerSegment
    <3>1. PICK c \in cs : SameCell(c, d) /\ ((d = c /\ c \notin old) \/ (d = longer(c) /\ c \in old))
      BY <2>4
    <3>2. PICK b \in cs : SameCell(b, e) /\ ((e = b /\ b \notin old) \/ (e = longer(b) /\ b \in old))
      BY <2>4
    <3>3. b = c
      BY <3>1, <3>2 DEF OnePerSegment, SameCell
    <3> QED BY <3>1, <3>2, <3>3
  <2>6. \E d \in ds : d.seg = g
    BY <1>1, <1>3, <1>6, <1>c, <2>1 DEF SameCell
  <2>7. ASSUME NEW d \in ds
        PROVE  \E c \in cs : /\ SameCell(c, d)
                             /\ (d.len = c.len \/ (d.seg = g /\ d.len = c.len + 1))
                             /\ (d.seg = g /\ NotReplaced(cs) => d.len = c.len + 1)
    <3>1. PICK c \in cs : SameCell(c, d) /\ ((d = c /\ c \notin old) \/ (d = longer(c) /\ c \in old))
      BY <2>4
    <3> QED BY <1>1, <1>3, <1>c, <3>1 DEF SameCell
  <2> QED BY <2>2, <2>3, <2>5, <2>6, <2>7 DEF ds, Lengthened
<1> QED BY <1>5, <1>6

\* The phase of a segment is marked: no cell is lost, and none becomes longer.
LEMMA MarkFacts ==
  ASSUME NEW cs \in SUBSET SomeCell, NEW g, NEW phase \in {"progress", "final"}
  PROVE  LET ds == MarkPhase(cs, g, phase)
         IN /\ ds \in SUBSET SomeCell /\ Alike(cs, ds)
            /\ OnePerSegment(cs) => OnePerSegment(ds)
<1> DEFINE ds == MarkPhase(cs, g, phase)
           old == FindAssistant(cs, g)
           new(c) == [c EXCEPT !.phase = phase]
<1>1. old \subseteq cs
  BY DEF FindAssistant
<1>2. ASSUME NEW c \in cs PROVE new(c) \in SomeCell /\ SameCell(c, new(c)) /\ new(c).len = c.len
  BY DEF SomeCell, SameCell
<1>3. ds = (cs \ old) \cup {new(c) : c \in old}
  BY DEF MarkPhase
<1> HIDE DEF ds, old, new
<1>4. ds \in SUBSET SomeCell
  BY <1>1, <1>2, <1>3
<1>5. ASSUME NEW d \in ds
      PROVE  \E c \in cs : /\ SameCell(c, d) /\ c.len = d.len
                           /\ (d = c /\ c \notin old) \/ (d = new(c) /\ c \in old)
  BY <1>1, <1>2, <1>3 DEF SameCell
<1>6. ASSUME NEW c \in cs PROVE \E d \in ds : SameCell(c, d) /\ c.len = d.len
  <2>1. CASE c \in old
    BY <1>2, <1>3, <2>1
  <2>2. CASE c \notin old
    BY <1>3, <2>2 DEF SameCell
  <2> QED BY <2>1, <2>2
<1>7. OnePerSegment(cs) => OnePerSegment(ds)
  <2> SUFFICES ASSUME OnePerSegment(cs), NEW d \in ds, NEW e \in ds, d.seg = e.seg,
                      d.id # "replacement", e.id # "replacement"
               PROVE  d = e
    BY DEF OnePerSegment
  <2>1. PICK c \in cs : SameCell(c, d) /\ ((d = c /\ c \notin old) \/ (d = new(c) /\ c \in old))
    BY <1>5
  <2>2. PICK b \in cs : SameCell(b, e) /\ ((e = b /\ b \notin old) \/ (e = new(b) /\ b \in old))
    BY <1>5
  <2>3. b = c
    BY <2>1, <2>2 DEF OnePerSegment, SameCell
  <2> QED BY <2>1, <2>2, <2>3
<1>8. Alike(cs, ds)
  BY <1>5, <1>6 DEF Alike
<1> QED BY <1>4, <1>7, <1>8 DEF ds

\* A turn that fails interrupts its cells.
LEMMA InterruptFacts ==
  ASSUME NEW cs \in SUBSET SomeCell
  PROVE  LET ds == MarkInterrupted(cs)
         IN /\ ds \in SUBSET SomeCell /\ Alike(cs, ds)
            /\ OnePerSegment(cs) => OnePerSegment(ds)
<1> DEFINE ds == MarkInterrupted(cs)
           new(c) == [c EXCEPT !.interrupted = c.interrupted \/ c.phase = "progress"]
<1>1. ASSUME NEW c \in cs PROVE new(c) \in SomeCell /\ SameCell(c, new(c)) /\ new(c).len = c.len
  BY DEF SomeCell, SameCell
<1>2. ds = {new(c) : c \in cs}
  BY DEF MarkInterrupted
<1> HIDE DEF ds, new
<1>3. OnePerSegment(cs) => OnePerSegment(ds)
  <2> SUFFICES ASSUME OnePerSegment(cs), NEW d \in ds, NEW e \in ds, d.seg = e.seg,
                      d.id # "replacement", e.id # "replacement"
               PROVE  d = e
    BY DEF OnePerSegment
  <2>1. PICK c \in cs : d = new(c)
    BY <1>2
  <2>2. PICK b \in cs : e = new(b)
    BY <1>2
  <2>3. b = c
    BY <1>1, <2>1, <2>2 DEF OnePerSegment, SameCell
  <2> QED BY <2>1, <2>2, <2>3
<1>4. ds \in SUBSET SomeCell /\ Alike(cs, ds)
  BY <1>1, <1>2 DEF Alike
<1> QED BY <1>3, <1>4 DEF ds

\* A response that is replaced stays in the store, as progress.
WithReplacement(cs, g) == {[c EXCEPT !.phase = "progress"] : c \in cs} \cup {ReplacementOf(g)}

\* A replacement demotes what it replaces and adds one cell of its own.
LEMMA ReplaceFacts ==
  ASSUME NEW cs \in SUBSET SomeCell, NEW g \in Segments
  PROVE  /\ WithReplacement(cs, g) \in SUBSET SomeCell /\ Continued(cs, WithReplacement(cs, g))
         /\ OnePerSegment(cs) => OnePerSegment(WithReplacement(cs, g))
         /\ \A d \in WithReplacement(cs, g) : (\E c \in cs : SameCell(c, d)) \/ d = ReplacementOf(g)
<1> DEFINE new(c) == [c EXCEPT !.phase = "progress"]
           ds == {new(c) : c \in cs} \cup {ReplacementOf(g)}
<1>1. ASSUME NEW c \in cs PROVE new(c) \in SomeCell /\ SameCell(c, new(c)) /\ c.len <= new(c).len
  BY DEF SomeCell, SameCell
<1>2. ReplacementOf(g) \in SomeCell /\ ReplacementOf(g).id = "replacement"
  BY DEF ReplacementOf, SomeCell
<1> HIDE DEF new
<1>3. OnePerSegment(cs) => OnePerSegment(ds)
  <2> SUFFICES ASSUME OnePerSegment(cs), NEW d \in ds, NEW e \in ds, d.seg = e.seg,
                      d.id # "replacement", e.id # "replacement"
               PROVE  d = e
    BY DEF OnePerSegment
  <2>1. PICK c \in cs : d = new(c)
    BY <1>2
  <2>2. PICK b \in cs : e = new(b)
    BY <1>2
  <2>3. b = c
    BY <1>1, <2>1, <2>2 DEF OnePerSegment, SameCell
  <2> QED BY <2>1, <2>2, <2>3
<1>4. ds \in SUBSET SomeCell /\ Continued(cs, ds)
  BY <1>1, <1>2 DEF Continued
<1>5. \A d \in ds : (\E c \in cs : SameCell(c, d)) \/ d = ReplacementOf(g)
  BY <1>1
<1> QED BY <1>3, <1>4, <1>5 DEF new, WithReplacement

-----------------------------------------------------------------------------
(* What an event makes of the cells *)

\* What the store makes of an event: it loses nothing, and has a cell of each segment of which it
\* takes a piece.
StoredSo(cs, ds, e) ==
  /\ ds \in SUBSET SomeCell
  /\ Continued(cs, ds)
  /\ OnePerSegment(cs) => OnePerSegment(ds)
  /\ \A d \in ds : \/ \E c \in cs : SameCell(c, d)
                   \/ d.id = "stored"
                   \/ d.id = "replacement" /\ e.what = "replaced"
  /\ e.what = "delta" => \E d \in ds : d.seg = e.seg
  /\ e.what = "replaced" => \E d \in ds : d.seg = e.seg /\ d.id = "replacement"

\* What recording an event does to the cells the store holds.
LEMMA InStoreFacts ==
  ASSUME NEW cs \in SUBSET SomeCell, NEW e \in SegEvent
  PROVE  StoredSo(cs, InStore(cs, e), e)
<1>1. e.seg \in Segments /\ e.what \in {"delta", "progress", "final", "replaced", "failed"}
  BY DEF SegEvent
<1>2. CASE e.what = "delta"
  <2>1. InStore(cs, e) = AppendDelta(cs, e.seg, "stored")
    BY <1>2 DEF InStore
  <2>2. Lengthened(cs, InStore(cs, e), e.seg, "stored")
    BY <1>1, <2>1, AppendDeltaFacts
  <2> QED BY <1>2, <2>2 DEF Lengthened, StoredSo
<1>3. CASE e.what \in {"progress", "final"}
  <2>1. InStore(cs, e) = MarkPhase(cs, e.seg, e.what)
    BY <1>3 DEF InStore
  <2>2. /\ InStore(cs, e) \in SUBSET SomeCell /\ Alike(cs, InStore(cs, e))
        /\ OnePerSegment(cs) => OnePerSegment(InStore(cs, e))
    BY <1>3, <2>1, MarkFacts
  <2>3. Continued(cs, InStore(cs, e))
    BY <2>2, AlikeFacts
  <2> QED BY <1>3, <2>2, <2>3 DEF Alike, StoredSo
<1>4. CASE e.what = "failed"
  <2>1. InStore(cs, e) = MarkInterrupted(cs)
    BY <1>4 DEF InStore
  <2>2. /\ InStore(cs, e) \in SUBSET SomeCell /\ Alike(cs, InStore(cs, e))
        /\ OnePerSegment(cs) => OnePerSegment(InStore(cs, e))
    BY <2>1, InterruptFacts
  <2>3. Continued(cs, InStore(cs, e))
    BY <2>2, AlikeFacts
  <2> QED BY <1>4, <2>2, <2>3 DEF Alike, StoredSo
<1>5. CASE e.what = "replaced"
  <2>1. InStore(cs, e) = WithReplacement(cs, e.seg)
    BY <1>5 DEF InStore, WithReplacement
  <2>2. /\ InStore(cs, e) \in SUBSET SomeCell /\ Continued(cs, InStore(cs, e))
        /\ OnePerSegment(cs) => OnePerSegment(InStore(cs, e))
        /\ \A d \in InStore(cs, e) : (\E c \in cs : SameCell(c, d)) \/ d = ReplacementOf(e.seg)
    BY <1>1, <2>1, ReplaceFacts
  <2>3. ReplacementOf(e.seg) \in InStore(cs, e)
    BY <2>1 DEF WithReplacement
  <2>4. ReplacementOf(e.seg).seg = e.seg /\ ReplacementOf(e.seg).id = "replacement"
    BY DEF ReplacementOf
  <2> HIDE DEF ReplacementOf
  <2> QED BY <1>5, <2>2, <2>3, <2>4 DEF StoredSo
<1> QED BY <1>1, <1>2, <1>3, <1>4, <1>5

\* The length that is shown of a segment, after a piece and after another event.
LEMMA LengthAfterDelta ==
  ASSUME NEW cs \in SUBSET SomeCell, OnePerSegment(cs), NotReplaced(cs),
         NEW g \in Segments, NEW how \in {"live", "stored"}
  PROVE  /\ NotReplaced(AppendDelta(cs, g, how))
         /\ \A h : ShownLength(AppendDelta(cs, g, how), h) = ShownLength(cs, h) + (IF h = g THEN 1 ELSE 0)
<1> DEFINE ds == AppendDelta(cs, g, how)
<1>1. Lengthened(cs, ds, g, how)
  BY AppendDeltaFacts
<1> HIDE DEF ds
<1>2. ds \in SUBSET SomeCell /\ OnePerSegment(ds) /\ NotReplaced(ds)
  BY <1>1 DEF Lengthened, NotReplaced, SameCell
<1>3. ASSUME NEW h PROVE ShownLength(ds, h) = ShownLength(cs, h) + (IF h = g THEN 1 ELSE 0)
  <2>1. CASE \E d \in ds : d.seg = h
    <3>1. PICK d \in ds : d.seg = h
      BY <2>1
    <3>2. ShownLength(ds, h) = d.len
      BY <1>2, <3>1, ShownIsTheCell
    <3>3. CASE \E c \in cs : SameCell(c, d)
      <4>1. PICK c \in cs : /\ SameCell(c, d)
                            /\ (d.len = c.len \/ (d.seg = g /\ d.len = c.len + 1))
                            /\ (d.seg = g /\ NotReplaced(cs) => d.len = c.len + 1)
        BY <1>1, <3>3 DEF Lengthened, SameCell
      <4>2. ShownLength(cs, h) = c.len /\ c.len \in Nat
        BY <3>1, <4>1, ShownIsTheCell DEF SameCell, SomeCell
      <4> QED BY <3>1, <3>2, <4>1, <4>2
    <3>4. CASE ~\E c \in cs : SameCell(c, d)
      <4>1. d.seg = g /\ d.len = 1 /\ \A c \in cs : c.seg # g
        BY <1>1, <3>4 DEF Lengthened
      <4>2. ShownLength(cs, h) = 0
        BY <3>1, <4>1, ShownIsTheCell
      <4> QED BY <3>1, <3>2, <4>1, <4>2
    <3> QED BY <3>3, <3>4
  <2>2. CASE \A d \in ds : d.seg # h
    <3>1. \A c \in cs : c.seg # h
      BY <1>1, <2>2 DEF Lengthened, Continued, SameCell
    <3>2. h # g
      BY <1>1, <2>2 DEF Lengthened
    <3>3. ShownLength(cs, h) = 0 /\ ShownLength(ds, h) = 0
      BY <1>2, <2>2, <3>1, ShownIsTheCell
    <3> QED BY <3>2, <3>3
  <2> QED BY <2>1, <2>2
<1> QED BY <1>2, <1>3 DEF ds

\* What the store holds of each segment, after an event that replaces nothing.
LEMMA LengthInStore ==
  ASSUME NEW cs \in SUBSET SomeCell, OnePerSegment(cs), NotReplaced(cs), NEW e \in SegEvent, e.what # "replaced"
  PROVE  /\ NotReplaced(InStore(cs, e))
         /\ \A g \in Segments : ShownLength(InStore(cs, e), g)
              = ShownLength(cs, g) + (IF e = [what |-> "delta", seg |-> g] THEN 1 ELSE 0)
<1>0. /\ e.seg \in Segments /\ e.what \in {"delta", "progress", "final", "replaced", "failed"}
      /\ \A g : e = [what |-> "delta", seg |-> g] <=> e.what = "delta" /\ e.seg = g
  BY DEF SegEvent
<1>n. \A g : ShownLength(cs, g) \in Nat
  BY ShownIsTheCell
<1>1. CASE e.what = "delta"
  <2>1. InStore(cs, e) = AppendDelta(cs, e.seg, "stored")
    BY <1>1 DEF InStore
  <2> QED BY <1>0, <1>1, <2>1, LengthAfterDelta
<1>2. CASE e.what # "delta"
  <2>1. /\ InStore(cs, e) \in SUBSET SomeCell /\ Alike(cs, InStore(cs, e)) /\ OnePerSegment(InStore(cs, e))
    <3>1. CASE e.what \in {"progress", "final"}
      <4>1. InStore(cs, e) = MarkPhase(cs, e.seg, e.what)
        BY <3>1 DEF InStore
      <4> QED BY <3>1, <4>1, MarkFacts
    <3>2. CASE e.what = "failed"
      <4>1. InStore(cs, e) = MarkInterrupted(cs)
        BY <3>2 DEF InStore
      <4> QED BY <4>1, InterruptFacts
    <3> QED BY <1>0, <1>2, <3>1, <3>2
  <2>2. NotReplaced(InStore(cs, e)) /\ \A g : ShownLength(InStore(cs, e), g) = ShownLength(cs, g)
    BY <2>1, AlikeFacts
  <2> QED BY <1>0, <1>2, <1>n, <2>2
<1> QED BY <1>1, <1>2

-----------------------------------------------------------------------------
(* The pieces that the store has not taken yet *)

Piece(g) == [what |-> "delta", seg |-> g]
PiecesIn(q, g) == {i \in DOMAIN q : q[i] = Piece(g)}

\* The pieces of a segment in a queue can be counted.
LEMMA PiecesFinite ==
  ASSUME NEW q \in Seq(SegEvent), NEW g
  PROVE  IsFiniteSet(PiecesIn(q, g)) /\ Cardinality(PiecesIn(q, g)) \in Nat
<1>1. DOMAIN q = 1..Len(q) /\ Len(q) \in Nat
  OBVIOUS
<1>2. IsFiniteSet(1..Len(q))
  BY <1>1, FS_Interval
<1>3. PiecesIn(q, g) \subseteq 1..Len(q)
  BY <1>1 DEF PiecesIn
<1> QED BY <1>2, <1>3, FS_Subset, FS_CardinalityType

\* An event is sent.
LEMMA PiecesOfAppend ==
  ASSUME NEW q \in Seq(SegEvent), NEW e \in SegEvent, NEW g
  PROVE  Cardinality(PiecesIn(Append(q, e), g)) = Cardinality(PiecesIn(q, g)) + (IF e = Piece(g) THEN 1 ELSE 0)
<1>1. /\ DOMAIN q = 1..Len(q) /\ DOMAIN Append(q, e) = 1..(Len(q) + 1) /\ Len(q) \in Nat
      /\ \A i \in 1..Len(q) : Append(q, e)[i] = q[i]
      /\ Append(q, e)[Len(q) + 1] = e
  OBVIOUS
<1>2. 1..(Len(q) + 1) = (1..Len(q)) \cup {Len(q) + 1} /\ Len(q) + 1 \notin 1..Len(q)
  BY <1>1
<1>3. PiecesIn(Append(q, e), g) = PiecesIn(q, g) \cup (IF e = Piece(g) THEN {Len(q) + 1} ELSE {})
  BY <1>1, <1>2 DEF PiecesIn
<1>4. Len(q) + 1 \notin PiecesIn(q, g)
  BY <1>1, <1>2 DEF PiecesIn
<1>5. IsFiniteSet(PiecesIn(q, g)) /\ Cardinality(PiecesIn(q, g)) \in Nat
  BY PiecesFinite
<1>6. CASE e = Piece(g)
  <2>1. PiecesIn(Append(q, e), g) = PiecesIn(q, g) \cup {Len(q) + 1}
    BY <1>3, <1>6
  <2> QED BY <1>4, <1>5, <1>6, <2>1, FS_AddElement
<1>7. CASE e # Piece(g)
  <2>1. PiecesIn(Append(q, e), g) = PiecesIn(q, g)
    BY <1>3, <1>7
  <2> QED BY <1>5, <1>7, <2>1
<1> QED BY <1>6, <1>7

\* The first event is taken by the store.
LEMMA PiecesOfTail ==
  ASSUME NEW q \in Seq(SegEvent), q # <<>>, NEW g
  PROVE  Cardinality(PiecesIn(q, g)) = Cardinality(PiecesIn(Tail(q), g)) + (IF Head(q) = Piece(g) THEN 1 ELSE 0)
<1>1. /\ DOMAIN q = 1..Len(q) /\ DOMAIN Tail(q) = 1..(Len(q) - 1) /\ Len(q) \in Nat /\ Len(q) >= 1
      /\ \A i \in 1..(Len(q) - 1) : Tail(q)[i] = q[i + 1]
      /\ Head(q) = q[1] /\ Tail(q) \in Seq(SegEvent)
  OBVIOUS
<1> DEFINE A == PiecesIn(Tail(q), g)
           B == PiecesIn(q, g) \ {1}
           f == [i \in A |-> i + 1]
<1>2. IsFiniteSet(A) /\ IsFiniteSet(PiecesIn(q, g)) /\ Cardinality(A) \in Nat
  BY <1>1, PiecesFinite
<1>3. \A i \in A : i \in 1..(Len(q) - 1) /\ Tail(q)[i] = Piece(g)
  BY <1>1 DEF PiecesIn
<1>4. \A i \in A : i + 1 \in B
  BY <1>1, <1>3 DEF PiecesIn
<1>5. \A j \in B : j - 1 \in A /\ (j - 1) + 1 = j
  <2> SUFFICES ASSUME NEW j \in B PROVE j - 1 \in A /\ (j - 1) + 1 = j
    OBVIOUS
  <2>1. j \in 1..Len(q) /\ q[j] = Piece(g) /\ j # 1
    BY <1>1 DEF PiecesIn
  <2>2. j - 1 \in 1..(Len(q) - 1) /\ (j - 1) + 1 = j
    BY <1>1, <2>1
  <2>3. Tail(q)[j - 1] = q[j]
    BY <1>1, <2>2
  <2> QED BY <1>1, <2>1, <2>2, <2>3 DEF PiecesIn
<1> HIDE DEF A, B
<1>6. f \in Bijection(A, B)
  <2>1. f \in [A -> B]
    BY <1>4
  <2>2. \A i, j \in A : f[i] = f[j] => i = j
    BY <1>1, <1>3
  <2>3. \A j \in B : \E i \in A : f[i] = j
    BY <1>5
  <2> QED BY <2>1, <2>2, <2>3 DEF Bijection, Injection, Surjection, IsInjective
<1>7. Cardinality(A) = Cardinality(B)
  <2>1. IsFiniteSet(B)
    BY <1>2, FS_RemoveElement DEF B
  <2>2. ExistsBijection(A, B)
    BY <1>6 DEF ExistsBijection
  <2> QED BY <1>2, <2>1, <2>2, FS_Bijection
<1>8. 1 \in PiecesIn(q, g) <=> Head(q) = Piece(g)
  BY <1>1 DEF PiecesIn
<1>9. CASE Head(q) = Piece(g)
  <2>1. Cardinality(B) = Cardinality(PiecesIn(q, g)) - 1
    BY <1>2, <1>8, <1>9, FS_RemoveElement DEF B
  <2>2. Cardinality(PiecesIn(q, g)) \in Nat
    BY PiecesFinite
  <2> QED BY <1>2, <1>7, <1>9, <2>1, <2>2 DEF A
<1>10. CASE Head(q) # Piece(g)
  <2>1. B = PiecesIn(q, g)
    BY <1>8, <1>10 DEF B
  <2> QED BY <1>2, <1>7, <1>10, <2>1 DEF A
<1> QED BY <1>9, <1>10

-----------------------------------------------------------------------------
(* What a refresh makes of the cells *)

\* What is made of the cells cs by the text that is pending: a cell becomes as long as it, and a
\* segment that has none gets one.
ReconciledSo(cs, ds, pending) ==
  /\ ds \in SUBSET SomeCell
  /\ Continued(cs, ds)
  /\ OnePerSegment(cs) => OnePerSegment(ds)
  /\ NotReplaced(cs) => NotReplaced(ds) /\ \A d \in ds : d.len >= pending[d.seg]
  /\ \A g \in Segments : pending[g] > 0 => \E d \in ds : d.seg = g
  /\ \A d \in ds : \/ \E c \in cs : SameCell(c, d) /\ (d.len = c.len \/ d.len = pending[d.seg])
                   \/ d.id = "live" /\ pending[d.seg] > 0 /\ d.len = pending[d.seg]

\* What a reconciliation with the waiting text does to the cells of a page.
LEMMA ReconcileFacts ==
  ASSUME NEW cs \in SUBSET SomeCell, NEW pending \in [Segments -> Nat]
  PROVE  ReconciledSo(cs, ReconcileCells(cs, pending), pending)
<1> DEFINE ds == ReconcileCells(cs, pending)
           shorter == {c \in cs : c \in FindAssistant(cs, c.seg) /\ c.len < pending[c.seg]}
           longer(c) == [c EXCEPT !.len = pending[c.seg]]
           new(g) == [seg |-> g, id |-> "live", len |-> pending[g], phase |-> "progress", interrupted |-> FALSE]
           G == {h \in Segments : pending[h] > 0 /\ FindAssistant(cs, h) = {}}
<1>1. ds = (cs \ shorter) \cup {longer(c) : c \in shorter} \cup {new(g) : g \in G}
  BY DEF ReconcileCells
<1>2. \A c \in cs : c \in SomeCell /\ c.seg \in Segments /\ c.len \in Nat /\ c.len > 0 /\ pending[c.seg] \in Nat
  BY DEF SomeCell
<1>3. ASSUME NEW c \in shorter
      PROVE  /\ c \in cs /\ longer(c) \in SomeCell /\ SameCell(c, longer(c)) /\ longer(c).len = pending[c.seg]
             /\ c.len <= pending[c.seg]
  <2>1. c \in cs /\ c \in SomeCell /\ c.len \in Nat /\ pending[c.seg] \in Nat \ {0} /\ c.len <= pending[c.seg]
    BY <1>2
  <2> HIDE DEF shorter
  <2> QED BY <2>1 DEF SomeCell, SameCell
<1>4. ASSUME NEW g \in G
      PROVE  /\ new(g) \in SomeCell /\ new(g).seg = g /\ new(g).id = "live" /\ new(g).len = pending[g]
             /\ pending[g] > 0 /\ \A c \in cs : c.seg # g
  <2>1. g \in Segments /\ pending[g] \in Nat \ {0} /\ pending[g] > 0
    OBVIOUS
  <2>2. FindAssistant(cs, g) = {}
    OBVIOUS
  <2>3. \A c \in cs : c.seg # g
    BY <2>2 DEF FindAssistant
  <2> HIDE DEF G
  <2> QED BY <2>1, <2>3 DEF SomeCell
<1>5. \A c \in cs : NotReplaced(cs) => c \in FindAssistant(cs, c.seg)
  BY DEF FindAssistant, NotReplaced
<1>6. \A c \in cs : NotReplaced(cs) /\ c \notin shorter => c.len >= pending[c.seg]
  BY <1>2, <1>5
<1>7. \A g \in Segments : pending[g] > 0 /\ g \notin G => \E c \in cs : c.seg = g
  BY DEF FindAssistant
<1>8. \A g \in G : g \in Segments
  OBVIOUS
<1> HIDE DEF ds, shorter, longer, new, G
<1>10. ds \in SUBSET SomeCell
  BY <1>1, <1>2, <1>3, <1>4
<1>11. ASSUME NEW c \in cs PROVE \E d \in ds : SameCell(c, d) /\ c.len <= d.len
  <2>1. CASE c \in shorter
    BY <1>1, <1>3, <2>1
  <2>2. CASE c \notin shorter
    BY <1>1, <1>2, <2>2 DEF SameCell
  <2> QED BY <2>1, <2>2
<1>12. ASSUME NEW d \in ds
       PROVE  \/ \E c \in cs : SameCell(c, d) /\ ((d = c /\ c \notin shorter) \/ (d = longer(c) /\ c \in shorter))
              \/ \E g \in G : d = new(g)
  BY <1>1, <1>3 DEF SameCell
<1>13. OnePerSegment(cs) => OnePerSegment(ds)
  <2> SUFFICES ASSUME OnePerSegment(cs), NEW d \in ds, NEW e \in ds, d.seg = e.seg,
                      d.id # "replacement", e.id # "replacement"
               PROVE  d = e
    BY DEF OnePerSegment
  <2>1. CASE \E g \in G : d = new(g)
    <3>1. PICK g \in G : d = new(g)
      BY <2>1
    <3>2. \A c \in cs : c.seg # d.seg
      BY <1>4, <3>1
    <3>3. PICK h \in G : e = new(h)
      BY <1>12, <3>2 DEF SameCell
    <3> QED BY <1>4, <3>1, <3>3
  <2>2. CASE \E g \in G : e = new(g)
    <3>1. PICK g \in G : e = new(g)
      BY <2>2
    <3>2. \A c \in cs : c.seg # e.seg
      BY <1>4, <3>1
    <3>3. PICK h \in G : d = new(h)
      BY <1>12, <3>2 DEF SameCell
    <3> QED BY <1>4, <3>1, <3>3
  <2>3. CASE ~(\E g \in G : d = new(g)) /\ ~(\E g \in G : e = new(g))
    <3>1. PICK c \in cs : SameCell(c, d) /\ ((d = c /\ c \notin shorter) \/ (d = longer(c) /\ c \in shorter))
      BY <1>12, <2>3
    <3>2. PICK b \in cs : SameCell(b, e) /\ ((e = b /\ b \notin shorter) \/ (e = longer(b) /\ b \in shorter))
      BY <1>12, <2>3
    <3>3. b = c
      BY <3>1, <3>2 DEF OnePerSegment, SameCell
    <3> QED BY <3>1, <3>2, <3>3
  <2> QED BY <2>1, <2>2, <2>3
<1>14. ASSUME NEW d \in ds
       PROVE  /\ \/ \E c \in cs : SameCell(c, d) /\ (d.len = c.len \/ d.len = pending[d.seg])
                 \/ d.id = "live" /\ pending[d.seg] > 0 /\ d.len = pending[d.seg]
              /\ NotReplaced(cs) => d.id # "replacement" /\ d.len >= pending[d.seg]
  <2>1. CASE \E g \in G : d = new(g)
    <3>1. PICK g \in G : d = new(g)
      BY <2>1
    <3>2. d.id = "live" /\ d.seg = g /\ d.len = pending[g] /\ pending[g] > 0 /\ pending[g] \in Nat
      BY <1>4, <1>8, <3>1
    <3> QED BY <3>2
  <2>2. CASE ~\E g \in G : d = new(g)
    <3>1. PICK c \in cs : SameCell(c, d) /\ ((d = c /\ c \notin shorter) \/ (d = longer(c) /\ c \in shorter))
      BY <1>12, <2>2
    <3>2. CASE d = c /\ c \notin shorter
      BY <1>2, <1>6, <3>1, <3>2 DEF NotReplaced, SameCell
    <3>3. CASE d = longer(c) /\ c \in shorter
      <4>1. d.len = pending[d.seg] /\ d.len \in Nat /\ d.id = c.id
        BY <1>2, <1>3, <3>1, <3>3 DEF SameCell
      <4> QED BY <3>1, <4>1 DEF NotReplaced
    <3> QED BY <3>1, <3>2, <3>3
  <2> QED BY <2>1, <2>2
<1>15. ASSUME NEW g \in Segments, pending[g] > 0 PROVE \E d \in ds : d.seg = g
  <2>1. CASE g \in G
    BY <1>1, <1>4, <2>1
  <2>2. CASE g \notin G
    BY <1>7, <1>11, <1>15, <2>2 DEF SameCell
  <2> QED BY <2>1, <2>2
<1> QED BY <1>10, <1>11, <1>13, <1>14, <1>15 DEF ds, ReconciledSo, Continued, NotReplaced

\* Cells that are as long as the text that is pending stay as they are.
LEMMA NothingToReconcile ==
  ASSUME NEW cs \in SUBSET SomeCell, NEW pending \in [Segments -> Nat],
         \A c \in cs : ~(c.len < pending[c.seg]),
         \A g \in Segments : pending[g] > 0 => \E c \in cs : c.seg = g
  PROVE  ReconcileCells(cs, pending) = cs
<1>1. {c \in cs : c \in FindAssistant(cs, c.seg) /\ c.len < pending[c.seg]} = {}
  OBVIOUS
<1>2. {h \in Segments : pending[h] > 0 /\ FindAssistant(cs, h) = {}} = {}
  BY DEF FindAssistant
<1> QED BY <1>1, <1>2 DEF ReconcileCells

\* A page takes the place of what was streamed.
LEMMA MergeFacts ==
  ASSUME NEW cs \in SUBSET SomeCell, NEW page \in SUBSET SomeCell, OnePerSegment(cs), OnePerSegment(page),
         \A p \in page : p.id # "live"
  PROVE  /\ MergeCells(cs, page) \in SUBSET SomeCell /\ OnePerSegment(MergeCells(cs, page))
         /\ page \subseteq MergeCells(cs, page) /\ MergeCells(cs, page) \subseteq cs \cup page
<1>1. MergeCells(cs, page) = {c \in cs : ~\E p \in page : p.seg = c.seg /\ (p.id = c.id \/ c.id = "live")} \cup page
  BY DEF MergeCells
<1>2. ASSUME NEW c \in cs, ~\E p \in page : p.seg = c.seg /\ (p.id = c.id \/ c.id = "live"),
             c.id # "replacement", NEW p \in page, p.seg = c.seg, p.id # "replacement"
      PROVE  FALSE
  BY <1>2 DEF SomeCell
<1> QED BY <1>1, <1>2 DEF OnePerSegment

-----------------------------------------------------------------------------
(* The invariant *)

SegTypes ==
  /\ agentAt \in [seg : Segments, turn : {"streams", "final", "over"}]
  /\ unstored \in Seq(SegEvent) /\ cells \in SUBSET SomeCell /\ storedCells \in SUBSET SomeCell
  /\ waitingText \in [Segments -> Nat]
  /\ fetch \in [phase : {"off", "page", "previews"}, reset : BOOLEAN, page : SUBSET SomeCell]

EventOf(what, g) == [what |-> what, seg |-> g]
\* An event that the store has not taken yet.
Unstored(what, g) == \E i \in DOMAIN unstored : unstored[i] = EventOf(what, g)

OneEach == OnePerSegment(cells) /\ OnePerSegment(storedCells) /\ OnePerSegment(fetch.page)

\* The store holds no streamed cell, and all that was read of it, at least as long.
StoreHolds ==
  /\ \A q \in storedCells : q.id # "live"
  /\ \A p \in fetch.page : \E q \in storedCells : SameCell(p, q) /\ p.len <= q.len

\* A cell of the window is held by the store or will be.
CellHeld(c) ==
  \/ \E q \in storedCells : q.seg = c.seg /\ (q.id = c.id \/ c.id = "live")
  \/ c.id = "live" /\ Unstored("delta", c.seg)
  \/ c.id = "replacement" /\ Unstored("replaced", c.seg)
CellsHeld == \A c \in cells : CellHeld(c)

\* So is a stream that is pending.
PendingHeld ==
  \A g \in Segments : waitingText[g] > 0 => (\E q \in storedCells : q.seg = g) \/ Unstored("delta", g)

\* The response was replaced.
WasReplaced ==
  \/ ~NotReplaced(cells) \/ ~NotReplaced(storedCells)
  \/ \E i \in DOMAIN unstored : unstored[i].what = "replaced"

\* It is so at the end of the turn only, and then no stream is pending.
ReplacedAtTheEnd ==
  /\ agentAt.turn # "over" => ~WasReplaced
  /\ WasReplaced => \A g \in Segments : waitingText[g] = 0

\* Until then, the window shows and keeps no more of a segment than was sent.
NoMoreThanSent ==
  ~WasReplaced => \A g \in Segments : ShownLength(cells, g) <= SentLength(g) /\ waitingText[g] <= SentLength(g)

\* A cell that is longer than its stream, which is pending, is so because of the store: the page
\* that is to be shown is as long.
LongerInStore ==
  agentAt.turn = "streams" =>
    \A c \in cells : waitingText[c.seg] > 0 /\ c.len > waitingText[c.seg] =>
      /\ \E q \in storedCells : q.seg = c.seg /\ c.len <= q.len
      /\ fetch.phase = "previews" => \E p \in fetch.page : p.seg = c.seg /\ c.len <= p.len

SegInv ==
  /\ SegTypes /\ OneEach /\ StoreHolds /\ CellsHeld /\ PendingHeld /\ ReplacedAtTheEnd
  /\ NoMoreThanSent /\ LongerInStore

\* A conversation starts without cells, and nothing is on its way to the store.
LEMMA SegStarts == ASSUME 1 \in Segments, SegInit PROVE SegInv
<1>1. SegTypes
  BY DEF SegInit, SegTypes, NoFetch
<1>2. OneEach /\ StoreHolds /\ CellsHeld /\ PendingHeld /\ LongerInStore
  BY DEF SegInit, NoFetch, OneEach, OnePerSegment, StoreHolds, CellsHeld, PendingHeld, LongerInStore
<1>3. ReplacedAtTheEnd
  BY DEF SegInit, ReplacedAtTheEnd, WasReplaced, NotReplaced
<1>4. NoMoreThanSent
  <2>1. ASSUME NEW g \in Segments PROVE ShownLength(cells, g) <= SentLength(g) /\ waitingText[g] <= SentLength(g)
    <3>1. cells = {} /\ storedCells = {} /\ waitingText[g] = 0 /\ unstored \in Seq(SegEvent)
      BY DEF SegInit
    <3>2. ShownLength(cells, g) = 0 /\ ShownLength(storedCells, g) = 0
      BY <3>1 DEF ShownLength, FindAssistant
    <3>3. Cardinality(PiecesIn(unstored, g)) \in Nat
      BY <3>1, PiecesFinite
    <3> QED BY <3>1, <3>2, <3>3 DEF SentLength, PiecesIn, Piece
  <2> QED BY <2>1 DEF NoMoreThanSent
<1> QED BY <1>1, <1>2, <1>3, <1>4 DEF SegInv

\* What is sent of a segment is what the store shows of it and the pieces it has not taken.
LEMMA SentIs == \A g : SentLength(g) = ShownLength(storedCells, g) + Cardinality(PiecesIn(unstored, g))
BY DEF SentLength, PiecesIn, Piece

-----------------------------------------------------------------------------
(* The events of the agent *)

\* An event is sent: the ones before are still to be stored.
LEMMA SentFacts ==
  ASSUME SegInv, NEW e \in SegEvent, unstored' = Append(unstored, e), storedCells' = storedCells,
         NotReplaced(storedCells)
  PROVE  /\ unstored' \in Seq(SegEvent)
         /\ \A what, g : Unstored(what, g) \/ e = EventOf(what, g) => Unstored(what, g)'
         /\ (\E i \in DOMAIN unstored' : unstored'[i].what = "replaced") =>
              e.what = "replaced" \/ \E i \in DOMAIN unstored : unstored[i].what = "replaced"
         /\ \A g \in Segments : SentLength(g) \in Nat /\ SentLength(g)' = SentLength(g) + (IF e = Piece(g) THEN 1 ELSE 0)
<1>1. unstored \in Seq(SegEvent)
  BY DEF SegInv, SegTypes
<1>2. /\ DOMAIN unstored = 1..Len(unstored) /\ DOMAIN unstored' = 1..(Len(unstored) + 1) /\ Len(unstored) \in Nat
      /\ \A i \in 1..Len(unstored) : unstored'[i] = unstored[i]
      /\ unstored'[Len(unstored) + 1] = e /\ unstored' \in Seq(SegEvent)
  BY <1>1
<1>3. \A i \in DOMAIN unstored' : i \in DOMAIN unstored \/ i = Len(unstored) + 1
  BY <1>2
<1>4. \A what, g : Unstored(what, g) \/ e = EventOf(what, g) => Unstored(what, g)'
  <2>1. DOMAIN unstored \subseteq DOMAIN unstored' /\ Len(unstored) + 1 \in DOMAIN unstored'
    BY <1>2
  <2> QED BY <1>2, <2>1 DEF Unstored, EventOf
<1>5. ASSUME NEW g \in Segments
      PROVE  SentLength(g) \in Nat /\ SentLength(g)' = SentLength(g) + (IF e = Piece(g) THEN 1 ELSE 0)
  <2>1. SentLength(g) = ShownLength(storedCells, g) + Cardinality(PiecesIn(unstored, g))
    BY SentIs
  <2>2. SentLength(g)' = ShownLength(storedCells, g) + Cardinality(PiecesIn(unstored', g))
    BY DEF SentLength, PiecesIn, Piece
  <2>3. Cardinality(PiecesIn(unstored', g)) = Cardinality(PiecesIn(unstored, g)) + (IF e = Piece(g) THEN 1 ELSE 0)
    BY <1>1, PiecesOfAppend
  <2>4. ShownLength(storedCells, g) \in Nat /\ Cardinality(PiecesIn(unstored, g)) \in Nat
    BY <1>1, PiecesFinite, ShownIsTheCell DEF SegInv, SegTypes, OneEach
  <2> QED BY <2>1, <2>2, <2>3, <2>4
<1> QED BY <1>2, <1>3, <1>4, <1>5

\* An event that changes the text of no segment.
LEMMA AlikeKeeps ==
  ASSUME SegInv, NEW e \in SegEvent, e.what \in {"progress", "final", "failed"}, ~WasReplaced,
         unstored' = Append(unstored, e), Alike(cells, cells'), cells' \in SUBSET SomeCell, OnePerSegment(cells'),
         agentAt' \in [seg : Segments, turn : {"streams", "final", "over"}],
         agentAt'.turn = "streams" => agentAt.turn = "streams",
         UNCHANGED <<storedCells, waitingText, fetch>>
  PROVE  SegInv'
<1>0. NotReplaced(cells) /\ NotReplaced(storedCells)
  BY DEF WasReplaced
<1>1. /\ unstored' \in Seq(SegEvent)
      /\ \A what, g : Unstored(what, g) => Unstored(what, g)'
      /\ ~\E i \in DOMAIN unstored' : unstored'[i].what = "replaced"
      /\ \A g \in Segments : SentLength(g)' = SentLength(g)
  <2>1. \A g : e # Piece(g)
    BY DEF Piece
  <2>2. \A g \in Segments : SentLength(g) \in Nat /\ SentLength(g)' = SentLength(g) + (IF e = Piece(g) THEN 1 ELSE 0)
    BY <1>0, SentFacts
  <2>3. \A g \in Segments : SentLength(g)' = SentLength(g)
    BY <2>1, <2>2
  <2>4. e.what # "replaced"
    OBVIOUS
  <2>5. /\ unstored' \in Seq(SegEvent)
        /\ \A what, g : Unstored(what, g) => Unstored(what, g)'
        /\ (\E i \in DOMAIN unstored' : unstored'[i].what = "replaced") =>
             e.what = "replaced" \/ \E i \in DOMAIN unstored : unstored[i].what = "replaced"
    BY <1>0, SentFacts
  <2> QED BY <2>3, <2>4, <2>5 DEF WasReplaced
<1>2. NotReplaced(cells') /\ \A g : ShownLength(cells', g) = ShownLength(cells, g)
  BY <1>0, AlikeFacts DEF SegInv, SegTypes, OneEach
<1>3. SegTypes' /\ OneEach'
  BY <1>1 DEF SegInv, SegTypes, OneEach
<1>4. StoreHolds'
  BY DEF SegInv, StoreHolds
<1>5. CellsHeld'
  <2>1. ASSUME NEW d \in cells' PROVE CellHeld(d)'
    <3>1. PICK c \in cells : SameCell(c, d)
      BY DEF Alike
    <3>2. CellHeld(c)
      BY DEF SegInv, CellsHeld
    <3> QED BY <1>1, <3>1, <3>2 DEF CellHeld, SameCell
  <2> QED BY <2>1 DEF CellsHeld
<1>6. PendingHeld'
  BY <1>1 DEF SegInv, PendingHeld
<1>7. ~WasReplaced'
  BY <1>0, <1>1, <1>2 DEF WasReplaced
<1>8. ReplacedAtTheEnd'
  BY <1>7 DEF ReplacedAtTheEnd
<1>9. NoMoreThanSent'
  <2>1. ASSUME NEW g \in Segments PROVE (ShownLength(cells, g) <= SentLength(g) /\ waitingText[g] <= SentLength(g))'
    <3>1. ShownLength(cells, g) <= SentLength(g) /\ waitingText[g] <= SentLength(g)
      BY DEF SegInv, NoMoreThanSent
    <3>2. ShownLength(cells', g) = ShownLength(cells, g) /\ SentLength(g)' = SentLength(g) /\ waitingText' = waitingText
      BY <1>1, <1>2
    <3> QED BY <3>1, <3>2 DEF ShownLength, FindAssistant
  <2> QED BY <2>1 DEF NoMoreThanSent
<1>10. LongerInStore'
  <2> SUFFICES ASSUME agentAt'.turn = "streams", NEW d \in cells', waitingText[d.seg] > 0, d.len > waitingText[d.seg]
               PROVE  /\ \E q \in storedCells : q.seg = d.seg /\ d.len <= q.len
                      /\ fetch.phase = "previews" => \E p \in fetch.page : p.seg = d.seg /\ d.len <= p.len
    BY DEF LongerInStore
  <2>1. PICK c \in cells : SameCell(c, d) /\ c.len = d.len
    BY DEF Alike
  <2> QED BY <2>1 DEF SegInv, LongerInStore, SameCell
<1> QED BY <1>3, <1>4, <1>5, <1>6, <1>8, <1>9, <1>10 DEF SegInv

\* A segment that ends has its end on the way to the store.
LEMMA SegmentEndsKeeps == ASSUME SegInv, SegmentEnds PROVE SegInv'
<1>1. agentAt \in [seg : Segments, turn : {"streams", "final", "over"}] /\ agentAt.turn = "streams"
  BY DEF SegInv, SegTypes, SegmentEnds
<1>2. ~WasReplaced
  BY <1>1 DEF SegInv, ReplacedAtTheEnd
<1>3. PICK what \in {"progress", "final"} :
        /\ AgentSends(what) /\ waitingText' = waitingText
        /\ \/ agentAt.seg + 1 \in Segments /\ agentAt' = [agentAt EXCEPT !.seg = agentAt.seg + 1]
           \/ agentAt' = [agentAt EXCEPT !.turn = "final"]
  BY DEF SegmentEnds
<1>4. agentAt' \in [seg : Segments, turn : {"streams", "final", "over"}]
  BY <1>1, <1>3
<1> DEFINE e == [what |-> what, seg |-> agentAt.seg]
<1>5. e \in SegEvent /\ e.what = what /\ e.seg = agentAt.seg
  BY <1>1 DEF SegEvent
<1>6. unstored' = Append(unstored, e) /\ cells' = InShown(cells, e) /\ UNCHANGED <<storedCells, fetch>>
  BY <1>3 DEF AgentSends
<1> HIDE DEF e
<1>7. cells' = MarkPhase(cells, agentAt.seg, what)
  BY <1>5, <1>6 DEF InShown
<1>8. cells' \in SUBSET SomeCell /\ Alike(cells, cells') /\ OnePerSegment(cells')
  BY <1>7, MarkFacts DEF SegInv, SegTypes, OneEach
<1>9. e.what \in {"progress", "final", "failed"}
  BY <1>5
<1> QED BY <1>1, <1>2, <1>3, <1>4, <1>5, <1>6, <1>8, <1>9, AlikeKeeps

\* A turn that fails interrupts the cells of the segment that streams.
LEMMA SegTurnFailsKeeps == ASSUME SegInv, SegTurnFails PROVE SegInv'
<1>1. agentAt \in [seg : Segments, turn : {"streams", "final", "over"}] /\ agentAt.turn = "streams"
  BY DEF SegInv, SegTypes, SegTurnFails
<1>2. ~WasReplaced
  BY <1>1 DEF SegInv, ReplacedAtTheEnd
<1>3. agentAt' \in [seg : Segments, turn : {"streams", "final", "over"}]
  BY <1>1 DEF SegTurnFails
<1> DEFINE e == [what |-> "failed", seg |-> agentAt.seg]
<1>4. e \in SegEvent /\ e.what = "failed"
  BY <1>1 DEF SegEvent
<1>5. /\ unstored' = Append(unstored, e) /\ cells' = InShown(cells, e)
      /\ UNCHANGED <<storedCells, waitingText, fetch>>
  BY DEF SegTurnFails, AgentSends
<1> HIDE DEF e
<1>6. cells' = MarkInterrupted(cells)
  BY <1>4, <1>5 DEF InShown
<1>7. cells' \in SUBSET SomeCell /\ Alike(cells, cells') /\ OnePerSegment(cells')
  BY <1>6, InterruptFacts DEF SegInv, SegTypes, OneEach
<1>8. e.what \in {"progress", "final", "failed"}
  BY <1>4
<1> QED BY <1>1, <1>2, <1>3, <1>4, <1>5, <1>7, <1>8, AlikeKeeps

\* A response that is replaced is the last of its turn, and ends as a cell of its
\* own.
LEMMA ResponseReplacedKeeps == ASSUME SegInv, ResponseReplaced PROVE SegInv'
<1>1. agentAt \in [seg : Segments, turn : {"streams", "final", "over"}] /\ agentAt.turn = "final"
  BY DEF SegInv, SegTypes, ResponseReplaced
<1>2. NotReplaced(storedCells)
  BY <1>1 DEF SegInv, ReplacedAtTheEnd, WasReplaced
<1>a. PICK s, r : s = agentAt.seg /\ r = ReplacementOf(s)
  OBVIOUS
<1> DEFINE e == [what |-> "replaced", seg |-> s]
<1>3. e \in SegEvent /\ e.what = "replaced" /\ e.seg = s /\ e = EventOf("replaced", s)
  BY <1>1, <1>a DEF SegEvent, EventOf
<1>4. /\ unstored' = Append(unstored, e) /\ cells' = InShown(cells, e)
      /\ UNCHANGED <<storedCells, fetch>> /\ waitingText' = [g \in Segments |-> 0]
  BY <1>a DEF ResponseReplaced, AgentSends
<1>5. agentAt' \in [seg : Segments, turn : {"streams", "final", "over"}] /\ agentAt'.turn = "over"
  BY <1>1 DEF ResponseReplaced
<1> HIDE DEF e
<1>6. cells' = {r}
  BY <1>3, <1>4, <1>a DEF InShown
<1>7. r \in SomeCell /\ r.seg = s /\ r.id = "replacement"
  BY <1>1, <1>a DEF ReplacementOf, SomeCell
<1>8. /\ unstored' \in Seq(SegEvent)
      /\ \A what, g : Unstored(what, g) \/ e = EventOf(what, g) => Unstored(what, g)'
  BY <1>2, <1>3, <1>4, SentFacts
<1>9. SegTypes'
  BY <1>4, <1>5, <1>6, <1>7, <1>8 DEF SegInv, SegTypes
<1>10. OneEach' /\ StoreHolds'
  BY <1>4, <1>6 DEF SegInv, OneEach, OnePerSegment, StoreHolds
<1>11. CellsHeld'
  <2>1. Unstored("replaced", s)'
    BY <1>3, <1>8
  <2>2. CellHeld(r)'
    BY <1>7, <2>1 DEF CellHeld
  <2> QED BY <1>6, <2>2 DEF CellsHeld
<1>12. \A g \in Segments : waitingText'[g] = 0
  BY <1>4
<1>13. WasReplaced'
  BY <1>6, <1>7 DEF WasReplaced, NotReplaced
<1>14. PendingHeld' /\ ReplacedAtTheEnd' /\ NoMoreThanSent' /\ LongerInStore'
  BY <1>5, <1>12, <1>13 DEF PendingHeld, ReplacedAtTheEnd, NoMoreThanSent, LongerInStore
<1> QED BY <1>9, <1>10, <1>11, <1>14 DEF SegInv

\* What one more piece makes of the window.
LEMMA DeltaFacts ==
  ASSUME SegInv, SegmentDelta
  PROVE  /\ agentAt.seg \in Segments /\ agentAt.turn = "streams" /\ ~WasReplaced
         /\ unstored' = Append(unstored, Piece(agentAt.seg)) /\ Piece(agentAt.seg) \in SegEvent
         /\ Lengthened(cells, cells', agentAt.seg, "live") /\ NotReplaced(cells')
         /\ \A h : ShownLength(cells', h) = ShownLength(cells, h) + (IF h = agentAt.seg THEN 1 ELSE 0)
         /\ waitingText' = [waitingText EXCEPT ![agentAt.seg] = ShownLength(cells', agentAt.seg)]
         /\ UNCHANGED <<agentAt, storedCells, fetch>>
<1>1. agentAt.seg \in Segments /\ agentAt.turn = "streams"
  BY DEF SegInv, SegTypes, SegmentDelta
<1>2. ~WasReplaced /\ NotReplaced(cells)
  BY <1>1 DEF SegInv, ReplacedAtTheEnd, WasReplaced
<1>3. Piece(agentAt.seg) \in SegEvent /\ Piece(agentAt.seg).what = "delta" /\ Piece(agentAt.seg).seg = agentAt.seg
  BY <1>1 DEF Piece, SegEvent
<1>4. unstored' = Append(unstored, Piece(agentAt.seg)) /\ cells' = InShown(cells, Piece(agentAt.seg))
  BY DEF SegmentDelta, AgentSends, Piece
<1>5. cells' = AppendDelta(cells, agentAt.seg, "live")
  BY <1>3, <1>4 DEF InShown
<1>6. Lengthened(cells, cells', agentAt.seg, "live")
  BY <1>1, <1>5, AppendDeltaFacts DEF SegInv, SegTypes
<1>7. /\ NotReplaced(cells')
      /\ \A h : ShownLength(cells', h) = ShownLength(cells, h) + (IF h = agentAt.seg THEN 1 ELSE 0)
  BY <1>1, <1>2, <1>5, LengthAfterDelta DEF SegInv, SegTypes, OneEach
<1>8. /\ waitingText' = [waitingText EXCEPT ![agentAt.seg] = ShownLength(cells', agentAt.seg)]
      /\ UNCHANGED <<agentAt, storedCells, fetch>>
  BY DEF SegmentDelta, AgentSends
<1> QED BY <1>1, <1>2, <1>3, <1>4, <1>6, <1>7, <1>8

\* A piece that streams makes its cell longer, and is on its way to the store.
LEMMA SegmentDeltaKeeps == ASSUME SegInv, SegmentDelta PROVE SegInv'
<1>a. PICK s : s = agentAt.seg
  OBVIOUS
<1>0. /\ s \in Segments /\ agentAt.turn = "streams" /\ ~WasReplaced
      /\ unstored' = Append(unstored, Piece(s)) /\ Piece(s) \in SegEvent
      /\ Lengthened(cells, cells', s, "live") /\ NotReplaced(cells')
      /\ \A h : ShownLength(cells', h) = ShownLength(cells, h) + (IF h = s THEN 1 ELSE 0)
      /\ waitingText' = [waitingText EXCEPT ![s] = ShownLength(cells', s)]
      /\ UNCHANGED <<agentAt, storedCells, fetch>>
  BY <1>a, DeltaFacts
<1>1. NotReplaced(storedCells) /\ NotReplaced(cells)
  BY <1>0 DEF WasReplaced
<1>2. Piece(s) = EventOf("delta", s) /\ Piece(s).what = "delta" /\ \A g : Piece(s) = Piece(g) <=> g = s
  BY DEF Piece, EventOf
<1>3. /\ unstored' \in Seq(SegEvent)
      /\ \A what, g : Unstored(what, g) \/ Piece(s) = EventOf(what, g) => Unstored(what, g)'
      /\ (\E i \in DOMAIN unstored' : unstored'[i].what = "replaced") =>
           Piece(s).what = "replaced" \/ \E i \in DOMAIN unstored : unstored[i].what = "replaced"
      /\ \A g \in Segments : SentLength(g) \in Nat /\ SentLength(g)' = SentLength(g) + (IF Piece(s) = Piece(g) THEN 1 ELSE 0)
  BY <1>0, <1>1, SentFacts
<1>4. cells' \in SUBSET SomeCell /\ OnePerSegment(cells')
  BY <1>0 DEF Lengthened, SegInv, OneEach
<1>5. ShownLength(cells', s) \in Nat /\ \A h : ShownLength(cells, h) \in Nat
  BY <1>0, <1>1, <1>4, ShownIsTheCell DEF SegInv, SegTypes, OneEach
<1>6. waitingText \in [Segments -> Nat] /\ waitingText' \in [Segments -> Nat]
  BY <1>0, <1>5 DEF SegInv, SegTypes
<1>7. \A g \in Segments : waitingText'[g] = IF g = s THEN ShownLength(cells', s) ELSE waitingText[g]
  BY <1>0, <1>6
<1>8. SegTypes' /\ OneEach' /\ StoreHolds'
  BY <1>0, <1>3, <1>4, <1>6 DEF SegInv, SegTypes, OneEach, StoreHolds
<1>9. Unstored("delta", s)'
  BY <1>2, <1>3
<1>10. CellsHeld'
  <2>1. ASSUME NEW d \in cells' PROVE CellHeld(d)'
    <3>1. CASE \E c \in cells : SameCell(c, d)
      <4>1. PICK c \in cells : SameCell(c, d)
        BY <3>1
      <4>2. CellHeld(c)
        BY DEF SegInv, CellsHeld
      <4> QED BY <1>0, <1>3, <4>1, <4>2 DEF CellHeld, SameCell
    <3>2. CASE ~\E c \in cells : SameCell(c, d)
      <4>1. d.id = "live" /\ d.seg = s
        BY <1>0, <3>2 DEF Lengthened
      <4> QED BY <1>9, <4>1 DEF CellHeld
    <3> QED BY <3>1, <3>2
  <2> QED BY <2>1 DEF CellsHeld
<1>11. PendingHeld'
  <2> SUFFICES ASSUME NEW g \in Segments, waitingText'[g] > 0
               PROVE  (\E q \in storedCells : q.seg = g) \/ Unstored("delta", g)'
    BY <1>0 DEF PendingHeld
  <2>1. CASE g = s
    BY <1>9, <2>1
  <2>2. CASE g # s
    BY <1>3, <1>7, <2>2 DEF SegInv, PendingHeld
  <2> QED BY <2>1, <2>2
<1>12. ~WasReplaced'
  BY <1>0, <1>1, <1>2, <1>3 DEF WasReplaced
<1>13. ReplacedAtTheEnd'
  BY <1>12 DEF ReplacedAtTheEnd
<1>14. NoMoreThanSent'
  <2>1. ASSUME NEW g \in Segments PROVE (ShownLength(cells, g) <= SentLength(g) /\ waitingText[g] <= SentLength(g))'
    <3>1. ShownLength(cells, g) <= SentLength(g) /\ waitingText[g] <= SentLength(g)
      BY <1>0 DEF SegInv, NoMoreThanSent
    <3>2. ShownLength(cells, g)' = ShownLength(cells', g)
      BY DEF ShownLength, FindAssistant
    <3>3. SentLength(g) \in Nat /\ SentLength(g)' = SentLength(g) + (IF g = s THEN 1 ELSE 0)
      BY <1>2, <1>3
    <3>4. waitingText[g] \in Nat /\ ShownLength(cells, g) \in Nat
      BY <1>5, <1>6
    <3>5. waitingText'[g] = IF g = s THEN ShownLength(cells', s) ELSE waitingText[g]
      BY <1>7
    <3>6. ShownLength(cells', g) = ShownLength(cells, g) + (IF g = s THEN 1 ELSE 0)
      BY <1>0
    <3>7. CASE g = s
      BY <3>1, <3>2, <3>3, <3>4, <3>5, <3>6, <3>7
    <3>8. CASE g # s
      BY <3>1, <3>2, <3>3, <3>4, <3>5, <3>6, <3>8
    <3> QED BY <3>7, <3>8
  <2> QED BY <2>1 DEF NoMoreThanSent
<1>15. LongerInStore'
  <2> SUFFICES ASSUME NEW d \in cells', waitingText'[d.seg] > 0, d.len > waitingText'[d.seg]
               PROVE  /\ \E q \in storedCells : q.seg = d.seg /\ d.len <= q.len
                      /\ fetch.phase = "previews" => \E p \in fetch.page : p.seg = d.seg /\ d.len <= p.len
    BY <1>0 DEF LongerInStore
  <2>0. d \in SomeCell /\ d.seg \in Segments /\ d.len \in Nat
    BY <1>4 DEF SomeCell
  <2>1. CASE d.seg = s
    <3>1. ShownLength(cells', s) = d.len
      BY <1>0, <1>4, <2>1, ShownIsTheCell
    <3>2. waitingText'[d.seg] = d.len
      BY <1>7, <2>0, <2>1, <3>1
    <3> QED BY <2>0, <3>2
  <2>2. CASE d.seg # s
    <3>1. PICK c \in cells : SameCell(c, d) /\ d.len = c.len
      BY <1>0, <2>2 DEF Lengthened
    <3>2. waitingText'[d.seg] = waitingText[d.seg]
      BY <1>7, <2>0, <2>2
    <3> QED BY <1>0, <3>1, <3>2 DEF SegInv, LongerInStore, SameCell
  <2> QED BY <2>1, <2>2
<1> QED BY <1>8, <1>10, <1>11, <1>13, <1>14, <1>15 DEF SegInv

-----------------------------------------------------------------------------
(* The store and the refreshes *)

\* The store records the oldest event: no cell of it grows past what was sent.
LEMMA StoreEventKeeps == ASSUME SegInv, StoreEvent PROVE SegInv'
<1> DEFINE e == Head(unstored)
<1>1. /\ unstored \in Seq(SegEvent) /\ unstored # <<>> /\ unstored' = Tail(unstored)
      /\ storedCells' = InStore(storedCells, e) /\ UNCHANGED <<agentAt, cells, waitingText, fetch>>
  BY DEF SegInv, SegTypes, StoreEvent
<1>2. /\ e \in SegEvent /\ unstored' \in Seq(SegEvent)
      /\ DOMAIN unstored = 1..Len(unstored) /\ DOMAIN unstored' = 1..(Len(unstored) - 1)
      /\ Len(unstored) \in Nat /\ Len(unstored) >= 1 /\ e = unstored[1]
      /\ \A i \in 1..(Len(unstored) - 1) : unstored'[i] = unstored[i + 1]
  BY <1>1
<1>3. storedCells \in SUBSET SomeCell /\ StoredSo(storedCells, storedCells', e)
  <2>1. storedCells \in SUBSET SomeCell
    BY DEF SegInv, SegTypes
  <2> HIDE DEF e
  <2> QED BY <1>1, <1>2, <2>1, InStoreFacts
<1> HIDE DEF e
<1>4. \A what, g : Unstored(what, g) => Unstored(what, g)' \/ e = EventOf(what, g)
  <2> SUFFICES ASSUME NEW what, NEW g, NEW i \in DOMAIN unstored, unstored[i] = EventOf(what, g)
               PROVE  Unstored(what, g)' \/ e = EventOf(what, g)
    BY DEF Unstored
  <2>1. CASE i = 1
    BY <1>2, <2>1
  <2>2. CASE i # 1
    <3>1. i - 1 \in 1..(Len(unstored) - 1) /\ (i - 1) + 1 = i
      BY <1>2, <2>2
    <3>2. unstored'[i - 1] = unstored[i]
      BY <1>2, <3>1
    <3> QED BY <1>2, <3>1, <3>2 DEF Unstored, EventOf
  <2> QED BY <2>1, <2>2
<1>5. /\ \A i \in DOMAIN unstored' : i + 1 \in DOMAIN unstored /\ unstored'[i] = unstored[i + 1]
      /\ \A i \in DOMAIN unstored : i = 1 \/ (i - 1 \in DOMAIN unstored' /\ unstored'[i - 1] = unstored[i])
  <2>1. \A i \in 1..(Len(unstored) - 1) : i + 1 \in 1..Len(unstored)
    BY <1>2
  <2>2. \A i \in 1..Len(unstored) : i = 1 \/ (i - 1 \in 1..(Len(unstored) - 1) /\ (i - 1) + 1 = i)
    BY <1>2
  <2>3. \A i \in 1..Len(unstored) : i = 1 \/ (i - 1 \in 1..(Len(unstored) - 1) /\ unstored'[i - 1] = unstored[i])
    BY <1>2, <2>2
  <2> QED BY <1>2, <2>1, <2>3
<1>6. WasReplaced' <=> WasReplaced
  <2>1. ASSUME WasReplaced' PROVE WasReplaced
    <3>1. CASE \E d \in storedCells' : d.id = "replacement"
      <4>1. PICK d \in storedCells' : d.id = "replacement"
        BY <3>1
      <4>2. (\E c \in storedCells : SameCell(c, d)) \/ e.what = "replaced"
        BY <1>3, <4>1 DEF StoredSo
      <4>3. 1 \in DOMAIN unstored
        BY <1>2
      <4> QED BY <1>2, <4>1, <4>2, <4>3 DEF WasReplaced, NotReplaced, SameCell
    <3>2. CASE \E d \in cells' : d.id = "replacement"
      BY <1>1, <3>2 DEF WasReplaced, NotReplaced
    <3>3. CASE \E i \in DOMAIN unstored' : unstored'[i].what = "replaced"
      BY <1>5, <3>3 DEF WasReplaced
    <3> QED BY <2>1, <3>1, <3>2, <3>3 DEF WasReplaced, NotReplaced
  <2>2. ASSUME WasReplaced PROVE WasReplaced'
    <3>1. CASE \E q \in storedCells : q.id = "replacement"
      BY <1>3, <3>1 DEF StoredSo, Continued, SameCell, WasReplaced, NotReplaced
    <3>2. CASE \E c \in cells : c.id = "replacement"
      BY <1>1, <3>2 DEF WasReplaced, NotReplaced
    <3>3. CASE \E i \in DOMAIN unstored : unstored[i].what = "replaced"
      <4>1. PICK i \in DOMAIN unstored : unstored[i].what = "replaced"
        BY <3>3
      <4>2. CASE i = 1
        <5>1. \E d \in storedCells' : d.id = "replacement"
          BY <1>2, <1>3, <4>1, <4>2 DEF StoredSo
        <5> QED BY <5>1 DEF WasReplaced, NotReplaced
      <4>3. CASE i # 1
        BY <1>5, <4>1, <4>3 DEF WasReplaced
      <4> QED BY <4>2, <4>3
    <3> QED BY <2>2, <3>1, <3>2, <3>3 DEF WasReplaced, NotReplaced
  <2> QED BY <2>1, <2>2
<1>7. SegTypes' /\ OneEach'
  BY <1>1, <1>2, <1>3 DEF SegInv, SegTypes, OneEach, StoredSo
<1>8. \A q \in storedCells : \E r \in storedCells' : SameCell(q, r) /\ q.len <= r.len /\ q.len \in Nat /\ r.len \in Nat
  BY <1>3 DEF StoredSo, Continued, SomeCell
<1>9. StoreHolds'
  <2>1. ASSUME NEW q \in storedCells' PROVE q.id # "live"
    BY <1>3 DEF SegInv, StoreHolds, StoredSo, SameCell
  <2>2. ASSUME NEW p \in fetch.page PROVE \E r \in storedCells' : SameCell(p, r) /\ p.len <= r.len
    <3>1. PICK q \in storedCells : SameCell(p, q) /\ p.len <= q.len
      BY DEF SegInv, StoreHolds
    <3>2. PICK r \in storedCells' : SameCell(q, r) /\ q.len <= r.len /\ q.len \in Nat /\ r.len \in Nat
      BY <1>8
    <3>3. p \in SomeCell
      BY DEF SegInv, SegTypes
    <3>4. p.len \in Nat
      BY <3>3 DEF SomeCell
    <3>5. p.len <= r.len
      BY <3>1, <3>2, <3>4
    <3> QED BY <3>1, <3>2, <3>5 DEF SameCell
  <2> QED BY <1>1, <2>1, <2>2 DEF StoreHolds
<1>10. \A g : e = EventOf("delta", g) => \E q \in storedCells' : q.seg = g
  BY <1>3 DEF StoredSo, EventOf
<1>11. \A g : e = EventOf("replaced", g) => \E q \in storedCells' : q.seg = g /\ q.id = "replacement"
  BY <1>3 DEF StoredSo, EventOf
<1>12. CellsHeld'
  <2>1. ASSUME NEW c \in cells PROVE CellHeld(c)'
    <3>1. CellHeld(c)
      BY DEF SegInv, CellsHeld
    <3>2. CASE \E q \in storedCells : q.seg = c.seg /\ (q.id = c.id \/ c.id = "live")
      BY <1>8, <3>2 DEF CellHeld, SameCell
    <3>3. CASE c.id = "live" /\ Unstored("delta", c.seg)
      BY <1>4, <1>10, <3>3 DEF CellHeld
    <3>4. CASE c.id = "replacement" /\ Unstored("replaced", c.seg)
      <4>1. CASE Unstored("replaced", c.seg)'
        BY <3>4, <4>1 DEF CellHeld
      <4>2. CASE ~Unstored("replaced", c.seg)'
        <5>1. \E q \in storedCells' : q.seg = c.seg /\ q.id = c.id
          BY <1>4, <1>11, <3>4, <4>2
        <5> QED BY <5>1 DEF CellHeld
      <4> QED BY <4>1, <4>2
    <3> QED BY <3>1, <3>2, <3>3, <3>4 DEF CellHeld
  <2> QED BY <1>1, <2>1 DEF CellsHeld
<1>13. PendingHeld'
  <2> SUFFICES ASSUME NEW g \in Segments, waitingText[g] > 0
               PROVE  (\E q \in storedCells' : q.seg = g) \/ Unstored("delta", g)'
    BY <1>1 DEF PendingHeld
  <2>1. (\E q \in storedCells : q.seg = g) \/ Unstored("delta", g)
    BY DEF SegInv, PendingHeld
  <2>2. CASE \E q \in storedCells : q.seg = g
    BY <1>8, <2>2 DEF SameCell
  <2>3. CASE Unstored("delta", g)
    BY <1>4, <1>10, <2>3
  <2> QED BY <2>1, <2>2, <2>3
<1>14. ReplacedAtTheEnd'
  BY <1>1, <1>6 DEF SegInv, ReplacedAtTheEnd
<1>15. NoMoreThanSent'
  <2> SUFFICES ASSUME ~WasReplaced, NEW g \in Segments
               PROVE  (ShownLength(cells, g) <= SentLength(g) /\ waitingText[g] <= SentLength(g))'
    BY <1>6 DEF NoMoreThanSent
  <2>1. NotReplaced(storedCells) /\ OnePerSegment(storedCells) /\ e.what # "replaced"
    <3>1. 1 \in DOMAIN unstored
      BY <1>2
    <3> QED BY <1>2, <3>1 DEF WasReplaced, SegInv, OneEach
  <2>2. ShownLength(storedCells', g) = ShownLength(storedCells, g) + (IF e = Piece(g) THEN 1 ELSE 0)
    BY <1>1, <1>2, <1>3, <2>1, LengthInStore DEF Piece
  <2>3. Cardinality(PiecesIn(unstored, g)) = Cardinality(PiecesIn(unstored', g)) + (IF e = Piece(g) THEN 1 ELSE 0)
    BY <1>1, PiecesOfTail DEF e
  <2>4. ShownLength(storedCells, g) \in Nat /\ Cardinality(PiecesIn(unstored', g)) \in Nat
    BY <1>2, <1>3, <2>1, PiecesFinite, ShownIsTheCell
  <2>5. SentLength(g)' = SentLength(g)
    <3>1. SentLength(g)' = ShownLength(storedCells', g) + Cardinality(PiecesIn(unstored', g))
      BY DEF SentLength, PiecesIn, Piece, ShownLength, FindAssistant
    <3>2. SentLength(g) = ShownLength(storedCells, g) + Cardinality(PiecesIn(unstored, g))
      BY SentIs
    <3> QED BY <2>2, <2>3, <2>4, <3>1, <3>2
  <2>6. ShownLength(cells, g)' = ShownLength(cells, g)
    BY <1>1 DEF ShownLength, FindAssistant
  <2> QED BY <1>1, <2>5, <2>6 DEF SegInv, NoMoreThanSent
<1>16. LongerInStore'
  <2> SUFFICES ASSUME agentAt.turn = "streams", NEW c \in cells, waitingText[c.seg] > 0, c.len > waitingText[c.seg]
               PROVE  /\ \E r \in storedCells' : r.seg = c.seg /\ c.len <= r.len
                      /\ fetch.phase = "previews" => \E p \in fetch.page : p.seg = c.seg /\ c.len <= p.len
    BY <1>1 DEF LongerInStore
  <2>1. PICK q \in storedCells : q.seg = c.seg /\ c.len <= q.len
    BY DEF SegInv, LongerInStore
  <2>2. PICK r \in storedCells' : SameCell(q, r) /\ q.len <= r.len /\ q.len \in Nat /\ r.len \in Nat
    BY <1>8
  <2>3. c \in SomeCell
    BY DEF SegInv, SegTypes
  <2>4. c.len <= r.len /\ r.seg = c.seg
    BY <2>1, <2>2, <2>3 DEF SomeCell, SameCell
  <2> QED BY <2>4 DEF SegInv, LongerInStore
<1> QED BY <1>7, <1>9, <1>12, <1>13, <1>14, <1>15, <1>16 DEF SegInv

\* Of what the agent sent, of the store and of the window, nothing changes.
LEMMA SameUnlessFetched ==
  ASSUME SegInv, UNCHANGED <<agentAt, unstored, cells, storedCells>>,
         fetch' \in [phase : {"off", "page", "previews"}, reset : BOOLEAN, page : SUBSET SomeCell],
         waitingText' \in [Segments -> Nat],
         \A g \in Segments : waitingText'[g] = waitingText[g] \/ waitingText'[g] = 0,
         OnePerSegment(fetch'.page), fetch'.page \subseteq storedCells,
         fetch'.phase = "previews" => fetch'.page = storedCells
  PROVE  SegInv'
<1>1. SegTypes' /\ OneEach'
  BY DEF SegInv, SegTypes, OneEach
<1>2. StoreHolds'
  <2>1. \A q \in storedCells : SameCell(q, q) /\ q.len <= q.len
    BY DEF SegInv, SegTypes, SomeCell, SameCell
  <2> QED BY <2>1 DEF SegInv, StoreHolds
<1>3. \A what, g : Unstored(what, g)' <=> Unstored(what, g)
  BY DEF Unstored
<1>4. CellsHeld'
  BY <1>3 DEF SegInv, CellsHeld, CellHeld
<1>5. PendingHeld'
  BY <1>3 DEF SegInv, PendingHeld
<1>6. WasReplaced' <=> WasReplaced
  BY DEF WasReplaced
<1>7. ReplacedAtTheEnd'
  BY <1>6 DEF SegInv, ReplacedAtTheEnd
<1>8. NoMoreThanSent'
  <2> SUFFICES ASSUME ~WasReplaced, NEW g \in Segments
               PROVE  (ShownLength(cells, g) <= SentLength(g) /\ waitingText[g] <= SentLength(g))'
    BY <1>6 DEF NoMoreThanSent
  <2>1. ShownLength(cells, g) <= SentLength(g) /\ waitingText[g] <= SentLength(g)
    BY DEF SegInv, NoMoreThanSent
  <2>2. ShownLength(cells, g)' = ShownLength(cells, g) /\ SentLength(g)' = SentLength(g)
    BY DEF ShownLength, FindAssistant, SentLength
  <2>3. SentLength(g) \in Nat
    <3>1. SentLength(g) = ShownLength(storedCells, g) + Cardinality(PiecesIn(unstored, g))
      BY SentIs
    <3>2. ShownLength(storedCells, g) \in Nat /\ Cardinality(PiecesIn(unstored, g)) \in Nat
      BY PiecesFinite, ShownIsTheCell DEF SegInv, SegTypes, OneEach, WasReplaced
    <3> QED BY <3>1, <3>2
  <2> QED BY <2>1, <2>2, <2>3
<1>9. LongerInStore'
  <2> SUFFICES ASSUME agentAt.turn = "streams", NEW c \in cells, waitingText'[c.seg] > 0, c.len > waitingText'[c.seg]
               PROVE  /\ \E r \in storedCells : r.seg = c.seg /\ c.len <= r.len
                      /\ fetch'.phase = "previews" => \E p \in fetch'.page : p.seg = c.seg /\ c.len <= p.len
    BY DEF LongerInStore
  <2>1. c.seg \in Segments
    BY DEF SegInv, SegTypes, SomeCell
  <2>2. waitingText'[c.seg] = waitingText[c.seg]
    BY <2>1
  <2> QED BY <2>2 DEF SegInv, LongerInStore
<1> QED BY <1>1, <1>2, <1>4, <1>5, <1>7, <1>8, <1>9 DEF SegInv

\* A fetch that starts holds nothing yet.
LEMMA StartFetchKeeps == ASSUME SegInv, StartFetch PROVE SegInv'
<1>1. PICK reset \in BOOLEAN : fetch' = [NoFetch EXCEPT !.phase = "page", !.reset = reset]
  BY DEF StartFetch
<1>2. fetch' \in [phase : {"off", "page", "previews"}, reset : BOOLEAN, page : SUBSET SomeCell]
      /\ fetch'.page = {} /\ fetch'.phase = "page"
  BY <1>1 DEF NoFetch
<1>3. UNCHANGED <<agentAt, unstored, cells, storedCells, waitingText>>
  BY DEF StartFetch
<1>4. OnePerSegment(fetch'.page)
  BY <1>2 DEF OnePerSegment
<1>5. waitingText' \in [Segments -> Nat]
  BY <1>3 DEF SegInv, SegTypes
<1> QED BY <1>2, <1>3, <1>4, <1>5, SameUnlessFetched

\* The page of a fetch is what the store holds.
LEMMA FetchPageKeeps == ASSUME SegInv, FetchPage PROVE SegInv'
<1>1. fetch' = [fetch EXCEPT !.phase = "previews", !.page = storedCells]
  BY DEF FetchPage
<1>2. fetch' \in [phase : {"off", "page", "previews"}, reset : BOOLEAN, page : SUBSET SomeCell]
      /\ fetch'.page = storedCells /\ fetch'.phase = "previews"
  BY <1>1 DEF SegInv, SegTypes
<1>3. UNCHANGED <<agentAt, unstored, cells, storedCells>>
  BY DEF FetchPage
<1>4. \E held : waitingText' = [g \in Segments |-> IF g \in held THEN 0 ELSE waitingText[g]]
  BY DEF FetchPage
<1>5. /\ waitingText' \in [Segments -> Nat]
      /\ \A g \in Segments : waitingText'[g] = waitingText[g] \/ waitingText'[g] = 0
  <2>1. waitingText \in [Segments -> Nat]
    BY DEF SegInv, SegTypes
  <2> QED BY <1>4, <2>1
<1>6. OnePerSegment(fetch'.page)
  BY <1>2 DEF SegInv, OneEach
<1> QED BY <1>2, <1>3, <1>5, <1>6, SameUnlessFetched

\* What the refresh starts from: the page is in it, and it has nothing but the page and the window.
LEMMA BaseFacts ==
  ASSUME SegInv
  PROVE  /\ Base(fetch) \in SUBSET SomeCell /\ OnePerSegment(Base(fetch))
         /\ fetch.page \subseteq Base(fetch) /\ Base(fetch) \subseteq cells \cup fetch.page
         /\ fetch.reset => Base(fetch) = fetch.page
         /\ ~fetch.reset => Base(fetch) = MergeCells(cells, fetch.page)
<1>1. fetch.page \in SUBSET SomeCell /\ cells \in SUBSET SomeCell /\ OnePerSegment(cells) /\ OnePerSegment(fetch.page)
  BY DEF SegInv, SegTypes, OneEach
<1>2. \A p \in fetch.page : p.id # "live"
  BY DEF SegInv, StoreHolds, SameCell
<1>3. /\ MergeCells(cells, fetch.page) \in SUBSET SomeCell /\ OnePerSegment(MergeCells(cells, fetch.page))
      /\ fetch.page \subseteq MergeCells(cells, fetch.page)
      /\ MergeCells(cells, fetch.page) \subseteq cells \cup fetch.page
  BY <1>1, <1>2, MergeFacts
<1>4. Base(fetch) = IF fetch.reset THEN fetch.page ELSE MergeCells(cells, fetch.page)
  BY DEF Base
<1> QED BY <1>1, <1>3, <1>4

\* What the refresh shows.
LEMMA CommitFacts ==
  ASSUME SegInv, CommitFetch
  PROVE  /\ ReconciledSo(Base(fetch), cells', waitingText)
         /\ fetch' = NoFetch /\ UNCHANGED <<agentAt, unstored, storedCells, waitingText>>
<1>1. waitingText \in [Segments -> Nat] /\ Base(fetch) \in SUBSET SomeCell
  BY BaseFacts DEF SegInv, SegTypes
<1>2. cells' = ReconcileCells(Base(fetch), waitingText)
  BY DEF CommitFetch
<1>3. ReconciledSo(Base(fetch), cells', waitingText)
  BY <1>1, <1>2, ReconcileFacts
<1> QED BY <1>3 DEF CommitFetch

\* A fetch that is committed shows its page, with no cell shorter than what waits.
LEMMA CommitFetchKeeps == ASSUME SegInv, CommitFetch PROVE SegInv'
<1>0. /\ ReconciledSo(Base(fetch), cells', waitingText)
      /\ fetch' = NoFetch /\ UNCHANGED <<agentAt, unstored, storedCells, waitingText>>
  BY CommitFacts
<1>1. /\ Base(fetch) \in SUBSET SomeCell /\ OnePerSegment(Base(fetch))
      /\ fetch.page \subseteq Base(fetch) /\ Base(fetch) \subseteq cells \cup fetch.page
  BY BaseFacts
<1>2. \A p \in fetch.page : \E q \in storedCells : SameCell(p, q) /\ p.len <= q.len
  BY DEF SegInv, StoreHolds
<1>3. fetch'.page = {} /\ fetch'.phase = "off"
      /\ fetch' \in [phase : {"off", "page", "previews"}, reset : BOOLEAN, page : SUBSET SomeCell]
  BY <1>0 DEF NoFetch
<1>4. SegTypes' /\ OneEach'
  BY <1>0, <1>1, <1>3 DEF SegInv, SegTypes, OneEach, ReconciledSo, OnePerSegment
<1>5. StoreHolds'
  BY <1>0, <1>3 DEF SegInv, StoreHolds
<1>6. \A what, g : Unstored(what, g)' <=> Unstored(what, g)
  BY <1>0 DEF Unstored
<1>7. ASSUME NEW b \in Base(fetch) PROVE CellHeld(b)
  <2>1. CASE b \in cells
    BY <2>1 DEF SegInv, CellsHeld
  <2>2. CASE b \in fetch.page
    BY <1>2, <2>2 DEF CellHeld, SameCell
  <2> QED BY <1>1, <2>1, <2>2
<1>8. CellsHeld'
  <2>1. ASSUME NEW d \in cells' PROVE CellHeld(d)
    <3>1. CASE \E b \in Base(fetch) : SameCell(b, d)
      BY <1>7, <3>1 DEF CellHeld, SameCell
    <3>2. CASE ~\E b \in Base(fetch) : SameCell(b, d)
      <4>1. d.id = "live" /\ waitingText[d.seg] > 0
        BY <1>0, <3>2 DEF ReconciledSo
      <4>2. d.seg \in Segments
        BY <1>0 DEF ReconciledSo, SomeCell
      <4>3. (\E q \in storedCells : q.seg = d.seg) \/ Unstored("delta", d.seg)
        BY <4>1, <4>2 DEF SegInv, PendingHeld
      <4> QED BY <4>1, <4>3 DEF CellHeld
    <3> QED BY <3>1, <3>2
  <2> QED BY <1>0, <1>6, <2>1 DEF CellsHeld, CellHeld
<1>9. PendingHeld'
  BY <1>0, <1>6 DEF SegInv, PendingHeld
<1>10. WasReplaced' <=> WasReplaced
  <2>1. ASSUME WasReplaced' PROVE WasReplaced
    <3>1. CASE \E d \in cells' : d.id = "replacement"
      <4>1. PICK d \in cells' : d.id = "replacement"
        BY <3>1
      <4>2. PICK b \in Base(fetch) : SameCell(b, d)
        BY <1>0, <4>1 DEF ReconciledSo
      <4>3. CASE b \in cells
        BY <4>1, <4>2, <4>3 DEF WasReplaced, NotReplaced, SameCell
      <4>4. CASE b \in fetch.page
        BY <1>2, <4>1, <4>2, <4>4 DEF WasReplaced, NotReplaced, SameCell
      <4> QED BY <1>1, <4>3, <4>4
    <3>2. CASE NotReplaced(cells')
      BY <1>0, <2>1, <3>2 DEF WasReplaced
    <3> QED BY <3>1, <3>2 DEF NotReplaced
  <2>2. ASSUME WasReplaced PROVE WasReplaced'
    <3>1. CASE \E c \in cells : c.id = "replacement"
      <4>1. PICK c \in cells : c.id = "replacement"
        BY <3>1
      <4>2. CellHeld(c)
        BY DEF SegInv, CellsHeld
      <4>3. (\E q \in storedCells : q.id = "replacement") \/ Unstored("replaced", c.seg)
        BY <4>1, <4>2 DEF CellHeld
      <4>4. (\E q \in storedCells : q.id = "replacement") \/ \E i \in DOMAIN unstored : unstored[i].what = "replaced"
        BY <4>3 DEF Unstored, EventOf
      <4> QED BY <1>0, <4>4 DEF WasReplaced, NotReplaced
    <3>2. CASE NotReplaced(cells)
      BY <1>0, <2>2, <3>2 DEF WasReplaced
    <3> QED BY <3>1, <3>2 DEF NotReplaced
  <2> QED BY <2>1, <2>2
<1>11. ReplacedAtTheEnd'
  BY <1>0, <1>10 DEF SegInv, ReplacedAtTheEnd
<1>12. ASSUME ~WasReplaced PROVE NotReplaced(cells) /\ NotReplaced(storedCells) /\ NotReplaced(Base(fetch)) /\ NotReplaced(cells')
  <2>1. NotReplaced(cells) /\ NotReplaced(storedCells)
    BY <1>12 DEF WasReplaced
  <2>2. NotReplaced(Base(fetch))
    BY <1>1, <1>2, <2>1 DEF NotReplaced, SameCell
  <2> QED BY <1>0, <2>1, <2>2 DEF ReconciledSo
<1>13. NoMoreThanSent'
  <2> SUFFICES ASSUME ~WasReplaced, NEW g \in Segments
               PROVE  (ShownLength(cells, g) <= SentLength(g) /\ waitingText[g] <= SentLength(g))'
    BY <1>10 DEF NoMoreThanSent
  <2>1. ShownLength(cells, g) <= SentLength(g) /\ waitingText[g] <= SentLength(g)
    BY DEF SegInv, NoMoreThanSent
  <2>2. NotReplaced(cells) /\ NotReplaced(storedCells) /\ NotReplaced(Base(fetch)) /\ NotReplaced(cells')
    BY <1>12
  <2>3. cells' \in SUBSET SomeCell /\ OnePerSegment(cells') /\ storedCells \in SUBSET SomeCell /\ cells \in SUBSET SomeCell
        /\ OnePerSegment(cells) /\ OnePerSegment(storedCells)
    BY <1>4 DEF SegTypes, OneEach, SegInv
  <2>4. /\ ShownLength(cells, g)' = ShownLength(cells', g)
        /\ SentLength(g)' = SentLength(g) /\ waitingText' = waitingText
    BY <1>0 DEF ShownLength, FindAssistant, SentLength
  <2>5. SentLength(g) \in Nat /\ ShownLength(storedCells, g) <= SentLength(g) /\ ShownLength(storedCells, g) \in Nat
    <3>1. SentLength(g) = ShownLength(storedCells, g) + Cardinality(PiecesIn(unstored, g))
      BY SentIs
    <3>2. ShownLength(storedCells, g) \in Nat
      BY <2>2, <2>3, ShownIsTheCell
    <3>3. Cardinality(PiecesIn(unstored, g)) \in Nat
      BY PiecesFinite DEF SegInv, SegTypes
    <3> QED BY <3>1, <3>2, <3>3
  <2>6. CASE \A d \in cells' : d.seg # g
    <3>1. ShownLength(cells', g) = 0
      BY <2>2, <2>3, <2>6, ShownIsTheCell
    <3> QED BY <2>1, <2>4, <2>5, <3>1
  <2>7. CASE \E d \in cells' : d.seg = g
    <3>1. PICK d \in cells' : d.seg = g
      BY <2>7
    <3>2. ShownLength(cells', g) = d.len
      BY <2>2, <2>3, <3>1, ShownIsTheCell
    <3>3. CASE d.len = waitingText[g]
      BY <2>1, <2>4, <3>2, <3>3
    <3>4. CASE d.len # waitingText[g]
      <4>1. PICK b \in Base(fetch) : SameCell(b, d) /\ d.len = b.len
        BY <1>0, <3>1, <3>4 DEF ReconciledSo
      <4>2. CASE b \in cells
        <5>1. ShownLength(cells, g) = b.len
          BY <2>2, <2>3, <3>1, <4>1, <4>2, ShownIsTheCell DEF SameCell
        <5> QED BY <2>1, <2>4, <3>2, <4>1, <5>1
      <4>3. CASE b \in fetch.page
        <5>1. PICK q \in storedCells : SameCell(b, q) /\ b.len <= q.len
          BY <1>2, <4>3
        <5>2. ShownLength(storedCells, g) = q.len
          BY <2>2, <2>3, <3>1, <4>1, <5>1, ShownIsTheCell DEF SameCell
        <5>3. b.len \in Nat
          BY <1>1 DEF SomeCell
        <5> QED BY <2>1, <2>4, <2>5, <3>2, <4>1, <5>1, <5>2, <5>3
      <4> QED BY <1>1, <4>2, <4>3
    <3> QED BY <3>3, <3>4
  <2> QED BY <2>6, <2>7
<1>14. LongerInStore'
  <2> SUFFICES ASSUME agentAt.turn = "streams", NEW d \in cells', waitingText[d.seg] > 0, d.len > waitingText[d.seg]
               PROVE  \E r \in storedCells : r.seg = d.seg /\ d.len <= r.len
    BY <1>0, <1>3 DEF LongerInStore
  <2>1. d \in SomeCell
    BY <1>0 DEF ReconciledSo
  <2>2. d.len # waitingText[d.seg]
    BY <2>1 DEF SomeCell
  <2>3. PICK b \in Base(fetch) : SameCell(b, d) /\ d.len = b.len
    BY <1>0, <2>2 DEF ReconciledSo
  <2>4. CASE b \in cells
    BY <2>3, <2>4 DEF SegInv, LongerInStore, SameCell
  <2>5. CASE b \in fetch.page
    BY <1>2, <2>3, <2>5 DEF SameCell
  <2> QED BY <1>1, <2>4, <2>5
<1> QED BY <1>4, <1>5, <1>8, <1>9, <1>11, <1>13, <1>14 DEF SegInv

\* Every step of a conversation and its store keeps the invariant.
LEMMA SegStep == ASSUME SegInv, [SegNext]_segVars PROVE SegInv'
<1>1. CASE UNCHANGED segVars
  <2>1. UNCHANGED <<agentAt, unstored, cells, storedCells, waitingText, fetch>>
    BY <1>1 DEF segVars
  <2>2. SegTypes' /\ OneEach' /\ StoreHolds'
    BY <2>1 DEF SegInv, SegTypes, OneEach, StoreHolds
  <2>3. CellsHeld' /\ PendingHeld'
    BY <2>1 DEF SegInv, CellsHeld, CellHeld, PendingHeld, Unstored
  <2>4. WasReplaced' <=> WasReplaced
    BY <2>1 DEF WasReplaced
  <2>5. ReplacedAtTheEnd' /\ LongerInStore'
    BY <2>1, <2>4 DEF SegInv, ReplacedAtTheEnd, LongerInStore
  <2>6. \A g : ShownLength(cells, g)' = ShownLength(cells, g) /\ SentLength(g)' = SentLength(g)
    BY <2>1 DEF ShownLength, FindAssistant, SentLength
  <2>7. NoMoreThanSent'
    BY <2>1, <2>4, <2>6 DEF SegInv, NoMoreThanSent
  <2> QED BY <2>2, <2>3, <2>5, <2>7 DEF SegInv
<1>2. CASE SegNext
  BY <1>2, SegmentDeltaKeeps, SegmentEndsKeeps, ResponseReplacedKeeps, SegTurnFailsKeeps, StoreEventKeeps,
     StartFetchKeeps, FetchPageKeeps, CommitFetchKeeps DEF SegNext
<1> QED BY <1>1, <1>2

-----------------------------------------------------------------------------
(* What is shown agrees with what is stored *)

\* A segment is never shown twice, streamed and stored.
LEMMA NeverTwice ==
  ASSUME SegInv, SegInv'
  PROVE  \A c, d \in cells' : c.seg = d.seg /\ c.id = "live" => d = c \/ d.id = "replacement"
BY DEF SegInv, OneEach, OnePerSegment

\* The text of a segment is not shortened while it is pending.
LEMMA NotShortened ==
  ASSUME SegInv, SegInv', SegNext, NEW g \in Segments, agentAt'.turn = "streams", waitingText[g] > 0
  PROVE  ShownLength(cells', g) >= ShownLength(cells, g)
<1>1. agentAt \in [seg : Segments, turn : {"streams", "final", "over"}]
  BY DEF SegInv, SegTypes
<1>2. agentAt.turn = "streams"
  BY <1>1 DEF SegNext, SegmentDelta, SegmentEnds, ResponseReplaced, SegTurnFails, StoreEvent, StartFetch, FetchPage,
              CommitFetch
<1>3. ~WasReplaced /\ ~WasReplaced'
  BY <1>2 DEF SegInv, ReplacedAtTheEnd
<1>4. /\ cells \in SUBSET SomeCell /\ OnePerSegment(cells) /\ NotReplaced(cells)
      /\ cells' \in SUBSET SomeCell /\ OnePerSegment(cells') /\ NotReplaced(cells')
  BY <1>3 DEF SegInv, SegTypes, OneEach, WasReplaced
<1>5. ShownLength(cells, g) \in Nat /\ ShownLength(cells', g) \in Nat
  BY <1>4, ShownIsTheCell
<1>6. CASE cells' = cells
  BY <1>5, <1>6
<1>7. CASE SegmentDelta
  <2>1. ShownLength(cells', g) = ShownLength(cells, g) + (IF g = agentAt.seg THEN 1 ELSE 0)
    BY <1>7, DeltaFacts
  <2> QED BY <1>5, <2>1
<1>8. CASE SegmentEnds
  <2>1. PICK what \in {"progress", "final"} : AgentSends(what)
    BY <1>8 DEF SegmentEnds
  <2>2. cells' = MarkPhase(cells, agentAt.seg, what)
    BY <2>1 DEF AgentSends, InShown
  <2>3. Alike(cells, cells')
    BY <1>4, <2>2, MarkFacts
  <2>4. ShownLength(cells', g) = ShownLength(cells, g)
    BY <1>4, <2>3, AlikeFacts
  <2> QED BY <1>5, <2>4
<1>9. CASE ResponseReplaced \/ SegTurnFails
  BY <1>1, <1>9 DEF ResponseReplaced, SegTurnFails
<1>10. CASE CommitFetch
  <2>1. ReconciledSo(Base(fetch), cells', waitingText)
    BY <1>10, CommitFacts
  <2>2. fetch.page \subseteq Base(fetch) /\ Base(fetch) \subseteq cells \cup fetch.page /\ Base(fetch) \in SUBSET SomeCell
    BY BaseFacts
  <2>3. NotReplaced(Base(fetch))
    BY <1>3, <1>4, <2>2 DEF NotReplaced, WasReplaced, SegInv, StoreHolds, SameCell
  <2>4. PICK d \in cells' : d.seg = g
    BY <2>1 DEF ReconciledSo
  <2>5. ShownLength(cells', g) = d.len /\ d.len \in Nat
    BY <1>4, <2>4, ShownIsTheCell DEF SomeCell
  <2>6. d.len >= waitingText[g]
    BY <2>1, <2>3, <2>4 DEF ReconciledSo
  <2>7. CASE \A c \in cells : c.seg # g
    <3>1. ShownLength(cells, g) = 0
      BY <1>4, <2>7, ShownIsTheCell
    <3> QED BY <1>5, <3>1
  <2>8. CASE \E c \in cells : c.seg = g
    <3>1. PICK c \in cells : c.seg = g
      BY <2>8
    <3>2. ShownLength(cells, g) = c.len /\ c.len \in Nat
      BY <1>4, <3>1, ShownIsTheCell DEF SomeCell
    <3>3. waitingText[g] \in Nat
      BY DEF SegInv, SegTypes
    <3>4. CASE c.len <= waitingText[g]
      BY <2>5, <2>6, <3>2, <3>3, <3>4
    <3>5. CASE ~(c.len <= waitingText[g])
      <4>1. c.len > waitingText[g]
        BY <3>2, <3>3, <3>5
      <4>2. PICK p \in fetch.page : p.seg = g /\ c.len <= p.len
        BY <1>2, <1>10, <3>1, <4>1 DEF SegInv, LongerInStore, CommitFetch
      <4>3. PICK b \in cells' : SameCell(p, b) /\ p.len <= b.len
        BY <2>1, <2>2, <4>2 DEF ReconciledSo, Continued
      <4>4. ShownLength(cells', g) = b.len /\ b.len \in Nat
        BY <1>4, <4>2, <4>3, ShownIsTheCell DEF SameCell, SomeCell
      <4>5. p.len \in Nat
        BY <2>2, <4>2 DEF SomeCell
      <4> QED BY <3>2, <4>2, <4>3, <4>4, <4>5
    <3> QED BY <3>4, <3>5
  <2> QED BY <2>7, <2>8
<1> QED BY <1>2, <1>6, <1>7, <1>8, <1>9, <1>10 DEF SegNext, StoreEvent, StartFetch, FetchPage

\* A refresh of all that happened shows what is stored.
LEMMA ShowsTheStore ==
  ASSUME SegInv, SegNext, CaughtUp, fetch'.phase = "off"
  PROVE  cells' = storedCells
<1>1. fetch.phase = "previews" /\ fetch.page = storedCells /\ unstored = <<>>
  BY DEF CaughtUp
<1>2. CommitFetch
  BY <1>1 DEF SegNext, SegmentDelta, SegmentEnds, ResponseReplaced, SegTurnFails, StoreEvent, StartFetch, FetchPage,
              CommitFetch, AgentSends
<1>3. cells' = ReconcileCells(Base(fetch), waitingText)
  BY <1>2 DEF CommitFetch
<1>4. \A what, g : ~Unstored(what, g)
  BY <1>1 DEF Unstored
<1>5. Base(fetch) = storedCells
  <2>1. CASE fetch.reset
    BY <1>1, <2>1, BaseFacts
  <2>2. CASE ~fetch.reset
    <3>1. Base(fetch) = MergeCells(cells, storedCells)
      BY <1>1, <2>2, BaseFacts
    <3>2. \A c \in cells : \E p \in storedCells : p.seg = c.seg /\ (p.id = c.id \/ c.id = "live")
      BY <1>4 DEF SegInv, CellsHeld, CellHeld
    <3> QED BY <3>1, <3>2 DEF MergeCells
  <2> QED BY <2>1, <2>2
<1>6. /\ storedCells \in SUBSET SomeCell /\ waitingText \in [Segments -> Nat] /\ OnePerSegment(storedCells)
  BY DEF SegInv, SegTypes, OneEach
<1>7. ASSUME NEW c \in storedCells PROVE ~(c.len < waitingText[c.seg])
  <2>0. c.seg \in Segments /\ c.len \in Nat
    BY <1>6 DEF SomeCell
  <2>1. CASE WasReplaced
    <3>1. waitingText[c.seg] = 0
      BY <2>0, <2>1 DEF SegInv, ReplacedAtTheEnd
    <3> QED BY <2>0, <3>1
  <2>2. CASE ~WasReplaced
    <3>1. waitingText[c.seg] <= SentLength(c.seg)
      BY <2>0, <2>2 DEF SegInv, NoMoreThanSent
    <3>2. ShownLength(storedCells, c.seg) = c.len
      BY <1>6, <2>2, ShownIsTheCell DEF WasReplaced
    <3>3. PiecesIn(unstored, c.seg) = {}
      BY <1>1 DEF PiecesIn
    <3>4. Cardinality(PiecesIn(unstored, c.seg)) = 0
      BY <3>3, FS_EmptySet
    <3>5. SentLength(c.seg) = c.len
      BY <2>0, <3>2, <3>4, SentIs
    <3>6. waitingText[c.seg] \in Nat
      BY <1>6, <2>0
    <3> QED BY <2>0, <3>1, <3>5, <3>6
  <2> QED BY <2>1, <2>2
<1>8. \A g \in Segments : waitingText[g] > 0 => \E c \in storedCells : c.seg = g
  BY <1>4 DEF SegInv, PendingHeld
<1> QED BY <1>3, <1>5, <1>6, <1>7, <1>8, NothingToReconcile

\* The specification keeps it.
LEMMA SegmentsAreKept == SegSpec => []SegInv
<1>1. SegInit => SegInv
  BY ViewAssumption, SegStarts DEF ViewAssumption
<1>2. SegInv /\ [SegNext]_segVars => SegInv'
  BY SegStep
<1> QED BY <1>1, <1>2, PTL DEF SegSpec

\* SegmentsAgree holds of every run: a segment is not shown twice, no text that is pending is
\* shortened, and a refresh of all that happened shows what is stored.
THEOREM TheSegmentsAgree == SegSpec => SegmentsAgree
<1>1. SegInv /\ SegInv' /\ [SegNext]_segVars =>
        [/\ \A c, d \in cells' : c.seg = d.seg /\ c.id = "live" => d = c \/ d.id = "replacement"
         /\ \A g \in Segments : agentAt'.turn = "streams" /\ waitingText[g] > 0 =>
              ShownLength(cells', g) >= ShownLength(cells, g)
         /\ CaughtUp /\ fetch'.phase = "off" => cells' = storedCells]_segVars
  BY NeverTwice, NotShortened, ShowsTheStore
<1> QED BY <1>1, SegmentsAreKept, PTL DEF SegSpec, SegmentsAgree

\* Texts within the bound, and what keeps them so: no more is sent of a segment, and the
\* event of a replacement is the last one, after which the store takes nothing.
Short(cs) == \A c \in cs : c.len <= MaxSegText
TextsFit == NotReplaced(storedCells) => \A g \in Segments : SentLength(g) <= MaxSegText
ReplacedLast ==
  /\ \A i \in DOMAIN unstored : unstored[i].what = "replaced" => i = Len(unstored)
  /\ ~NotReplaced(storedCells) => unstored = <<>>
SegBounds ==
  /\ Short(cells) /\ Short(storedCells) /\ Short(fetch.page)
  /\ \A g \in Segments : waitingText[g] <= MaxSegText
  /\ TextsFit /\ ReplacedLast

\* Cells that are shown within the bound are within it.
LEMMA ShownShort ==
  ASSUME NEW cs \in SUBSET SomeCell, OnePerSegment(cs), NotReplaced(cs),
         \A g \in Segments : ShownLength(cs, g) <= MaxSegText
  PROVE  Short(cs)
<1> SUFFICES ASSUME NEW c \in cs PROVE c.len <= MaxSegText
  BY DEF Short
<1>1. c.seg \in Segments
  BY DEF SomeCell
<1> QED BY <1>1, ShownIsTheCell

LEMMA AlikeShort ==
  ASSUME NEW cs, NEW ds, Alike(cs, ds), Short(cs)
  PROVE  Short(ds)
BY DEF Alike, Short

LEMMA ReplacementShort ==
  ASSUME NEW g \in Segments
  PROVE  ReplacementOf(g).len = 1 /\ 1 <= MaxSegText
<1>1. MaxSegText \in Nat /\ MaxSegText # 0
  BY ViewAssumption DEF ViewAssumption
<1> QED BY <1>1 DEF ReplacementOf

\* An event that is sent while the turn is not over is the last one.
LEMMA SentLast ==
  ASSUME SegInv, SegBounds, ~WasReplaced, NEW e \in SegEvent, unstored' = Append(unstored, e),
         storedCells' = storedCells
  PROVE  ReplacedLast'
<1>1. /\ unstored \in Seq(SegEvent) /\ NotReplaced(storedCells)
      /\ \A i \in DOMAIN unstored : unstored[i].what # "replaced"
  BY DEF SegInv, SegTypes, WasReplaced
<1>2. /\ DOMAIN unstored = 1..Len(unstored) /\ DOMAIN unstored' = 1..Len(unstored') /\ Len(unstored) \in Nat
      /\ Len(unstored') = Len(unstored) + 1 /\ \A i \in 1..Len(unstored) : unstored'[i] = unstored[i]
  BY <1>1
<1>3. \A i \in DOMAIN unstored' : i \in DOMAIN unstored \/ i = Len(unstored')
  BY <1>2
<1> QED BY <1>1, <1>2, <1>3 DEF ReplacedLast

\* The end of a segment, and a turn that fails: no text grows.
LEMMA EndsStayShort == ASSUME SegInv, SegBounds, SegmentEnds \/ SegTurnFails PROVE SegBounds'
<1>1. agentAt \in [seg : Segments, turn : {"streams", "final", "over"}] /\ agentAt.turn = "streams"
  BY DEF SegInv, SegTypes, SegmentEnds, SegTurnFails
<1>2. ~WasReplaced /\ NotReplaced(storedCells)
  BY <1>1 DEF SegInv, ReplacedAtTheEnd, WasReplaced
<1>3. PICK what \in {"progress", "final", "failed"} : AgentSends(what) /\ UNCHANGED waitingText
  BY DEF SegmentEnds, SegTurnFails
<1> DEFINE e == [what |-> what, seg |-> agentAt.seg]
<1>4. e \in SegEvent /\ e.what = what /\ e.what \notin {"delta", "replaced"} /\ \A g : e # Piece(g)
  BY <1>1 DEF SegEvent, Piece
<1>5. unstored' = Append(unstored, e) /\ cells' = InShown(cells, e) /\ UNCHANGED <<storedCells, fetch>>
  BY <1>3 DEF AgentSends
<1>s. e.seg = agentAt.seg
  OBVIOUS
<1> HIDE DEF e
<1>6. Alike(cells, cells')
  <2>1. CASE what \in {"progress", "final"}
    <3>1. cells' = MarkPhase(cells, agentAt.seg, what)
      BY <2>1, <1>4, <1>5, <1>s DEF InShown
    <3> QED BY <2>1, <3>1, MarkFacts DEF SegInv, SegTypes
  <2>2. CASE what = "failed"
    <3>1. cells' = MarkInterrupted(cells)
      BY <2>2, <1>4, <1>5 DEF InShown
    <3> QED BY <3>1, InterruptFacts DEF SegInv, SegTypes
  <2> QED BY <2>1, <2>2
<1>7. \A g \in Segments : SentLength(g)' = SentLength(g)
  BY <1>2, <1>4, <1>5, SentFacts
<1>8. ReplacedLast'
  BY <1>2, <1>4, <1>5, SentLast
<1>9. Short(cells')
  BY <1>6, AlikeShort DEF SegBounds
<1>10. TextsFit'
  BY <1>2, <1>5, <1>7 DEF SegBounds, TextsFit
<1> QED BY <1>3, <1>5, <1>8, <1>9, <1>10 DEF SegBounds

\* A piece is sent within the bound.
LEMMA DeltaStaysShort == ASSUME SegInv, SegBounds, SegmentDelta PROVE SegBounds'
<1>1. /\ agentAt.seg \in Segments /\ agentAt.turn = "streams" /\ ~WasReplaced
      /\ unstored' = Append(unstored, Piece(agentAt.seg)) /\ Piece(agentAt.seg) \in SegEvent
      /\ NotReplaced(cells') /\ UNCHANGED <<agentAt, storedCells, fetch>>
  BY DeltaFacts
<1>2. SegInv' /\ ~WasReplaced'
  <2>1. SegInv'
    BY SegmentDeltaKeeps
  <2> QED BY <1>1, <2>1 DEF SegInv, ReplacedAtTheEnd
<1>3. NotReplaced(storedCells)
  BY <1>1 DEF WasReplaced
<1>4. ASSUME NEW g \in Segments PROVE SentLength(g)' <= MaxSegText /\ SentLength(g)' \in Nat
  <2>1. SentLength(g) \in Nat /\ SentLength(g)' = SentLength(g) + (IF Piece(agentAt.seg) = Piece(g) THEN 1 ELSE 0)
    BY <1>1, <1>3, SentFacts
  <2>2. SentLength(g) <= MaxSegText
    BY <1>3 DEF SegBounds, TextsFit
  <2>3. Piece(agentAt.seg) = Piece(g) => g = agentAt.seg
    BY DEF Piece
  <2>4. SentLength(agentAt.seg) < MaxSegText /\ MaxSegText \in Nat
    BY ViewAssumption DEF SegmentDelta, ViewAssumption
  <2>5. CASE Piece(agentAt.seg) = Piece(g)
    BY <2>1, <2>3, <2>4, <2>5
  <2>6. CASE Piece(agentAt.seg) # Piece(g)
    BY <2>1, <2>2, <2>6
  <2> QED BY <2>5, <2>6
<1>5. ASSUME NEW g \in Segments
      PROVE  ShownLength(cells', g) <= MaxSegText /\ waitingText'[g] <= MaxSegText
  <2>1. ShownLength(cells', g) <= SentLength(g)' /\ waitingText'[g] <= SentLength(g)'
    BY <1>2 DEF SegInv, NoMoreThanSent
  <2>2. cells' \in SUBSET SomeCell /\ OnePerSegment(cells') /\ waitingText' \in [Segments -> Nat]
    BY <1>2 DEF SegInv, SegTypes, OneEach
  <2>3. ShownLength(cells', g) \in Nat /\ waitingText'[g] \in Nat /\ MaxSegText \in Nat
    BY <2>2, <1>1, ShownIsTheCell, ViewAssumption DEF ViewAssumption
  <2> QED BY <2>1, <2>3, <1>4
<1>6. Short(cells')
  <2>1. cells' \in SUBSET SomeCell /\ OnePerSegment(cells')
    BY <1>2 DEF SegInv, SegTypes, OneEach
  <2> QED BY <2>1, <1>1, <1>5, ShownShort
<1>7. ReplacedLast'
  BY <1>1, SentLast
<1>8. TextsFit'
  BY <1>4 DEF TextsFit
<1> QED BY <1>1, <1>5, <1>6, <1>7, <1>8 DEF SegBounds

\* A replacement is one piece of text.
LEMMA ReplacedStaysShort == ASSUME SegInv, SegBounds, ResponseReplaced PROVE SegBounds'
<1>1. agentAt.turn = "final" /\ agentAt.seg \in Segments
  BY DEF SegInv, SegTypes, ResponseReplaced
<1>2. ~WasReplaced /\ NotReplaced(storedCells)
  BY <1>1 DEF SegInv, ReplacedAtTheEnd, WasReplaced
<1> DEFINE e == [what |-> "replaced", seg |-> agentAt.seg]
<1>3. e \in SegEvent /\ e.what = "replaced" /\ e.seg = agentAt.seg /\ \A g : e # Piece(g)
  BY <1>1 DEF SegEvent, Piece
<1>4. unstored' = Append(unstored, e) /\ cells' = InShown(cells, e) /\ UNCHANGED <<storedCells, fetch>>
      /\ waitingText' = [g \in Segments |-> 0]
  BY DEF ResponseReplaced, AgentSends
<1> HIDE DEF e
<1>5. cells' = {ReplacementOf(agentAt.seg)}
  BY <1>3, <1>4 DEF InShown
<1>6. Short(cells')
  BY <1>1, <1>5, ReplacementShort DEF Short
<1>7. \A g \in Segments : SentLength(g)' = SentLength(g)
  BY <1>2, <1>3, <1>4, SentFacts
<1>8. ReplacedLast'
  BY <1>2, <1>3, <1>4, SentLast
<1>9. TextsFit'
  BY <1>2, <1>4, <1>7 DEF SegBounds, TextsFit
<1>10. \A g \in Segments : waitingText'[g] <= MaxSegText
  BY <1>4, ViewAssumption DEF ViewAssumption
<1> QED BY <1>4, <1>6, <1>8, <1>9, <1>10 DEF SegBounds

\* The store takes what was sent, and a replacement as the last of it.
LEMMA StoreStaysShort == ASSUME SegInv, SegBounds, StoreEvent PROVE SegBounds'
<1> DEFINE e == Head(unstored)
<1>1. /\ unstored \in Seq(SegEvent) /\ unstored # <<>> /\ unstored' = Tail(unstored)
      /\ storedCells' = InStore(storedCells, e) /\ UNCHANGED <<cells, waitingText, fetch>>
  BY DEF SegInv, SegTypes, StoreEvent
<1>2. /\ e \in SegEvent /\ DOMAIN unstored = 1..Len(unstored) /\ DOMAIN unstored' = 1..Len(unstored')
      /\ Len(unstored) \in Nat /\ Len(unstored) >= 1 /\ Len(unstored') = Len(unstored) - 1 /\ e = unstored[1]
      /\ \A i \in 1..Len(unstored') : unstored'[i] = unstored[i + 1] /\ i + 1 \in 1..Len(unstored)
  BY <1>1
<1>3. NotReplaced(storedCells) /\ storedCells \in SUBSET SomeCell /\ OnePerSegment(storedCells)
  BY <1>1 DEF SegBounds, ReplacedLast, SegInv, SegTypes, OneEach
<1> HIDE DEF e
<1>4. e.what = "replaced" => unstored' = <<>>
  <2>1. ASSUME e.what = "replaced" PROVE Len(unstored) = 1
    BY <2>1, <1>2 DEF SegBounds, ReplacedLast
  <2> QED BY <2>1, <1>1, <1>2
<1>5. \A i \in DOMAIN unstored' : unstored'[i].what = "replaced" => i = Len(unstored')
  <2>1. ASSUME NEW i \in 1..Len(unstored'), unstored'[i].what = "replaced" PROVE i = Len(unstored')
    <3>1. i + 1 \in DOMAIN unstored /\ unstored[i + 1].what = "replaced"
      BY <2>1, <1>2
    <3>2. i + 1 = Len(unstored)
      BY <3>1 DEF SegBounds, ReplacedLast
    <3> QED BY <3>2, <1>2
  <2> QED BY <2>1, <1>2
<1>6. CASE e.what = "replaced"
  <2>1. storedCells' = WithReplacement(storedCells, e.seg) /\ e.seg \in Segments
    BY <1>1, <1>2, <1>6 DEF InStore, WithReplacement, SegEvent
  <2>2. Short(storedCells')
    <3>1. \A c \in storedCells : [c EXCEPT !.phase = "progress"].len = c.len
      BY <1>3 DEF SomeCell
    <3> QED BY <2>1, <3>1, ReplacementShort DEF WithReplacement, Short, SegBounds
  <2>3. ReplacementOf(e.seg) \in storedCells' /\ ReplacementOf(e.seg).id = "replacement"
    BY <2>1 DEF WithReplacement, ReplacementOf
  <2>4. ~NotReplaced(storedCells')
    BY <2>3 DEF NotReplaced
  <2>5. TextsFit'
    BY <2>4 DEF TextsFit
  <2>6. ReplacedLast'
    BY <1>4, <1>5, <1>6 DEF ReplacedLast
  <2> QED BY <1>1, <2>2, <2>5, <2>6 DEF SegBounds
<1>7. CASE e.what # "replaced"
  <2>1. /\ NotReplaced(storedCells')
        /\ \A g \in Segments : ShownLength(storedCells', g)
             = ShownLength(storedCells, g) + (IF e = [what |-> "delta", seg |-> g] THEN 1 ELSE 0)
    BY <1>1, <1>2, <1>3, <1>7, LengthInStore
  <2>2. ASSUME NEW g \in Segments
        PROVE  SentLength(g)' <= MaxSegText /\ ShownLength(storedCells', g) <= MaxSegText
    <3>1. Cardinality(PiecesIn(unstored, g)) = Cardinality(PiecesIn(unstored', g)) + (IF e = Piece(g) THEN 1 ELSE 0)
      BY <1>1, PiecesOfTail DEF e
    <3>2. unstored' \in Seq(SegEvent)
      BY <1>1
    <3>3. Cardinality(PiecesIn(unstored, g)) \in Nat /\ Cardinality(PiecesIn(unstored', g)) \in Nat
          /\ ShownLength(storedCells, g) \in Nat
      BY <1>1, <1>3, <3>2, PiecesFinite, ShownIsTheCell
    <3>4. SentLength(g) = ShownLength(storedCells, g) + Cardinality(PiecesIn(unstored, g))
      BY SentIs
    <3>5. SentLength(g)' = ShownLength(storedCells', g) + Cardinality(PiecesIn(unstored', g))
      BY DEF SentLength, PiecesIn, Piece
    <3>6. SentLength(g) <= MaxSegText /\ MaxSegText \in Nat
      BY <1>3, ViewAssumption DEF SegBounds, TextsFit, ViewAssumption
    <3>7. ShownLength(storedCells', g) = ShownLength(storedCells, g) + (IF e = Piece(g) THEN 1 ELSE 0)
      BY <2>1 DEF Piece
    <3> QED BY <3>1, <3>3, <3>4, <3>5, <3>6, <3>7
  <2>3. storedCells' \in SUBSET SomeCell /\ OnePerSegment(storedCells')
    BY <1>1, <1>2, <1>3, InStoreFacts DEF StoredSo
  <2>4. Short(storedCells')
    BY <2>1, <2>2, <2>3, ShownShort
  <2>5. TextsFit'
    BY <2>2 DEF TextsFit
  <2>6. ReplacedLast'
    BY <1>5, <2>1 DEF ReplacedLast
  <2> QED BY <1>1, <2>4, <2>5, <2>6 DEF SegBounds
<1> QED BY <1>6, <1>7

\* A fetch shows cells of the window and of the store, as long as they are or as the text
\* that is waiting.
LEMMA FetchesStayShort ==
  ASSUME SegInv, SegBounds, StartFetch \/ FetchPage \/ CommitFetch
  PROVE  SegBounds'
<1>s. UNCHANGED <<unstored, storedCells>>
  BY DEF StartFetch, FetchPage, CommitFetch
<1>t. ReplacedLast' /\ TextsFit'
  <2>1. \A g : SentLength(g)' = SentLength(g)
    BY <1>s DEF SentLength
  <2> QED BY <1>s, <2>1 DEF SegBounds, ReplacedLast, TextsFit
<1>n. MaxSegText \in Nat
  BY ViewAssumption DEF ViewAssumption
<1>1. CASE StartFetch
  <2>1. fetch'.page = {} /\ UNCHANGED <<cells, waitingText>>
    BY <1>1 DEF StartFetch, NoFetch
  <2> QED BY <1>s, <1>t, <2>1 DEF SegBounds, Short
<1>2. CASE FetchPage
  <2>1. fetch'.page = storedCells /\ UNCHANGED cells
    BY <1>2 DEF FetchPage, SegInv, SegTypes
  <2>2. \A g \in Segments : waitingText'[g] \in {waitingText[g], 0}
    BY <1>2 DEF FetchPage
  <2>3. \A g \in Segments : waitingText'[g] <= MaxSegText
    BY <1>n, <2>2 DEF SegBounds
  <2> QED BY <1>s, <1>t, <2>1, <2>3 DEF SegBounds
<1>3. CASE CommitFetch
  <2>1. ReconciledSo(Base(fetch), cells', waitingText) /\ fetch' = NoFetch /\ UNCHANGED waitingText
    BY <1>3, CommitFacts
  <2>2. Short(Base(fetch))
    BY BaseFacts DEF Short, SegBounds
  <2>3. cells' \in SUBSET SomeCell
    BY <2>1 DEF ReconciledSo
  <2>4. ASSUME NEW d \in cells' PROVE d.len <= MaxSegText
    <3>1. d.seg \in Segments
      BY <2>3 DEF SomeCell
    <3>2. waitingText[d.seg] <= MaxSegText
      BY <3>1 DEF SegBounds
    <3>3. d.len = waitingText[d.seg] \/ \E c \in Base(fetch) : d.len = c.len
      BY <2>1 DEF ReconciledSo
    <3> QED BY <3>2, <3>3, <2>2 DEF Short
  <2>5. Short(cells') /\ fetch'.page = {}
    BY <2>1, <2>4 DEF Short, NoFetch
  <2> QED BY <1>s, <1>t, <2>1, <2>5 DEF SegBounds, Short
<1> QED BY <1>1, <1>2, <1>3

\* The cells, the events and the texts keep their types and the bound (SegTypeOK).
THEOREM SegTypeCorrect == SegSpec => []SegTypeOK
<1>1. SegInit => SegBounds
  <2> SUFFICES ASSUME SegInit PROVE SegBounds
    OBVIOUS
  <2>1. cells = {} /\ storedCells = {} /\ unstored = <<>> /\ fetch.page = {} /\ waitingText = [g \in Segments |-> 0]
    BY DEF SegInit, NoFetch
  <2>2. MaxSegText \in Nat
    BY ViewAssumption DEF ViewAssumption
  <2>3. ASSUME NEW g \in Segments PROVE SentLength(g) = 0
    <3>1. PiecesIn(unstored, g) = {} /\ ShownLength(storedCells, g) = 0
      BY <2>1 DEF PiecesIn, ShownLength, FindAssistant
    <3>2. Cardinality({}) = 0
      BY FS_EmptySet
    <3> QED BY <3>1, <3>2, SentIs
  <2>4. TextsFit /\ \A g \in Segments : waitingText[g] <= MaxSegText
    BY <2>1, <2>2, <2>3 DEF TextsFit
  <2> QED BY <2>1, <2>4 DEF SegBounds, Short, ReplacedLast
<1>2. SegInv /\ SegBounds /\ [SegNext]_segVars => SegBounds'
  <2> SUFFICES ASSUME SegInv, SegBounds, [SegNext]_segVars PROVE SegBounds'
    OBVIOUS
  <2>1. CASE UNCHANGED segVars
    <3>1. \A g : SentLength(g)' = SentLength(g)
      BY <2>1 DEF segVars, SentLength
    <3> QED BY <2>1, <3>1 DEF segVars, SegBounds, TextsFit, ReplacedLast
  <2> QED BY <2>1, DeltaStaysShort, EndsStayShort, ReplacedStaysShort, StoreStaysShort, FetchesStayShort DEF SegNext
<1>3. SegInv /\ SegBounds => SegTypeOK
  <2> SUFFICES ASSUME SegInv, SegBounds PROVE SegTypeOK
    OBVIOUS
  <2>1. MaxSegText \in Nat
    BY ViewAssumption DEF ViewAssumption
  <2>2. ASSUME NEW cs \in SUBSET SomeCell, Short(cs) PROVE cs \subseteq Cell
    <3> SUFFICES ASSUME NEW c \in cs PROVE c \in Cell
      OBVIOUS
    <3>1. c \in SomeCell /\ c.len <= MaxSegText
      BY <2>2 DEF Short
    <3>2. c.len \in 1..MaxSegText
      BY <2>1, <3>1 DEF SomeCell
    <3> QED BY <3>1, <3>2 DEF Cell, SomeCell
  <2>3. cells \subseteq Cell /\ storedCells \subseteq Cell /\ fetch.page \subseteq Cell
    BY <2>2 DEF SegInv, SegTypes, SegBounds
  <2>4. waitingText \in [Segments -> 0..MaxSegText]
    <3>1. ASSUME NEW g \in Segments PROVE waitingText[g] \in 0..MaxSegText
      BY <2>1 DEF SegInv, SegTypes, SegBounds
    <3> QED BY <3>1 DEF SegInv, SegTypes
  <2> QED BY <2>3, <2>4 DEF SegTypeOK, SegInv, SegTypes
<1> QED BY <1>1, <1>2, <1>3, SegmentsAreKept, PTL DEF SegSpec

-----------------------------------------------------------------------------
(* The live chat *)

ChatRecords ==
  [mounted : BOOLEAN, status : ChatStatus, asking : Nat, recorder : Nat, live : SUBSET Nat,
   stopping : SUBSET Nat, discard : BOOLEAN, transcribing : Nat, sending : Nat, restart : BOOLEAN,
   queue : Seq(Nat), complete : BOOLEAN, runner : {"off", "synthesis", "playback"},
   stale : BOOLEAN, speech : Nat, playing : Nat]

\* The refs fit the turn t: what is queued, played, and synthesized for a run that is
\* not outdated is of t, and a closed drawer holds nothing.
SpeaksFor(c, t) ==
  /\ c \in ChatRecords
  /\ \A i \in 1..Len(c.queue) : c.queue[i] = t
  /\ c.runner = "synthesis" /\ ~c.stale /\ c.mounted => c.speech = t
  /\ c.playing # 0 => c.mounted /\ c.runner = "playback" /\ c.playing = t
  /\ ~c.mounted => c.recorder = 0 /\ ~c.restart

ChatInv == turnNow \in Nat /\ SpeaksFor(chat, turnNow)

\* A state that is shown or a microphone that is asked for disturbs nothing.
LEMMA ShowFits ==
  ASSUME NEW t \in Nat, NEW c, SpeaksFor(c, t), NEW st \in ChatStatus
  PROVE  /\ SpeaksFor(Show(c, st), t) /\ SpeaksFor(ScheduleRestart(c, st), t)
         /\ Show(c, st).runner = c.runner /\ Show(c, st).mounted = c.mounted
         /\ Show(c, st).playing = c.playing /\ Show(c, st).recorder = c.recorder
         /\ ScheduleRestart(c, st).playing = c.playing
<1>1. [c EXCEPT !.status = st] \in ChatRecords /\ [c EXCEPT !.status = st, !.restart = TRUE] \in ChatRecords
  BY DEF SpeaksFor, ChatRecords
<1> QED BY <1>1, ZenonT(30) DEF SpeaksFor, ChatRecords, Show, ScheduleRestart

\* A new generation plays nothing and has an empty queue: it fits every turn.
LEMMA SilenceFits ==
  ASSUME NEW t \in Nat, NEW s \in Nat, NEW c, SpeaksFor(c, t)
  PROVE  /\ SpeaksFor(Silence(c), s) /\ Silence(c).playing = 0
         /\ Silence(c).runner = c.runner /\ Silence(c).mounted = c.mounted /\ Silence(c).recorder = c.recorder
         /\ Silence(c).restart = c.restart
<1> DEFINE quiet == [c EXCEPT !.stale = c.stale \/ c.runner # "off", !.queue = <<>>,
                              !.complete = FALSE, !.playing = 0]
<1>1. Silence(c) = quiet
  BY DEF Silence
<1>2. c \in ChatRecords
  BY DEF SpeaksFor
<1>3. (c.stale \/ c.runner # "off") \in BOOLEAN /\ <<>> \in Seq(Nat) /\ Len(<<>>) = 0
  OBVIOUS
<1>4. quiet \in ChatRecords
  BY <1>2, <1>3 DEF ChatRecords
<1>5. quiet.queue = <<>> /\ quiet.playing = 0 /\ quiet.runner = c.runner /\ quiet.mounted = c.mounted
      /\ quiet.recorder = c.recorder /\ quiet.restart = c.restart /\ (quiet.runner # "off" => quiet.stale)
  BY <1>2 DEF ChatRecords
<1> HIDE DEF quiet
<1> QED BY <1>1, <1>3, <1>4, <1>5 DEF SpeaksFor

\* The recorder that is stopped is nobody's; a drawer that is closed has none.
LEMMA StopListeningFits ==
  ASSUME NEW t \in Nat, NEW c \in ChatRecords, SpeaksFor([c EXCEPT !.recorder = 0], t), ~c.mounted => ~c.restart
  PROVE  SpeaksFor(StopListening(c), t) /\ StopListening(c).playing = c.playing
<1> DEFINE stopped == [c EXCEPT !.live = c.live \ {c.recorder}, !.stopping = c.stopping \cup {c.recorder},
                                !.recorder = 0]
<1>1. CASE c.recorder = 0
  <2>1. [c EXCEPT !.recorder = 0] = c
    BY <1>1 DEF ChatRecords
  <2> QED BY <1>1, <2>1 DEF StopListening
<1>2. CASE c.recorder # 0
  <2>1. c.live \ {c.recorder} \in SUBSET Nat /\ c.stopping \cup {c.recorder} \in SUBSET Nat
    BY DEF ChatRecords
  <2>2. stopped \in ChatRecords
    BY <2>1 DEF ChatRecords
  <2>3. SpeaksFor(stopped, t) /\ stopped.playing = c.playing
    BY <2>2 DEF SpeaksFor, ChatRecords
  <2>4. StopListening(c) = Show(stopped, "transcribing")
    BY <1>2 DEF StopListening
  <2> HIDE DEF stopped
  <2> QED BY <2>3, <2>4, ShowFits DEF ChatStatus
<1> QED BY <1>1, <1>2

\* A microphone is asked for in silence.
LEMMA StartListeningFits ==
  ASSUME NEW t \in Nat, NEW c, SpeaksFor(c, t)
  PROVE  SpeaksFor(StartListening(c), t) /\ (c.playing = 0 => StartListening(c).playing = 0)
<1> DEFINE quiet == Show(Silence(c), "idle")
           asks == [quiet EXCEPT !.status = "starting", !.asking = quiet.asking + 1]
<1>1. SpeaksFor(quiet, t) /\ quiet.playing = 0
  BY SilenceFits, ShowFits DEF ChatStatus
<1>2. StartListening(c) = c \/ StartListening(c) = asks
  BY DEF StartListening, StopSpeaking
<1> HIDE DEF quiet
<1>3. asks \in ChatRecords
  <2>1. quiet \in ChatRecords /\ "starting" \in ChatStatus
    BY <1>1 DEF SpeaksFor, ChatStatus
  <2>2. quiet.asking + 1 \in Nat
    BY <2>1 DEF ChatRecords
  <2> QED BY <2>1, <2>2 DEF ChatRecords
<1>4. SpeaksFor(asks, t) /\ asks.playing = 0
  BY <1>1, <1>3 DEF SpeaksFor, ChatRecords
<1> QED BY <1>2, <1>4

\* The runner goes on with the queue: nothing is played before it is synthesized.
LEMMA NextSpeechFits ==
  ASSUME NEW t \in Nat, NEW c, SpeaksFor(c, t), c.playing = 0
  PROVE  SpeaksFor(NextSpeech(c), t) /\ NextSpeech(c).playing = 0
<1>1. c \in ChatRecords
  BY DEF SpeaksFor
<1>2. ASSUME NEW d, SpeaksFor(d, t), d.playing = 0
      PROVE  /\ SpeaksFor([d EXCEPT !.runner = "off", !.stale = FALSE], t)
             /\ [d EXCEPT !.runner = "off", !.stale = FALSE].playing = 0
  <2>1. [d EXCEPT !.runner = "off", !.stale = FALSE] \in ChatRecords
    BY <1>2 DEF SpeaksFor, ChatRecords
  <2> QED BY <1>2, <2>1 DEF SpeaksFor, ChatRecords
<1>3. CASE ~c.mounted \/ c.stale
  BY <1>2, <1>3 DEF NextSpeech
<1>4. CASE c.mounted /\ ~c.stale /\ c.queue # <<>>
  <2> DEFINE next == [c EXCEPT !.runner = "synthesis", !.speech = Head(c.queue), !.queue = Tail(c.queue),
                               !.status = "speaking"]
  <2>1. /\ Head(c.queue) = t /\ Tail(c.queue) \in Seq(Nat)
        /\ \A i \in 1..Len(Tail(c.queue)) : Tail(c.queue)[i] = t
    <3>1. c.queue \in Seq(Nat) /\ \A i \in 1..Len(c.queue) : c.queue[i] = t
      BY <1>1 DEF ChatRecords, SpeaksFor
    <3>2. /\ Tail(c.queue) \in Seq(Nat) /\ Len(Tail(c.queue)) = Len(c.queue) - 1 /\ Len(c.queue) \in Nat
          /\ 1 \in 1..Len(c.queue) /\ Head(c.queue) = c.queue[1]
          /\ \A i \in 1..Len(Tail(c.queue)) : Tail(c.queue)[i] = c.queue[i + 1]
      BY <3>1, <1>4, HeadTailProperties, EmptySeq
    <3>3. \A i \in 1..Len(Tail(c.queue)) : i + 1 \in 1..Len(c.queue)
      BY <3>2
    <3> QED BY <3>1, <3>2, <3>3
  <2>2. next \in ChatRecords
    BY <1>1, <2>1 DEF ChatRecords, ChatStatus
  <2>3. next.queue = Tail(c.queue) /\ next.speech = t /\ next.playing = 0 /\ next.mounted = c.mounted
        /\ next.recorder = c.recorder /\ next.restart = c.restart
    BY <1>1, <2>1 DEF ChatRecords
  <2>4. NextSpeech(c) = next
    BY <1>4 DEF NextSpeech
  <2> HIDE DEF next
  <2> QED BY <1>4, <2>1, <2>2, <2>3, <2>4 DEF SpeaksFor
<1>5. CASE c.mounted /\ ~c.stale /\ c.queue = <<>>
  <2> DEFINE ended == IF c.complete THEN StartListening(Show(c, "idle")) ELSE Show(c, "waiting")
  <2>1. SpeaksFor(ended, t) /\ ended.playing = 0
    BY ShowFits, StartListeningFits DEF ChatStatus
  <2>2. NextSpeech(c) = [ended EXCEPT !.runner = "off", !.stale = FALSE]
    BY <1>5 DEF NextSpeech
  <2> HIDE DEF ended
  <2> QED BY <1>2, <2>1, <2>2
<1> QED BY <1>1, <1>3, <1>4, <1>5 DEF ChatRecords

\* The same for a run that begins, for its finally clause, and with one more text.
LEMMA RunFits ==
  ASSUME NEW t \in Nat, NEW c, SpeaksFor(c, t)
  PROVE  /\ SpeaksFor(RunSpeechQueue(c), t)
         /\ c.playing = 0 => SpeaksFor(Resumed(c), t)
<1>1. c.runner = "off" => c.playing = 0
  BY DEF SpeaksFor
<1>2. SpeaksFor(RunSpeechQueue(c), t)
  BY <1>1, NextSpeechFits DEF RunSpeechQueue
<1>3. ASSUME c.playing = 0 PROVE SpeaksFor(Resumed(c), t)
  <2> DEFINE next == NextSpeech(c)
  <2>1. SpeaksFor(next, t) /\ next.playing = 0
    BY <1>3, NextSpeechFits
  <2>2. SpeaksFor(RunSpeechQueue(next), t)
    BY <2>1, NextSpeechFits DEF RunSpeechQueue
  <2> QED BY <2>1, <2>2 DEF Resumed
<1> QED BY <1>2, <1>3

\* A text of the turn is queued to be spoken; the oldest goes when the queue is full.
LEMMA EnqueueFits ==
  ASSUME NEW t \in Nat, NEW c, SpeaksFor(c, t), ChatAssumption
  PROVE  SpeaksFor(EnqueueSpeech(c, t), t)
<1> DEFINE room == IF Len(c.queue) >= MaxEntries THEN Tail(c.queue) ELSE c.queue
           more == [c EXCEPT !.queue = Append(room, t)]
<1>1. c \in ChatRecords /\ c.queue \in Seq(Nat) /\ \A i \in 1..Len(c.queue) : c.queue[i] = t
  BY DEF SpeaksFor, ChatRecords
<1>2. room \in Seq(Nat) /\ \A i \in 1..Len(room) : room[i] = t
  <2>1. CASE Len(c.queue) >= MaxEntries
    <3>1. c.queue # <<>>
      BY <2>1, <1>1 DEF ChatAssumption
    <3>2. /\ Tail(c.queue) \in Seq(Nat) /\ Len(Tail(c.queue)) = Len(c.queue) - 1 /\ Len(c.queue) \in Nat
          /\ \A i \in 1..Len(Tail(c.queue)) : Tail(c.queue)[i] = c.queue[i + 1]
      BY <3>1, <1>1, HeadTailProperties
    <3>3. \A i \in 1..Len(Tail(c.queue)) : i + 1 \in 1..Len(c.queue)
      BY <3>2
    <3> QED BY <1>1, <2>1, <3>2, <3>3
  <2>2. CASE ~(Len(c.queue) >= MaxEntries)
    BY <1>1, <2>2
  <2> QED BY <2>1, <2>2
<1> HIDE DEF room
<1>3. Append(room, t) \in Seq(Nat) /\ \A i \in 1..Len(Append(room, t)) : Append(room, t)[i] = t
  BY <1>2
<1>4. more \in ChatRecords
  BY <1>1, <1>3 DEF ChatRecords
<1>5. SpeaksFor(more, t)
  BY <1>1, <1>3, <1>4 DEF SpeaksFor, ChatRecords
<1>6. EnqueueSpeech(c, t) = RunSpeechQueue(more)
  BY DEF EnqueueSpeech, room
<1> HIDE DEF more
<1> QED BY <1>5, <1>6, RunFits

\* Each callback of the drawer keeps it.
LEMMA ChatNextKeeps == ChatAssumption /\ ChatInv /\ [ChatNext]_chatVars => ChatInv'
<1> SUFFICES ASSUME ChatAssumption, ChatInv, [ChatNext]_chatVars PROVE ChatInv'
  OBVIOUS
<1>t. chat \in ChatRecords /\ turnNow \in Nat /\ SpeaksFor(chat, turnNow)
  BY DEF ChatInv, SpeaksFor
<1>s. \A st \in {"starting", "listening", "transcribing", "waiting", "speaking", "idle", "error"} : st \in ChatStatus
  BY DEF ChatStatus
<1>1. CASE UNCHANGED chatVars
  BY <1>1 DEF ChatInv, chatVars
<1>2. CASE MicrophoneGranted
  <2>0. chat.asking \in Nat /\ chat.asking > 0
    BY <1>2, <1>t DEF MicrophoneGranted, ChatRecords
  <2>1. chat.asking - 1 \in Nat /\ turnNow' = turnNow
    <3>1. chat.asking - 1 \in Nat
      BY <2>0
    <3>2. turnNow' = turnNow
      BY <1>2 DEF MicrophoneGranted
    <3> QED BY <3>1, <3>2
  <2>2. CASE ~chat.mounted
    <3>1. chat' = [chat EXCEPT !.asking = chat.asking - 1]
      BY <1>2, <2>2 DEF MicrophoneGranted
    <3>2. chat' \in ChatRecords
      BY <3>1, <2>1, <1>t DEF ChatRecords
    <3> QED BY <3>1, <3>2, <2>1, <1>t DEF ChatInv, SpeaksFor, ChatRecords
  <2>3. CASE chat.mounted
    <3>1. PICK r \in Recorders \ (chat.live \cup chat.stopping) :
            chat' = [chat EXCEPT !.asking = chat.asking - 1, !.recorder = r, !.live = chat.live \cup {r},
                                 !.discard = FALSE, !.status = "listening"]
      BY <1>2, <2>3 DEF MicrophoneGranted
    <3>2. r \in Nat /\ chat.live \cup {r} \in SUBSET Nat
      BY <1>t DEF ChatRecords, Recorders, ChatAssumption
    <3>3. chat' \in ChatRecords
      BY <3>1, <3>2, <2>1, <1>t, <1>s DEF ChatRecords
    <3> QED BY <3>1, <3>3, <2>1, <2>3, <1>t DEF ChatInv, SpeaksFor, ChatRecords
  <2> QED BY <2>2, <2>3
<1>3. CASE MicrophoneRefused
  <2> DEFINE c == [chat EXCEPT !.asking = chat.asking - 1]
  <2>1. chat' = Show(StopListening(c), "error") /\ turnNow' = turnNow /\ chat.asking - 1 \in Nat
    BY <1>3, <1>t DEF MicrophoneRefused, ChatRecords
  <2>2. c \in ChatRecords /\ [c EXCEPT !.recorder = 0] \in ChatRecords
    BY <2>1, <1>t DEF ChatRecords
  <2>3. SpeaksFor([c EXCEPT !.recorder = 0], turnNow) /\ (~c.mounted => ~c.restart)
    BY <2>2, <1>t DEF SpeaksFor, ChatRecords
  <2> HIDE DEF c
  <2>4. SpeaksFor(StopListening(c), turnNow)
    BY <2>2, <2>3, <1>t, StopListeningFits
  <2> QED BY <2>1, <2>4, <1>t, <1>s, ShowFits DEF ChatInv
<1>4. CASE Silent
  <2>1. PICK large \in BOOLEAN : chat' = StopListening([chat EXCEPT !.discard = chat.discard \/ large])
    BY <1>4 DEF Silent
  <2> DEFINE c == [chat EXCEPT !.discard = chat.discard \/ large]
  <2>2. c \in ChatRecords /\ [c EXCEPT !.recorder = 0] \in ChatRecords
    BY <1>t DEF ChatRecords
  <2>3. SpeaksFor([c EXCEPT !.recorder = 0], turnNow) /\ (~c.mounted => ~c.restart)
    BY <2>2, <1>t, SMTT(20) DEF SpeaksFor, ChatRecords
  <2> HIDE DEF c
  <2>4. SpeaksFor(StopListening(c), turnNow)
    BY <2>2, <2>3, <1>t, StopListeningFits
  <2>5. turnNow' = turnNow
    BY <1>4 DEF Silent
  <2> QED BY <2>1, <2>4, <2>5, <1>t DEF ChatInv, c
<1>5. CASE Transcribed
  <2> DEFINE c == [chat EXCEPT !.transcribing = chat.transcribing - 1]
             more == c.sending + (IF c.mounted THEN 1 ELSE 0)
  <2>1. turnNow' = turnNow /\ chat.transcribing - 1 \in Nat
        /\ \/ \E st \in {"idle", "error"} : chat' = ScheduleRestart(c, st)
           \/ chat' = [c EXCEPT !.sending = more]
    BY <1>5, <1>t DEF Transcribed, ChatRecords
  <2>2. c \in ChatRecords
    BY <2>1, <1>t DEF ChatRecords
  <2>3. SpeaksFor(c, turnNow)
    BY <2>2, <1>t DEF SpeaksFor, ChatRecords
  <2> HIDE DEF c
  <2>4. more \in Nat
    BY <2>2 DEF ChatRecords
  <2> HIDE DEF more
  <2>5. [c EXCEPT !.sending = more] \in ChatRecords
    BY <2>2, <2>4 DEF ChatRecords
  <2>6. SpeaksFor([c EXCEPT !.sending = more], turnNow)
    BY <2>2, <2>3, <2>5 DEF SpeaksFor, ChatRecords
  <2>7. \A st \in {"idle", "error"} : SpeaksFor(ScheduleRestart(c, st), turnNow)
    BY <2>3, <1>t, <1>s, ShowFits
  <2> QED BY <2>1, <2>6, <2>7, <1>t DEF ChatInv
<1>6. CASE Sent
  <2> DEFINE c == [chat EXCEPT !.sending = chat.sending - 1]
  <2>1. turnNow' = turnNow /\ chat.sending - 1 \in Nat
        /\ (chat' = Show(c, "waiting") \/ chat' = ScheduleRestart(c, "error"))
    BY <1>6, <1>t DEF Sent, ChatRecords
  <2>2. c \in ChatRecords
    BY <2>1, <1>t DEF ChatRecords
  <2>3. SpeaksFor(c, turnNow)
    BY <2>2, <1>t DEF SpeaksFor, ChatRecords
  <2> HIDE DEF c
  <2> QED BY <2>1, <2>3, <1>t, <1>s, ShowFits DEF ChatInv
<1>7. CASE RestartFires
  <2> DEFINE c == [chat EXCEPT !.restart = FALSE]
  <2>1. turnNow' = turnNow /\ chat' = StartListening(c)
    BY <1>7 DEF RestartFires
  <2>2. c \in ChatRecords
    BY <1>t DEF ChatRecords
  <2>3. SpeaksFor(c, turnNow)
    BY <2>2, <1>t DEF SpeaksFor, ChatRecords
  <2> HIDE DEF c
  <2> QED BY <2>1, <2>3, <1>t, StartListeningFits DEF ChatInv
<1>8. CASE TurnStreams
  <2>1. turnNow' = turnNow + 1 /\ chat' = Silence(chat)
    BY <1>8 DEF TurnStreams
  <2>2. turnNow + 1 \in Nat
    BY <1>t
  <2> QED BY <2>1, <2>2, <1>t, SilenceFits DEF ChatInv
<1>9. CASE SentenceReady
  BY <1>9, <1>t, EnqueueFits DEF SentenceReady, ChatInv
<1>10. CASE ResponseFinal
  <2> DEFINE c == [chat EXCEPT !.complete = TRUE]
  <2>1. turnNow' = turnNow /\ (chat' = RunSpeechQueue(c) \/ chat' = EnqueueSpeech(c, turnNow))
    BY <1>10 DEF ResponseFinal
  <2>2. c \in ChatRecords
    BY <1>t DEF ChatRecords
  <2>3. SpeaksFor(c, turnNow)
    BY <2>2, <1>t DEF SpeaksFor, ChatRecords
  <2> HIDE DEF c
  <2> QED BY <2>1, <2>3, <1>t, RunFits, EnqueueFits DEF ChatInv
<1>11. CASE Synthesized
  <2>0. turnNow' = turnNow /\ chat.runner = "synthesis" /\ chat.playing = 0
    BY <1>11, <1>t DEF Synthesized, SpeaksFor
  <2>1. CASE chat.mounted /\ ~chat.stale /\ chat' = [chat EXCEPT !.runner = "playback", !.playing = chat.speech]
    <3>1. chat' \in ChatRecords
      BY <2>1, <1>t DEF ChatRecords
    <3> QED BY <2>0, <2>1, <3>1, <1>t DEF ChatInv, SpeaksFor, ChatRecords
  <2>2. CASE chat' = Resumed(chat)
    BY <2>0, <2>2, <1>t, RunFits DEF ChatInv
  <2>3. CASE chat' = RunSpeechQueue([ScheduleRestart(chat, "error") EXCEPT !.runner = "off"])
    <3> DEFINE c == ScheduleRestart(chat, "error")
               d == [c EXCEPT !.runner = "off"]
    <3>1. SpeaksFor(c, turnNow) /\ c.playing = 0
      BY <2>0, <1>t, <1>s, ShowFits
    <3> HIDE DEF c
    <3>2. d \in ChatRecords
      BY <3>1 DEF SpeaksFor, ChatRecords
    <3>3. SpeaksFor(d, turnNow)
      BY <3>1, <3>2 DEF SpeaksFor, ChatRecords
    <3> QED BY <2>0, <2>3, <3>3, <1>t, RunFits DEF ChatInv, c
  <2> QED BY <1>11, <2>1, <2>2, <2>3 DEF Synthesized
<1>12. CASE Played
  <2> DEFINE c == [chat EXCEPT !.playing = 0]
  <2>1. turnNow' = turnNow /\ chat' = Resumed(c)
    BY <1>12 DEF Played
  <2>2. c \in ChatRecords
    BY <1>t DEF ChatRecords
  <2>3. SpeaksFor(c, turnNow) /\ c.playing = 0
    BY <2>2, <1>t DEF SpeaksFor, ChatRecords
  <2> HIDE DEF c
  <2> QED BY <2>1, <2>3, <1>t, RunFits DEF ChatInv
<1>13. CASE AgentError
  BY <1>13, <1>t, <1>s, ShowFits DEF AgentError, ChatInv
<1>14. CASE Unmount
  <2> DEFINE c == [chat EXCEPT !.mounted = FALSE, !.restart = FALSE]
             d == [c EXCEPT !.stale = c.stale \/ c.runner # "off", !.queue = <<>>,
                            !.complete = FALSE, !.playing = 0]
  <2>1. turnNow' = turnNow /\ chat' = StopListening(d)
    BY <1>14 DEF Unmount, Silence
  <2>2. c \in ChatRecords /\ ~c.mounted /\ ~c.restart
    BY <1>t DEF ChatRecords
  <2> HIDE DEF c
  <2>3. <<>> \in Seq(Nat) /\ Len(<<>>) = 0 /\ (c.stale \/ c.runner # "off") \in BOOLEAN
    OBVIOUS
  <2>4. d \in ChatRecords /\ d.queue = <<>> /\ d.playing = 0 /\ ~d.mounted /\ ~d.restart
    BY <2>2, <2>3 DEF ChatRecords
  <2> HIDE DEF d
  <2>5. [d EXCEPT !.recorder = 0] \in ChatRecords
    BY <2>4 DEF ChatRecords
  <2>6. SpeaksFor([d EXCEPT !.recorder = 0], turnNow)
    <3> DEFINE e == [d EXCEPT !.recorder = 0]
    <3>1. e.queue = <<>> /\ e.playing = 0 /\ ~e.mounted /\ ~e.restart /\ e.recorder = 0
      BY <2>4 DEF ChatRecords
    <3> HIDE DEF e
    <3>2. SpeaksFor(e, turnNow)
      BY <2>3, <2>5, <3>1 DEF SpeaksFor, e
    <3> QED BY <3>2 DEF e
  <2> QED BY <2>1, <2>4, <2>6, <1>t, StopListeningFits DEF ChatInv
<1>15. ASSUME NEW r \in Recorders, RecorderStopped(r) PROVE ChatInv'
  <2> DEFINE c == [chat EXCEPT !.stopping = chat.stopping \ {r}, !.discard = FALSE]
             more == c.transcribing + (IF c.mounted THEN 1 ELSE 0)
             d == [c EXCEPT !.transcribing = more]
  <2>1. turnNow' = turnNow /\ (chat' = ScheduleRestart(c, "idle") \/ chat' = Show(d, "transcribing"))
    BY <1>15 DEF RecorderStopped
  <2>2. c \in ChatRecords
    BY <1>t DEF ChatRecords
  <2>3. SpeaksFor(c, turnNow)
    BY <2>2, <1>t DEF SpeaksFor, ChatRecords
  <2> HIDE DEF c
  <2>4. more \in Nat
    BY <2>2 DEF ChatRecords
  <2> HIDE DEF more
  <2>5. d \in ChatRecords
    BY <2>2, <2>4 DEF ChatRecords
  <2>6. SpeaksFor(d, turnNow)
    BY <2>2, <2>3, <2>5 DEF SpeaksFor, ChatRecords
  <2> HIDE DEF d
  <2> QED BY <2>1, <2>3, <2>6, <1>t, <1>s, ShowFits DEF ChatInv
<1> QED BY <1>1, <1>2, <1>3, <1>4, <1>5, <1>6, <1>7, <1>8, <1>9, <1>10, <1>11, <1>12, <1>13, <1>14, <1>15
       DEF ChatNext

\* The specification keeps it.
LEMMA ChatIsKept == ChatSpec => []ChatInv
<1>1. ChatInit => ChatInv
  <2> SUFFICES ASSUME ChatInit PROVE ChatInv
    OBVIOUS
  <2>1. <<>> \in Seq(Nat) /\ Len(<<>>) = 0 /\ {} \in SUBSET Nat
    OBVIOUS
  <2>2. chat \in ChatRecords
    BY <2>1 DEF ChatInit, ChatRecords, ChatStatus
  <2> QED BY <2>1, <2>2 DEF ChatInit, ChatInv, SpeaksFor
<1> QED BY <1>1, ChatNextKeeps, ChatAssumption, PTL DEF ChatSpec

\* What is played is of the newest turn, and a drawer that is closed is silent
\* and asks for no microphone (SpeaksNewestTurn).
THEOREM SpeaksOfNow == ChatSpec => []SpeaksNewestTurn
<1>1. ChatInv => SpeaksNewestTurn
  BY DEF ChatInv, SpeaksFor, SpeaksNewestTurn
<1> QED BY <1>1, ChatIsKept, PTL

\* The bounds of the refs: no more than n microphones are asked for, the recorders are
\* recorders, and what is synthesized is of a turn.
WithinChat(c, n) ==
  /\ c \in ChatRecords /\ c.asking <= n
  /\ c.recorder \in 0..MaxRecorders /\ c.live \subseteq Recorders /\ c.stopping \subseteq Recorders
  /\ c.speech <= MaxChatTurns

ChatBounds == WithinChat(chat, MaxRecorders) /\ turnNow <= MaxChatTurns /\ texts \in 0..MaxTexts

\* What is shown, a new generation, and a recorder that stops.
LEMMA ShowStaysWithin ==
  ASSUME NEW n \in Nat, NEW c, WithinChat(c, n), NEW st \in ChatStatus
  PROVE  /\ WithinChat(Show(c, st), n) /\ Show(c, st).queue = c.queue
         /\ WithinChat(ScheduleRestart(c, st), n) /\ ScheduleRestart(c, st).queue = c.queue
<1>1. [c EXCEPT !.status = st] \in ChatRecords /\ [c EXCEPT !.status = st, !.restart = TRUE] \in ChatRecords
  BY DEF WithinChat, ChatRecords
<1> DEFINE d == [c EXCEPT !.status = st]
           e == [c EXCEPT !.status = st, !.restart = TRUE]
<1>2. /\ d.asking = c.asking /\ d.recorder = c.recorder /\ d.live = c.live /\ d.stopping = c.stopping
      /\ d.speech = c.speech /\ d.queue = c.queue
      /\ e.asking = c.asking /\ e.recorder = c.recorder /\ e.live = c.live /\ e.stopping = c.stopping
      /\ e.speech = c.speech /\ e.queue = c.queue
  BY DEF WithinChat, ChatRecords
<1>3. Show(c, st) \in {c, d} /\ ScheduleRestart(c, st) \in {c, e}
  BY DEF Show, ScheduleRestart
<1> HIDE DEF d, e
<1>4. WithinChat(d, n) /\ WithinChat(e, n)
  BY <1>1, <1>2 DEF WithinChat, d, e
<1> QED BY <1>2, <1>3, <1>4

LEMMA SilenceStaysWithin ==
  ASSUME NEW n \in Nat, NEW c, WithinChat(c, n)
  PROVE  WithinChat(Silence(c), n)
<1> DEFINE quiet == [c EXCEPT !.stale = c.stale \/ c.runner # "off", !.queue = <<>>,
                              !.complete = FALSE, !.playing = 0]
<1>1. Silence(c) = quiet
  BY DEF Silence
<1>2. c \in ChatRecords
  BY DEF WithinChat
<1>3. (c.stale \/ c.runner # "off") \in BOOLEAN /\ <<>> \in Seq(Nat)
  OBVIOUS
<1>4. quiet \in ChatRecords
  BY <1>2, <1>3 DEF ChatRecords
<1>5. /\ quiet.asking = c.asking /\ quiet.recorder = c.recorder /\ quiet.live = c.live
      /\ quiet.stopping = c.stopping /\ quiet.speech = c.speech
  BY <1>2 DEF ChatRecords
<1> HIDE DEF quiet
<1> QED BY <1>1, <1>4, <1>5 DEF WithinChat

LEMMA StopListeningStaysWithin ==
  ASSUME NEW n \in Nat, NEW c, WithinChat(c, n), ChatAssumption
  PROVE  WithinChat(StopListening(c), n)
<1> DEFINE stopped == [c EXCEPT !.live = c.live \ {c.recorder}, !.stopping = c.stopping \cup {c.recorder},
                                !.recorder = 0]
<1>1. c \in ChatRecords /\ MaxRecorders \in Nat
  BY DEF WithinChat, ChatAssumption
<1>2. CASE c.recorder # 0
  <2>0. c.recorder \in Recorders
    BY <1>1, <1>2 DEF WithinChat, Recorders
  <2>1. c.live \ {c.recorder} \in SUBSET Nat /\ c.stopping \cup {c.recorder} \in SUBSET Nat
    BY <1>1 DEF ChatRecords
  <2>2. stopped \in ChatRecords
    BY <1>1, <2>1 DEF ChatRecords
  <2>3. /\ stopped.asking = c.asking /\ stopped.recorder = 0 /\ stopped.live = c.live \ {c.recorder}
        /\ stopped.stopping = c.stopping \cup {c.recorder} /\ stopped.speech = c.speech
    BY <1>1 DEF ChatRecords
  <2>4. StopListening(c) = Show(stopped, "transcribing") /\ "transcribing" \in ChatStatus /\ 0 \in 0..MaxRecorders
    BY <1>1, <1>2 DEF StopListening, ChatStatus
  <2> HIDE DEF stopped
  <2>5. WithinChat(stopped, n)
    BY <2>0, <2>2, <2>3, <2>4 DEF WithinChat
  <2> QED BY <2>4, <2>5, ShowStaysWithin
<1> QED BY <1>2 DEF StopListening

\* At most one more microphone is asked for.
LEMMA StartListeningStaysWithin ==
  ASSUME NEW n \in Nat, NEW c, WithinChat(c, n)
  PROVE  WithinChat(StartListening(c), n + 1)
<1> DEFINE quiet == Show(Silence(c), "idle")
           asks == [quiet EXCEPT !.status = "starting", !.asking = quiet.asking + 1]
<1>1. WithinChat(quiet, n) /\ "starting" \in ChatStatus
  BY SilenceStaysWithin, ShowStaysWithin DEF ChatStatus
<1>2. StartListening(c) = c \/ StartListening(c) = asks
  BY DEF StartListening, StopSpeaking
<1> HIDE DEF quiet
<1>3. quiet \in ChatRecords /\ quiet.asking \in Nat /\ quiet.asking + 1 \in Nat
  BY <1>1 DEF WithinChat, ChatRecords
<1>4. asks \in ChatRecords
  BY <1>1, <1>3 DEF ChatRecords
<1>5. /\ asks.asking = quiet.asking + 1 /\ asks.recorder = quiet.recorder /\ asks.live = quiet.live
      /\ asks.stopping = quiet.stopping /\ asks.speech = quiet.speech
  BY <1>3 DEF ChatRecords
<1> HIDE DEF asks
<1>6. WithinChat(asks, n + 1)
  BY <1>1, <1>3, <1>4, <1>5 DEF WithinChat
<1>7. c.asking \in Nat
  BY DEF WithinChat, ChatRecords
<1>8. WithinChat(c, n + 1)
  BY <1>7 DEF WithinChat
<1> QED BY <1>2, <1>6, <1>8

\* The runner asks for one only when nothing is queued.
LEMMA NextSpeechStaysWithin ==
  ASSUME NEW n \in Nat, NEW t \in 0..MaxChatTurns, NEW c, WithinChat(c, n), SpeaksFor(c, t), ChatAssumption
  PROVE  /\ WithinChat(NextSpeech(c), n + 1)
         /\ c.queue # <<>> => WithinChat(NextSpeech(c), n)
<1>1. c \in ChatRecords /\ c.asking \in Nat /\ MaxChatTurns \in Nat
  BY DEF WithinChat, ChatRecords, ChatAssumption
<1>2. WithinChat(c, n + 1)
  BY <1>1 DEF WithinChat
<1>3. ASSUME NEW m \in Nat, NEW d, WithinChat(d, m)
      PROVE  WithinChat([d EXCEPT !.runner = "off", !.stale = FALSE], m)
  <2>1. [d EXCEPT !.runner = "off", !.stale = FALSE] \in ChatRecords
    BY <1>3 DEF WithinChat, ChatRecords
  <2> QED BY <1>3, <2>1 DEF WithinChat, ChatRecords
<1>4. CASE ~c.mounted \/ c.stale
  <2>1. NextSpeech(c) = [c EXCEPT !.runner = "off", !.stale = FALSE] /\ n + 1 \in Nat
    BY <1>4 DEF NextSpeech
  <2> QED BY <2>1, <1>2, <1>3
<1>5. CASE c.mounted /\ ~c.stale /\ c.queue # <<>>
  <2> DEFINE next == [c EXCEPT !.runner = "synthesis", !.speech = Head(c.queue), !.queue = Tail(c.queue),
                               !.status = "speaking"]
  <2>1. c.queue \in Seq(Nat) /\ \A i \in 1..Len(c.queue) : c.queue[i] = t
    BY <1>1 DEF ChatRecords, SpeaksFor
  <2>2. Tail(c.queue) \in Seq(Nat) /\ 1 \in 1..Len(c.queue) /\ Head(c.queue) = c.queue[1]
    BY <2>1, <1>5, HeadTailProperties, EmptySeq
  <2>3. Head(c.queue) = t /\ t \in Nat /\ t <= MaxChatTurns
    BY <2>1, <2>2, <1>1
  <2>4. next \in ChatRecords
    BY <1>1, <2>2, <2>3 DEF ChatRecords, ChatStatus
  <2>5. /\ next.asking = c.asking /\ next.recorder = c.recorder /\ next.live = c.live
        /\ next.stopping = c.stopping /\ next.speech = t
    BY <1>1, <2>3 DEF ChatRecords
  <2>6. NextSpeech(c) = next
    BY <1>5 DEF NextSpeech
  <2> HIDE DEF next
  <2>7. WithinChat(next, n)
    BY <2>3, <2>4, <2>5 DEF WithinChat
  <2>8. WithinChat(next, n + 1)
    BY <1>1, <2>3, <2>4, <2>5 DEF WithinChat
  <2> QED BY <2>6, <2>7, <2>8
<1>6. CASE c.mounted /\ ~c.stale /\ c.queue = <<>>
  <2> DEFINE ended == IF c.complete THEN StartListening(Show(c, "idle")) ELSE Show(c, "waiting")
  <2>1. WithinChat(ended, n + 1) /\ n + 1 \in Nat
    <3>1. \A st \in {"idle", "waiting"} : st \in ChatStatus
      BY DEF ChatStatus
    <3>2. WithinChat(StartListening(Show(c, "idle")), n + 1)
      BY <3>1, ShowStaysWithin, StartListeningStaysWithin
    <3>3. WithinChat(Show(c, "waiting"), n + 1)
      BY <3>1, <1>2, ShowStaysWithin
    <3> QED BY <3>2, <3>3
  <2>2. NextSpeech(c) = [ended EXCEPT !.runner = "off", !.stale = FALSE]
    BY <1>6 DEF NextSpeech
  <2> HIDE DEF ended
  <2> QED BY <1>3, <1>6, <2>1, <2>2
<1>7. c.mounted \in BOOLEAN /\ c.stale \in BOOLEAN
  BY <1>1 DEF ChatRecords
<1> QED BY <1>4, <1>5, <1>6, <1>7

\* The same for a run that begins, for its finally clause, and with one more text.
LEMMA RunStaysWithin ==
  ASSUME NEW n \in Nat, NEW t \in 0..MaxChatTurns, NEW c, WithinChat(c, n), SpeaksFor(c, t), ChatAssumption
  PROVE  /\ WithinChat(RunSpeechQueue(c), n + 1)
         /\ c.queue # <<>> => WithinChat(RunSpeechQueue(c), n)
         /\ c.playing = 0 => WithinChat(Resumed(c), n + 1)
<1>1. c.asking \in Nat /\ n + 1 \in Nat /\ t \in Nat
  BY DEF WithinChat, ChatRecords, ChatAssumption
<1>2. WithinChat(c, n + 1)
  BY <1>1 DEF WithinChat
<1>3. WithinChat(RunSpeechQueue(c), n + 1) /\ (c.queue # <<>> => WithinChat(RunSpeechQueue(c), n))
  BY <1>2, NextSpeechStaysWithin DEF RunSpeechQueue
<1>4. ASSUME c.playing = 0 PROVE WithinChat(Resumed(c), n + 1)
  <2> DEFINE next == NextSpeech(c)
  <2>1. WithinChat(next, n + 1) /\ SpeaksFor(next, t)
    BY <1>1, <1>4, NextSpeechStaysWithin, NextSpeechFits
  <2> HIDE DEF next
  <2>2. next.queue # <<>> => WithinChat(RunSpeechQueue(next), n + 1)
    BY <2>1, <1>1, NextSpeechStaysWithin DEF RunSpeechQueue
  <2> QED BY <2>1, <2>2 DEF Resumed, next
<1> QED BY <1>3, <1>4

LEMMA EnqueueStaysWithin ==
  ASSUME NEW n \in Nat, NEW t \in 0..MaxChatTurns, NEW c, WithinChat(c, n), SpeaksFor(c, t), ChatAssumption
  PROVE  WithinChat(EnqueueSpeech(c, t), n)
<1> DEFINE room == IF Len(c.queue) >= MaxEntries THEN Tail(c.queue) ELSE c.queue
           more == [c EXCEPT !.queue = Append(room, t)]
<1>0. t \in Nat
  BY DEF ChatAssumption
<1>1. c \in ChatRecords /\ c.queue \in Seq(Nat) /\ \A i \in 1..Len(c.queue) : c.queue[i] = t
  BY DEF SpeaksFor, ChatRecords
<1>2. room \in Seq(Nat) /\ \A i \in 1..Len(room) : room[i] = t
  <2>1. CASE Len(c.queue) >= MaxEntries
    <3>1. c.queue # <<>>
      BY <2>1, <1>1 DEF ChatAssumption
    <3>2. /\ Tail(c.queue) \in Seq(Nat) /\ Len(Tail(c.queue)) = Len(c.queue) - 1 /\ Len(c.queue) \in Nat
          /\ \A i \in 1..Len(Tail(c.queue)) : Tail(c.queue)[i] = c.queue[i + 1]
      BY <3>1, <1>1, HeadTailProperties
    <3>3. \A i \in 1..Len(Tail(c.queue)) : i + 1 \in 1..Len(c.queue)
      BY <3>2
    <3> QED BY <1>1, <2>1, <3>2, <3>3
  <2>2. CASE ~(Len(c.queue) >= MaxEntries)
    BY <1>1, <2>2
  <2> QED BY <2>1, <2>2
<1> HIDE DEF room
<1>3. /\ Append(room, t) \in Seq(Nat) /\ \A i \in 1..Len(Append(room, t)) : Append(room, t)[i] = t
  BY <1>0, <1>2
<1>4. Append(room, t) # <<>>
  BY <1>0, <1>2, AppendProperties
<1>5. more \in ChatRecords
  BY <1>1, <1>3 DEF ChatRecords
<1>6. SpeaksFor(more, t) /\ WithinChat(more, n) /\ more.queue # <<>>
  BY <1>1, <1>3, <1>4, <1>5 DEF SpeaksFor, WithinChat, ChatRecords
<1>7. EnqueueSpeech(c, t) = RunSpeechQueue(more)
  BY DEF EnqueueSpeech, room
<1> HIDE DEF more
<1> QED BY <1>6, <1>7, RunStaysWithin

\* Every callback keeps the bounds.
LEMMA ChatNextStaysWithin == ChatAssumption /\ ChatInv /\ ChatBounds /\ [ChatNext]_chatVars => ChatBounds'
<1> SUFFICES ASSUME ChatAssumption, ChatInv, ChatBounds, [ChatNext]_chatVars PROVE ChatBounds'
  OBVIOUS
<1>t. /\ chat \in ChatRecords /\ WithinChat(chat, MaxRecorders) /\ SpeaksFor(chat, turnNow)
      /\ turnNow \in 0..MaxChatTurns /\ MaxRecorders \in Nat /\ chat.asking \in Nat
  BY DEF ChatInv, SpeaksFor, ChatBounds, ChatAssumption, ChatRecords
<1>s. \A st \in {"starting", "listening", "transcribing", "waiting", "speaking", "idle", "error"} : st \in ChatStatus
  BY DEF ChatStatus
<1>n. turnNow \in Nat
  BY DEF ChatInv
<1>b. ASSUME WithinChat(chat', MaxRecorders), UNCHANGED <<turnNow, texts>> PROVE ChatBounds'
  BY <1>b DEF ChatBounds
<1>r. MaxRecorders = (MaxRecorders - 1) + 1 /\ (chat.asking < MaxRecorders => MaxRecorders - 1 \in Nat)
  BY <1>t
<1>1. CASE UNCHANGED chatVars
  BY <1>1 DEF ChatBounds, chatVars
<1>2. CASE MicrophoneGranted
  <2>0. chat.asking - 1 \in Nat /\ chat.asking - 1 <= MaxRecorders
    <3>1. chat.asking > 0
      BY <1>2 DEF MicrophoneGranted
    <3> QED BY <3>1, <1>t DEF WithinChat
  <2>2. CASE ~chat.mounted
    <3> DEFINE c == [chat EXCEPT !.asking = chat.asking - 1]
    <3>1. chat' = c /\ UNCHANGED <<turnNow, texts>>
      BY <1>2, <2>2 DEF MicrophoneGranted
    <3>2. /\ c \in ChatRecords /\ c.asking = chat.asking - 1 /\ c.recorder = chat.recorder /\ c.live = chat.live
          /\ c.stopping = chat.stopping /\ c.speech = chat.speech
      BY <2>0, <1>t DEF ChatRecords
    <3> HIDE DEF c
    <3>3. WithinChat(c, MaxRecorders)
      BY <3>2, <2>0, <1>t DEF WithinChat
    <3> QED BY <3>1, <3>3, <1>b
  <2>3. CASE chat.mounted
    <3>1. PICK r \in Recorders \ (chat.live \cup chat.stopping) :
            chat' = [chat EXCEPT !.asking = chat.asking - 1, !.recorder = r, !.live = chat.live \cup {r},
                                 !.discard = FALSE, !.status = "listening"]
      BY <1>2, <2>3 DEF MicrophoneGranted
    <3> DEFINE c == [chat EXCEPT !.asking = chat.asking - 1, !.recorder = r, !.live = chat.live \cup {r},
                                 !.discard = FALSE, !.status = "listening"]
    <3>2. r \in Nat /\ r \in Recorders /\ r \in 0..MaxRecorders /\ chat.live \cup {r} \in SUBSET Nat
      BY <1>t DEF ChatRecords, Recorders
    <3>3. /\ c \in ChatRecords /\ c.asking = chat.asking - 1 /\ c.recorder = r /\ c.live = chat.live \cup {r}
          /\ c.stopping = chat.stopping /\ c.speech = chat.speech
      BY <3>2, <2>0, <1>t, <1>s DEF ChatRecords
    <3>4. chat' = c /\ UNCHANGED <<turnNow, texts>>
      BY <3>1, <1>2 DEF MicrophoneGranted
    <3> HIDE DEF c
    <3>5. WithinChat(c, MaxRecorders)
      BY <3>2, <3>3, <2>0, <1>t DEF WithinChat
    <3> QED BY <3>4, <3>5, <1>b
  <2> QED BY <2>2, <2>3
<1>3. CASE MicrophoneRefused
  <2> DEFINE c == [chat EXCEPT !.asking = chat.asking - 1]
  <2>1. /\ chat' = Show(StopListening(c), "error") /\ UNCHANGED <<turnNow, texts>>
        /\ chat.asking - 1 \in Nat /\ chat.asking - 1 <= MaxRecorders
    BY <1>3, <1>t DEF MicrophoneRefused, WithinChat
  <2>2. /\ c \in ChatRecords /\ c.asking = chat.asking - 1 /\ c.recorder = chat.recorder /\ c.live = chat.live
        /\ c.stopping = chat.stopping /\ c.speech = chat.speech
    BY <2>1, <1>t DEF ChatRecords
  <2> HIDE DEF c
  <2>3. WithinChat(c, MaxRecorders)
    BY <2>1, <2>2, <1>t DEF WithinChat
  <2>4. WithinChat(Show(StopListening(c), "error"), MaxRecorders)
    BY <2>3, <1>t, <1>s, StopListeningStaysWithin, ShowStaysWithin
  <2> QED BY <2>1, <2>4, <1>b
<1>4. CASE Silent
  <2>1. PICK large \in BOOLEAN : chat' = StopListening([chat EXCEPT !.discard = chat.discard \/ large])
    BY <1>4 DEF Silent
  <2> DEFINE c == [chat EXCEPT !.discard = chat.discard \/ large]
  <2>2. /\ c \in ChatRecords /\ c.asking = chat.asking /\ c.recorder = chat.recorder /\ c.live = chat.live
        /\ c.stopping = chat.stopping /\ c.speech = chat.speech
    BY <1>t DEF ChatRecords
  <2>3. chat' = StopListening(c) /\ UNCHANGED <<turnNow, texts>>
    BY <2>1, <1>4 DEF Silent
  <2> HIDE DEF c
  <2>4. WithinChat(c, MaxRecorders)
    BY <2>2, <1>t DEF WithinChat
  <2> QED BY <2>3, <2>4, <1>t, <1>b, StopListeningStaysWithin
<1>5. CASE Transcribed
  <2> DEFINE c == [chat EXCEPT !.transcribing = chat.transcribing - 1]
             more == c.sending + (IF c.mounted THEN 1 ELSE 0)
             d == [c EXCEPT !.sending = more]
  <2>1. /\ UNCHANGED <<turnNow, texts>> /\ chat.transcribing - 1 \in Nat
        /\ \/ \E st \in {"idle", "error"} : chat' = ScheduleRestart(c, st)
           \/ chat' = d
    BY <1>5, <1>t DEF Transcribed, ChatRecords
  <2>2. /\ c \in ChatRecords /\ c.asking = chat.asking /\ c.recorder = chat.recorder /\ c.live = chat.live
        /\ c.stopping = chat.stopping /\ c.speech = chat.speech
    BY <2>1, <1>t DEF ChatRecords
  <2> HIDE DEF c
  <2>3. WithinChat(c, MaxRecorders)
    BY <2>2, <1>t DEF WithinChat
  <2>4. more \in Nat
    BY <2>2 DEF ChatRecords
  <2> HIDE DEF more
  <2>5. /\ d \in ChatRecords /\ d.asking = c.asking /\ d.recorder = c.recorder /\ d.live = c.live
        /\ d.stopping = c.stopping /\ d.speech = c.speech
    BY <2>2, <2>4 DEF ChatRecords
  <2> HIDE DEF d
  <2>6. WithinChat(d, MaxRecorders)
    BY <2>3, <2>5 DEF WithinChat
  <2>7. \A st \in {"idle", "error"} : WithinChat(ScheduleRestart(c, st), MaxRecorders)
    BY <2>3, <1>t, <1>s, ShowStaysWithin
  <2> QED BY <2>1, <2>6, <2>7, <1>b
<1>6. CASE Sent
  <2> DEFINE c == [chat EXCEPT !.sending = chat.sending - 1]
  <2>1. /\ UNCHANGED <<turnNow, texts>> /\ chat.sending - 1 \in Nat
        /\ (chat' = Show(c, "waiting") \/ chat' = ScheduleRestart(c, "error"))
    BY <1>6, <1>t DEF Sent, ChatRecords
  <2>2. /\ c \in ChatRecords /\ c.asking = chat.asking /\ c.recorder = chat.recorder /\ c.live = chat.live
        /\ c.stopping = chat.stopping /\ c.speech = chat.speech
    BY <2>1, <1>t DEF ChatRecords
  <2> HIDE DEF c
  <2>3. WithinChat(c, MaxRecorders)
    BY <2>2, <1>t DEF WithinChat
  <2>4. WithinChat(Show(c, "waiting"), MaxRecorders) /\ WithinChat(ScheduleRestart(c, "error"), MaxRecorders)
    BY <2>3, <1>t, <1>s, ShowStaysWithin
  <2> QED BY <2>1, <2>4, <1>b
<1>7. CASE RestartFires
  <2> DEFINE c == [chat EXCEPT !.restart = FALSE]
  <2>1. UNCHANGED <<turnNow, texts>> /\ chat' = StartListening(c) /\ chat.asking < MaxRecorders
    BY <1>7 DEF RestartFires
  <2>2. /\ c \in ChatRecords /\ c.asking = chat.asking /\ c.recorder = chat.recorder /\ c.live = chat.live
        /\ c.stopping = chat.stopping /\ c.speech = chat.speech
    BY <1>t DEF ChatRecords
  <2> HIDE DEF c
  <2>3. WithinChat(c, MaxRecorders - 1)
    BY <2>1, <2>2, <1>t DEF WithinChat
  <2>4. WithinChat(StartListening(c), (MaxRecorders - 1) + 1)
    BY <2>1, <2>3, <1>r, StartListeningStaysWithin
  <2> QED BY <2>1, <2>4, <1>r, <1>b
<1>8. CASE TurnStreams
  <2>1. /\ turnNow' = turnNow + 1 /\ turnNow < MaxChatTurns /\ chat' = Silence(chat) /\ texts' = 0
    BY <1>8 DEF TurnStreams
  <2>2. turnNow' <= MaxChatTurns /\ texts' \in 0..MaxTexts
    BY <2>1, <1>t DEF ChatAssumption
  <2> QED BY <2>1, <2>2, <1>t, SilenceStaysWithin DEF ChatBounds
<1>9. CASE SentenceReady
  <2>1. chat' = EnqueueSpeech(chat, turnNow) /\ turnNow' = turnNow /\ texts' = texts + 1 /\ texts < MaxTexts - 1
    BY <1>9 DEF SentenceReady
  <2>2. texts' \in 0..MaxTexts
    BY <2>1 DEF ChatBounds, ChatAssumption
  <2>3. WithinChat(chat', MaxRecorders)
    BY <2>1, <1>t, EnqueueStaysWithin
  <2> QED BY <2>1, <2>2, <2>3 DEF ChatBounds
<1>10. CASE ResponseFinal
  <2> DEFINE c == [chat EXCEPT !.complete = TRUE]
  <2>1. /\ turnNow' = turnNow /\ texts' = MaxTexts /\ chat.asking < MaxRecorders
        /\ (chat' = RunSpeechQueue(c) \/ chat' = EnqueueSpeech(c, turnNow))
    BY <1>10 DEF ResponseFinal
  <2>2. /\ c \in ChatRecords /\ c.asking = chat.asking /\ c.recorder = chat.recorder /\ c.live = chat.live
        /\ c.stopping = chat.stopping /\ c.speech = chat.speech
    BY <1>t DEF ChatRecords
  <2>3. SpeaksFor(c, turnNow)
    BY <2>2, <1>t DEF SpeaksFor, ChatRecords
  <2> HIDE DEF c
  <2>4. WithinChat(c, MaxRecorders - 1) /\ WithinChat(c, MaxRecorders)
    BY <2>1, <2>2, <1>t DEF WithinChat
  <2>5. WithinChat(RunSpeechQueue(c), (MaxRecorders - 1) + 1)
    BY <2>1, <2>3, <2>4, <1>t, <1>r, RunStaysWithin
  <2>6. WithinChat(EnqueueSpeech(c, turnNow), MaxRecorders)
    BY <2>3, <2>4, <1>t, EnqueueStaysWithin
  <2>7. texts' \in 0..MaxTexts
    BY <2>1 DEF ChatAssumption
  <2>8. WithinChat(chat', MaxRecorders)
    BY <2>1, <2>5, <2>6, <1>r
  <2> QED BY <2>1, <2>7, <2>8 DEF ChatBounds
<1>11. CASE Synthesized
  <2>0. UNCHANGED <<turnNow, texts>> /\ chat.runner = "synthesis" /\ chat.playing = 0 /\ chat.asking < MaxRecorders
    BY <1>11, <1>t DEF Synthesized, SpeaksFor
  <2>4. WithinChat(chat, MaxRecorders - 1)
    BY <2>0, <1>t DEF WithinChat
  <2>1. CASE chat' = [chat EXCEPT !.runner = "playback", !.playing = chat.speech]
    <3> DEFINE c == [chat EXCEPT !.runner = "playback", !.playing = chat.speech]
    <3>1. /\ c \in ChatRecords /\ c.asking = chat.asking /\ c.recorder = chat.recorder /\ c.live = chat.live
          /\ c.stopping = chat.stopping /\ c.speech = chat.speech
      BY <1>t DEF ChatRecords
    <3> HIDE DEF c
    <3>2. WithinChat(c, MaxRecorders)
      BY <3>1, <1>t DEF WithinChat
    <3> QED BY <2>0, <2>1, <3>2, <1>b DEF c
  <2>2. CASE chat' = Resumed(chat)
    <3>1. WithinChat(Resumed(chat), (MaxRecorders - 1) + 1)
      BY <2>0, <2>4, <1>t, <1>r, RunStaysWithin
    <3> QED BY <2>0, <2>2, <3>1, <1>r, <1>b
  <2>3. CASE chat' = RunSpeechQueue([ScheduleRestart(chat, "error") EXCEPT !.runner = "off"])
    <3> DEFINE c == ScheduleRestart(chat, "error")
               d == [c EXCEPT !.runner = "off"]
    <3>1. SpeaksFor(c, turnNow) /\ c.playing = 0 /\ WithinChat(c, MaxRecorders - 1)
      <4>1. SpeaksFor(c, turnNow) /\ c.playing = 0
        BY <2>0, <1>t, <1>s, <1>n, ShowFits
      <4>2. WithinChat(c, MaxRecorders - 1)
        BY <2>0, <2>4, <1>s, <1>r, ShowStaysWithin
      <4> QED BY <4>1, <4>2
    <3> HIDE DEF c
    <3>2. d \in ChatRecords
      BY <3>1 DEF SpeaksFor, ChatRecords
    <3>3. SpeaksFor(d, turnNow)
      BY <3>1, <3>2 DEF SpeaksFor, ChatRecords
    <3>4. WithinChat(d, MaxRecorders - 1)
      BY <3>1, <3>2 DEF WithinChat, ChatRecords
    <3> HIDE DEF d
    <3>5. WithinChat(RunSpeechQueue(d), (MaxRecorders - 1) + 1)
      BY <2>0, <3>3, <3>4, <1>t, <1>r, RunStaysWithin
    <3> QED BY <2>0, <2>3, <3>5, <1>r, <1>b DEF c, d
  <2> QED BY <1>11, <2>1, <2>2, <2>3 DEF Synthesized
<1>12. CASE Played
  <2> DEFINE c == [chat EXCEPT !.playing = 0]
  <2>1. UNCHANGED <<turnNow, texts>> /\ chat' = Resumed(c) /\ chat.asking < MaxRecorders
    BY <1>12 DEF Played
  <2>2. /\ c \in ChatRecords /\ c.asking = chat.asking /\ c.recorder = chat.recorder /\ c.live = chat.live
        /\ c.stopping = chat.stopping /\ c.speech = chat.speech
    BY <1>t DEF ChatRecords
  <2>3. SpeaksFor(c, turnNow) /\ c.playing = 0
    BY <2>2, <1>t DEF SpeaksFor, ChatRecords
  <2> HIDE DEF c
  <2>4. WithinChat(c, MaxRecorders - 1)
    BY <2>1, <2>2, <1>t DEF WithinChat
  <2>5. WithinChat(Resumed(c), (MaxRecorders - 1) + 1)
    BY <2>1, <2>3, <2>4, <1>t, <1>r, RunStaysWithin
  <2> QED BY <2>1, <2>5, <1>r, <1>b
<1>13. CASE AgentError
  BY <1>13, <1>t, <1>s, <1>b, ShowStaysWithin DEF AgentError
<1>14. CASE Unmount
  <2> DEFINE c == [chat EXCEPT !.mounted = FALSE, !.restart = FALSE]
  <2>1. UNCHANGED <<turnNow, texts>> /\ chat' = StopListening(Silence(c))
    BY <1>14 DEF Unmount
  <2>2. /\ c \in ChatRecords /\ c.asking = chat.asking /\ c.recorder = chat.recorder /\ c.live = chat.live
        /\ c.stopping = chat.stopping /\ c.speech = chat.speech
    BY <1>t DEF ChatRecords
  <2> HIDE DEF c
  <2>3. WithinChat(c, MaxRecorders)
    BY <2>2, <1>t DEF WithinChat
  <2>4. WithinChat(Silence(c), MaxRecorders)
    BY <2>3, <1>t, SilenceStaysWithin
  <2>5. WithinChat(StopListening(Silence(c)), MaxRecorders)
    BY <2>4, <1>t, StopListeningStaysWithin
  <2> QED BY <2>1, <2>5, <1>b
<1>15. ASSUME NEW r \in Recorders, RecorderStopped(r) PROVE ChatBounds'
  <2> DEFINE c == [chat EXCEPT !.stopping = chat.stopping \ {r}, !.discard = FALSE]
             more == c.transcribing + (IF c.mounted THEN 1 ELSE 0)
             d == [c EXCEPT !.transcribing = more]
  <2>1. UNCHANGED <<turnNow, texts>> /\ (chat' = ScheduleRestart(c, "idle") \/ chat' = Show(d, "transcribing"))
    BY <1>15 DEF RecorderStopped
  <2>2. /\ c \in ChatRecords /\ c.asking = chat.asking /\ c.recorder = chat.recorder /\ c.live = chat.live
        /\ c.stopping = chat.stopping \ {r} /\ c.speech = chat.speech
    BY <1>t DEF ChatRecords
  <2> HIDE DEF c
  <2>3. WithinChat(c, MaxRecorders)
    BY <2>2, <1>t DEF WithinChat
  <2>4. more \in Nat
    BY <2>2 DEF ChatRecords
  <2> HIDE DEF more
  <2>5. /\ d \in ChatRecords /\ d.asking = c.asking /\ d.recorder = c.recorder /\ d.live = c.live
        /\ d.stopping = c.stopping /\ d.speech = c.speech
    BY <2>2, <2>4 DEF ChatRecords
  <2> HIDE DEF d
  <2>6. WithinChat(d, MaxRecorders)
    BY <2>3, <2>5 DEF WithinChat
  <2>7. WithinChat(Show(d, "transcribing"), MaxRecorders) /\ WithinChat(ScheduleRestart(c, "idle"), MaxRecorders)
    BY <2>3, <2>6, <1>t, <1>s, ShowStaysWithin
  <2> QED BY <2>1, <2>7, <1>b
<1> QED BY <1>1, <1>2, <1>3, <1>4, <1>5, <1>6, <1>7, <1>8, <1>9, <1>10, <1>11, <1>12, <1>13, <1>14, <1>15
       DEF ChatNext

\* The refs of the drawer, the turn and its texts keep their types (ChatTypeOK).
THEOREM ChatTypeCorrect == ChatSpec => []ChatTypeOK
<1>1. ChatInit => ChatBounds
  <2> SUFFICES ASSUME ChatInit PROVE ChatBounds
    OBVIOUS
  <2>1. <<>> \in Seq(Nat) /\ {} \in SUBSET Nat
    OBVIOUS
  <2>2. chat \in ChatRecords
    BY <2>1 DEF ChatInit, ChatRecords, ChatStatus
  <2>3. chat.asking = 1 /\ chat.recorder = 0 /\ chat.live = {} /\ chat.stopping = {} /\ chat.speech = 0
    BY DEF ChatInit
  <2> QED BY <2>2, <2>3, ChatAssumption DEF ChatInit, ChatBounds, WithinChat, ChatAssumption
<1>2. ChatInv /\ ChatBounds => ChatTypeOK
  <2> SUFFICES ASSUME ChatInv, ChatBounds PROVE ChatTypeOK
    OBVIOUS
  <2>1. chat \in ChatRecords /\ turnNow \in 0..MaxChatTurns /\ 0 \in 0..MaxChatTurns
    BY ChatAssumption DEF ChatInv, ChatBounds, WithinChat, ChatAssumption
  <2>2. chat.queue \in Seq(0..MaxChatTurns)
    <3>1. chat.queue \in Seq(Nat) /\ \A i \in 1..Len(chat.queue) : chat.queue[i] = turnNow
      BY <2>1 DEF ChatInv, SpeaksFor, ChatRecords
    <3>2. \A i \in 1..Len(chat.queue) : chat.queue[i] \in 0..MaxChatTurns
      BY <2>1, <3>1
    <3>3. chat.queue \in [1..Len(chat.queue) -> 0..MaxChatTurns] /\ Len(chat.queue) \in Nat
      BY <3>1, <3>2, LenProperties
    <3> QED BY <3>3, SeqDef
  <2>3. /\ chat.asking \in 0..MaxRecorders /\ chat.recorder \in 0..MaxRecorders
        /\ chat.speech \in 0..MaxChatTurns /\ chat.playing \in 0..MaxChatTurns
        /\ chat.live \in SUBSET Recorders /\ chat.stopping \in SUBSET Recorders
    <3>1. chat.playing = 0 \/ chat.playing = turnNow
      BY DEF ChatInv, SpeaksFor
    <3>2. chat.asking \in Nat /\ chat.speech \in Nat /\ MaxRecorders \in Nat /\ MaxChatTurns \in Nat
      BY <2>1, ChatAssumption DEF ChatRecords, ChatAssumption
    <3> QED BY <2>1, <3>1, <3>2 DEF ChatBounds, WithinChat
  <2> QED BY <2>1, <2>2, <2>3 DEF ChatTypeOK, ChatBounds, ChatRecords
<1> QED BY <1>1, <1>2, ChatIsKept, ChatNextStaysWithin, ChatAssumption, PTL DEF ChatSpec

-----------------------------------------------------------------------------
(* The microphone of the composer *)

VoiceSpec == VoiceInit /\ [][VoiceNext]_voiceVars

\* The takes that wait for the microphone in the input that is in the window.
AskedHere == {k \in Takes : mic[k] = "asked" /\ k >= mountedTake}

\* Takes are asked for in order. Of the streams that are on, the one that is not turned
\* off is astray, and so will be the one that another waiting take would leave behind.
VoiceInv ==
  /\ mic \in [Takes -> {"none", "asked", "open", "closed"}]
  /\ cleanup \in 0..MaxTakes /\ mountedTake \in 1..(MaxTakes + 1)
  /\ transcribing \in {"no", "finalizing", "asked"}
  /\ \E n \in 1..(MaxTakes + 1) : \A k \in Takes : k < n <=> mic[k] # "none"
  /\ cleanup # 0 => /\ mic[cleanup] \in {"open", "closed"}
                    /\ recording \/ transcribing = "finalizing" \/ cleanup \in astray
  /\ \A k \in Takes : mic[k] = "open" => cleanup = k \/ k \in astray
  /\ \A k \in Takes : mic[k] = "asked" /\ k < mountedTake => k \in astray
  /\ \A j, k \in AskedHere : j # k => k \in astray
  /\ AskedHere # {} /\ cleanup # 0 /\ mic[cleanup] = "open" => cleanup \in astray

\* The tracks of the take that is cleaned up are stopped, and no other's.
LEMMA StoppedTracks ==
  ASSUME NEW m \in [Takes -> {"none", "asked", "open", "closed"}], cleanup \in 0..MaxTakes,
         ComposerAssumption
  PROVE  /\ StreamStopped(m) \in [Takes -> {"none", "asked", "open", "closed"}]
         /\ \A k \in Takes : StreamStopped(m)[k] = IF k = cleanup THEN "closed" ELSE m[k]
  BY DEF StreamStopped, Takes, ComposerAssumption

\* Each step of a take keeps it.
LEMMA VoiceNextKeeps == ComposerAssumption /\ VoiceInv /\ [VoiceNext]_voiceVars => VoiceInv'
<1> SUFFICES ASSUME ComposerAssumption, VoiceInv, [VoiceNext]_voiceVars PROVE VoiceInv'
  OBVIOUS
<1> DEFINE Mics == {"none", "asked", "open", "closed"}
<1>t. mic \in [Takes -> Mics] /\ cleanup \in 0..MaxTakes /\ mountedTake \in 1..(MaxTakes + 1) /\ MaxTakes \in Nat
  BY DEF VoiceInv, ComposerAssumption
<1>n. PICK n \in 1..(MaxTakes + 1) : \A k \in Takes : k < n <=> mic[k] # "none"
  BY DEF VoiceInv
<1>1. CASE UNCHANGED voiceVars
  BY <1>1 DEF VoiceInv, voiceVars, AskedHere
<1>2. CASE StopVoice /\ UNCHANGED mountedTake
  <2>1. CASE UNCHANGED <<mic, cleanup>> /\ UNCHANGED <<mountedTake, astray>>
             /\ transcribing' \in {"no", "finalizing", "asked"}
             /\ (recording \/ transcribing = "finalizing" => recording' \/ transcribing' = "finalizing")
    BY <2>1 DEF VoiceInv, AskedHere
  <2>2. CASE transcribing' = "asked" /\ mic' = StreamStopped(mic) /\ cleanup' = 0 /\ UNCHANGED <<mountedTake, astray>>
    <3>1. mic' \in [Takes -> Mics] /\ \A k \in Takes : mic'[k] = IF k = cleanup THEN "closed" ELSE mic[k]
      BY <2>2, <1>t, StoppedTracks
    <3>2. AskedHere' \subseteq AskedHere
      BY <2>2, <3>1 DEF AskedHere
    <3>3. \A k \in Takes : k < n <=> mic'[k] # "none"
      BY <1>n, <3>1 DEF VoiceInv, Takes
    <3> QED BY <2>2, <3>1, <3>2, <3>3, <1>n, <1>t DEF VoiceInv
  <2>3. CASE transcribing' = "no" /\ astray' = astray \cup ({cleanup} \ {0})
             /\ UNCHANGED <<mic, recorder, cleanup, recording, mountedTake>>
    BY <2>3 DEF VoiceInv, AskedHere
  <2> QED BY <1>2, <2>1, <2>2, <2>3 DEF StopVoice
<1>3. CASE RemountVoice
  <2> DEFINE first(m) == \A k \in Takes : k < m <=> mic[k] # "none"
  <2>1. mic' = StreamStopped(mic) /\ cleanup' = 0 /\ transcribing' = "no"
        /\ astray' = astray \cup {k \in Takes : mic[k] = "asked"}
    BY <1>3 DEF RemountVoice
  <2>2. mountedTake' = CHOOSE m \in 1..(MaxTakes + 1) : first(m)
    BY <1>3 DEF RemountVoice
  <2>3. first(n)
    BY <1>n
  <2> HIDE DEF first
  <2>4. mountedTake' \in 1..(MaxTakes + 1)
    BY <2>2, <2>3, <1>n
  <2>5. mic' \in [Takes -> Mics] /\ \A k \in Takes : mic'[k] = IF k = cleanup THEN "closed" ELSE mic[k]
    BY <2>1, <1>t, StoppedTracks
  <2>6. \A k \in Takes : mic'[k] = "asked" => k \in astray'
    BY <2>1, <2>5
  <2>7. \A k \in Takes : k < n <=> mic'[k] # "none"
    BY <1>n, <2>5 DEF VoiceInv, Takes
  <2>8. \A k \in Takes : mic'[k] = "open" => k \in astray'
    BY <2>1, <2>5 DEF VoiceInv
  <2>9. \A k \in AskedHere' : k \in astray'
    BY <2>6 DEF AskedHere
  <2> QED BY <2>1, <2>4, <2>5, <2>6, <2>7, <2>8, <2>9, <1>n, <1>t DEF VoiceInv
<1>4. ASSUME NEW k \in Takes, StartVoice(k) PROVE VoiceInv'
  <2>1. /\ ~recording /\ transcribing = "no" /\ k >= mountedTake /\ mic[k] = "none"
        /\ \A j \in 1..(k - 1) : mic[j] # "none"
        /\ mic' = [mic EXCEPT ![k] = "asked"]
        /\ UNCHANGED <<cleanup, recording, transcribing, mountedTake>>
    BY <1>4 DEF StartVoice
  <2>2. mic' \in [Takes -> Mics] /\ mic'[k] = "asked" /\ \A j \in Takes \ {k} : mic'[j] = mic[j]
    BY <2>1, <1>t
  <2>3. k \in 1..MaxTakes /\ k + 1 \in 1..(MaxTakes + 1)
    BY <1>t DEF Takes
  <2>4. \A j \in Takes : j > k => mic[j] = "none"
    BY <2>1, <2>3, <1>n, <1>t DEF Takes
  <2>5. \A j \in Takes : j < k + 1 <=> mic'[j] # "none"
    <3> TAKE j \in Takes
    <3>1. CASE j = k
      BY <3>1, <2>2, <2>3
    <3>2. CASE j < k
      <4>1. j \in 1..(k - 1)
        BY <3>2, <2>3 DEF Takes
      <4> QED BY <4>1, <3>2, <2>1, <2>2, <2>3 DEF Takes
    <3>3. CASE j > k
      BY <3>3, <2>2, <2>3, <2>4 DEF Takes
    <3> QED BY <3>1, <3>2, <3>3, <2>3 DEF Takes
  <2>6. \A j \in AskedHere' : j \in mountedTake..k /\ mic'[j] = "asked"
    <3> TAKE j \in AskedHere'
    <3>1. j \in Takes /\ mic'[j] = "asked" /\ j >= mountedTake
      BY <2>1 DEF AskedHere
    <3>2. ASSUME j > k PROVE FALSE
      <4>1. j # k
        BY <3>2, <2>3
      <4> QED BY <3>1, <3>2, <4>1, <2>2, <2>4
    <3> QED BY <3>1, <3>2, <2>3, <1>t DEF Takes
  <2> DEFINE hears == {j \in mountedTake..k : mic'[j] = "asked"}
  <2>7. astray' = IF hears = {k} THEN astray ELSE astray \cup hears
    BY <1>4, <2>1 DEF StartVoice
  <2>8. \A i, j \in AskedHere' : i # j => j \in astray'
    BY <2>6, <2>7
  <2>9. astray \subseteq astray' /\ (cleanup # 0 => cleanup \in astray /\ cleanup # k)
    BY <2>1, <2>7 DEF VoiceInv
  <2>10. cleanup # 0 => mic'[cleanup] = mic[cleanup]
    BY <2>2, <2>9, <1>t DEF Takes
  <2>11. \A j \in Takes : mic'[j] = "open" => cleanup' = j \/ j \in astray'
    BY <2>1, <2>2, <2>9 DEF VoiceInv
  <2>12. \A j \in Takes : mic'[j] = "asked" /\ j < mountedTake' => j \in astray'
    BY <2>1, <2>2, <2>3, <2>9, <1>t DEF VoiceInv
  <2> HIDE DEF hears
  <2> QED BY <2>1, <2>2, <2>3, <2>5, <2>8, <2>9, <2>10, <2>11, <2>12, <1>t DEF VoiceInv
<1>5. ASSUME NEW k \in Takes, Granted(k) PROVE VoiceInv'
  <2>1. mic[k] = "asked" /\ mic' = [mic EXCEPT ![k] = "open"] /\ UNCHANGED <<transcribing, mountedTake, astray>>
    BY <1>5 DEF Granted
  <2>2. mic' \in [Takes -> Mics] /\ mic'[k] = "open" /\ \A j \in Takes \ {k} : mic'[j] = mic[j]
    BY <2>1, <1>t
  <2>3. \A j \in Takes : j < n <=> mic'[j] # "none"
    BY <1>n, <2>1, <2>2
  <2>4. AskedHere' = AskedHere \ {k}
    BY <2>1, <2>2 DEF AskedHere
  <2>5. cleanup # 0 => cleanup # k /\ mic'[cleanup] = mic[cleanup]
    BY <2>1, <2>2, <1>t DEF VoiceInv, Takes
  <2>6. CASE k < mountedTake /\ UNCHANGED <<cleanup, recording>>
    <3>1. \A j \in Takes : mic'[j] = "open" => cleanup' = j \/ j \in astray'
      BY <2>1, <2>2, <2>6 DEF VoiceInv
    <3> QED BY <2>1, <2>2, <2>3, <2>4, <2>5, <2>6, <3>1, <1>n, <1>t DEF VoiceInv
  <2>7. CASE k >= mountedTake /\ cleanup' = k /\ recording' = TRUE
    <3>1. k \in AskedHere
      BY <2>1, <2>7 DEF AskedHere
    <3>2. \A j \in Takes : mic'[j] = "open" => cleanup' = j \/ j \in astray'
      BY <2>1, <2>2, <2>7, <3>1, <1>t DEF VoiceInv, Takes
    <3>3. AskedHere' # {} => k \in astray'
      BY <2>1, <2>4, <3>1 DEF VoiceInv
    <3>4. k \in 1..MaxTakes
      BY DEF Takes
    <3>5. \A j \in Takes : mic'[j] = "asked" /\ j < mountedTake' => j \in astray'
      BY <2>1, <2>2 DEF VoiceInv
    <3>6. \A i, j \in AskedHere' : i # j => j \in astray'
      BY <2>1, <2>4 DEF VoiceInv
    <3> QED BY <2>1, <2>2, <2>3, <2>7, <3>2, <3>3, <3>4, <3>5, <3>6, <1>n, <1>t DEF VoiceInv
  <2>8. CASE ~(k < mountedTake)
    <3>1. k >= mountedTake
      BY <2>8, <1>t DEF Takes
    <3>2. cleanup' = k /\ recording' = TRUE
      BY <1>5, <2>8 DEF Granted
    <3> QED BY <2>7, <3>1, <3>2
  <2>9. CASE k < mountedTake
    <3>1. UNCHANGED <<cleanup, recording>>
      BY <1>5, <2>9 DEF Granted
    <3> QED BY <2>6, <2>9, <3>1
  <2> QED BY <2>8, <2>9
<1>6. ASSUME NEW k \in Takes, Denied(k) PROVE VoiceInv'
  <2>1. PICK given \in {"closed", "open"} :
          LET m == [mic EXCEPT ![k] = given]
          IN  /\ astray' = IF given = "open" THEN astray \cup {k} ELSE astray
              /\ IF k < mountedTake THEN mic' = m /\ UNCHANGED <<recorder, cleanup, recording>>
                 ELSE /\ mic' = StreamStopped(m)
                      /\ recorder' = 0 /\ cleanup' = 0 /\ recording' = FALSE
    BY <1>6 DEF Denied
  <2> DEFINE m == [mic EXCEPT ![k] = given]
  <2>2. mic[k] = "asked" /\ UNCHANGED <<transcribing, mountedTake>>
    BY <1>6 DEF Denied
  <2>3. m \in [Takes -> Mics] /\ m[k] = given /\ \A j \in Takes \ {k} : m[j] = mic[j]
    BY <1>t
  <2>4. astray \subseteq astray' /\ (given = "open" => k \in astray')
    BY <2>1
  <2>5. CASE k < mountedTake
    <3>1. mic' = m /\ UNCHANGED <<cleanup, recording>>
      BY <2>1, <2>5
    <3> HIDE DEF m
    <3>2. AskedHere' \subseteq AskedHere
      BY <2>2, <2>3, <3>1 DEF AskedHere
    <3>3. cleanup # 0 => cleanup # k /\ mic'[cleanup] = mic[cleanup]
      BY <2>2, <2>3, <3>1, <1>t DEF VoiceInv, Takes
    <3>4. \A j \in Takes : j < n <=> mic'[j] # "none"
      BY <1>n, <2>2, <2>3, <3>1
    <3>5. \A j \in Takes : mic'[j] = "open" => cleanup' = j \/ j \in astray'
      BY <2>3, <2>4, <3>1 DEF VoiceInv
    <3>6. \A j \in Takes : mic'[j] = "asked" /\ j < mountedTake' => j \in astray'
      BY <2>2, <2>3, <2>4, <3>1 DEF VoiceInv
    <3> QED BY <2>2, <2>3, <2>4, <3>1, <3>2, <3>3, <3>4, <3>5, <3>6, <1>n, <1>t DEF VoiceInv
  <2>6. CASE ~(k < mountedTake)
    <3>1. mic' = StreamStopped(m) /\ cleanup' = 0
      BY <2>1, <2>6
    <3> HIDE DEF m
    <3>2. mic' \in [Takes -> Mics] /\ \A j \in Takes : mic'[j] = IF j = cleanup THEN "closed" ELSE m[j]
      BY <2>3, <3>1, <1>t, StoppedTracks
    <3>3. AskedHere' \subseteq AskedHere
      BY <2>2, <2>3, <3>2 DEF AskedHere
    <3>4. \A j \in Takes : j < n <=> mic'[j] # "none"
      BY <1>n, <2>2, <2>3, <3>2 DEF VoiceInv, Takes
    <3>5. \A j \in Takes : mic'[j] = "open" => j \in astray'
      BY <2>3, <2>4, <3>2 DEF VoiceInv
    <3>6. \A j \in Takes : mic'[j] = "asked" /\ j < mountedTake' => j \in astray'
      BY <2>2, <2>3, <2>4, <3>2 DEF VoiceInv
    <3> QED BY <2>2, <2>4, <3>1, <3>2, <3>3, <3>4, <3>5, <3>6, <1>n, <1>t DEF VoiceInv
  <2> QED BY <2>5, <2>6
<1> QED BY <1>1, <1>2, <1>3, <1>4, <1>5, <1>6 DEF VoiceNext

\* The streams that are on are cleaned up, or astray.
LEMMA StreamsKept == VoiceSpec => []VoiceInv
<1>1. ComposerAssumption /\ VoiceInit => VoiceInv
  <2> SUFFICES ASSUME ComposerAssumption, VoiceInit PROVE VoiceInv
    OBVIOUS
  <2>1. 1 \in 1..(MaxTakes + 1) /\ \A k \in Takes : k < 1 <=> mic[k] # "none"
    BY DEF VoiceInit, ComposerAssumption, Takes
  <2> QED BY <2>1 DEF VoiceInit, VoiceInv, ComposerAssumption, AskedHere
<1> QED BY <1>1, VoiceNextKeeps, ComposerAssumption, PTL DEF VoiceSpec

\* A microphone that is on is turned off with the input, but for astray takes (MicrophoneOwned).
THEOREM MicrophonesAreOwned == VoiceSpec => []MicrophoneOwned
<1>1. VoiceInv => MicrophoneOwned
  BY DEF VoiceInv, MicrophoneOwned
<1> QED BY <1>1, StreamsKept, PTL

\* The takes recorderRef and the history name are takes.
VoiceNumbers == recorder \in 0..MaxTakes /\ astray \subseteq Takes
Records == recording \in BOOLEAN

\* Each step names takes only.
LEMMA VoiceNumbersKeep ==
  VoiceNumbers /\ VoiceInv /\ [VoiceNext]_voiceVars => VoiceNumbers'
<1> SUFFICES ASSUME VoiceNumbers, VoiceInv, [VoiceNext]_voiceVars PROVE VoiceNumbers'
  OBVIOUS
<1>a. MaxTakes \in Nat /\ 0 \in 0..MaxTakes /\ cleanup \in 0..MaxTakes /\ \A k \in Takes : k \in 0..MaxTakes
  BY ComposerAssumption DEF ComposerAssumption, VoiceInv, Takes
<1>1. CASE StopVoice
  <2>1. {cleanup} \ {0} \subseteq Takes
    BY <1>a DEF Takes
  <2> QED BY <1>a, <1>1, <2>1 DEF StopVoice, VoiceNumbers
<1>2. CASE RemountVoice
  BY <1>a, <1>2 DEF RemountVoice, VoiceNumbers
<1>3. ASSUME NEW k \in Takes, StartVoice(k) PROVE VoiceNumbers'
  <2>1. {j \in mountedTake..k : mic'[j] = "asked"} \subseteq Takes
    BY <1>a DEF VoiceInv, Takes
  <2> QED BY <1>3, <2>1 DEF StartVoice, VoiceNumbers
<1>4. ASSUME NEW k \in Takes, Granted(k) \/ Denied(k) PROVE VoiceNumbers'
  BY <1>a, <1>4 DEF Granted, Denied, VoiceNumbers
<1>5. CASE UNCHANGED voiceVars
  BY <1>5 DEF voiceVars, VoiceNumbers
<1> QED BY <1>1, <1>2, <1>3, <1>4, <1>5 DEF VoiceNext

\* The variables of the recordings keep their types.
THEOREM VoiceTypeCorrect == VoiceSpec => []VoiceTypeOK
<1>1. VoiceInit => VoiceNumbers /\ Records
  <2>1. 0 \in 0..MaxTakes
    BY ComposerAssumption DEF ComposerAssumption
  <2> QED BY <2>1 DEF VoiceInit, VoiceNumbers, Records
<1>2. Records /\ [VoiceNext]_voiceVars => Records'
  BY DEF Records, VoiceNext, StopVoice, RemountVoice, StartVoice, Granted, Denied, voiceVars
<1>3. VoiceNumbers /\ Records /\ VoiceInv => VoiceTypeOK
  BY DEF VoiceInv, VoiceNumbers, Records, VoiceTypeOK
<1> QED BY <1>1, <1>2, <1>3, VoiceNumbersKeep, StreamsKept, PTL DEF VoiceSpec

-----------------------------------------------------------------------------
(* Terminals *)

Outputs == [written : Nat, buffer : Nat, truncated : BOOLEAN, pending : Nat, shown : Nat, mark : BOOLEAN]

TerminalTypes ==
  /\ panel \in [mounted : BOOLEAN, cwd : Directories, changes : Nat]
  /\ opening \in [Terminals -> [at : {"new", "approval", "asked", "spawned", "done"}, cwd : Directories]]
  /\ children \subseteq Terminals /\ tabs \subseteq Terminals
  /\ output \in [Terminals -> Outputs]

\* Nothing of a session that could be shown is lost without a mark.
Accounted(o) == ~o.mark /\ ~o.truncated => o.shown + o.pending + o.buffer = o.written

\* A shell belongs to a session the service knows, and to a window that it listens to; a session
\* with a tab was opened, for the directory of the panel.
ShellsInv ==
  /\ TerminalTypes
  /\ children \subseteq sessions
  /\ window /\ listening = FALSE => children = {}
  /\ \A s \in tabs : opening[s].at = "done" /\ opening[s].cwd = panel.cwd
  /\ \A s \in children \ strayed : s \in tabs \/ opening[s].at = "spawned"
  /\ \A s \in Terminals : Accounted(output[s])

\* What is written, flushed or taken over stays accounted for.
LEMMA OutputKeeps ==
  ASSUME ShellsInv, NEW s \in Terminals, NEW o \in Outputs, Accounted(o),
         output' = [output EXCEPT ![s] = o],
         UNCHANGED <<panel, window, opening, children, sessions, listening, tabs, strayed>>
  PROVE  ShellsInv'
<1>1. output' \in [Terminals -> Outputs] /\ \A t \in Terminals : Accounted(output'[t])
  BY DEF ShellsInv, TerminalTypes
<1>2. TerminalTypes'
  BY <1>1 DEF ShellsInv, TerminalTypes
<1> QED BY <1>1, <1>2 DEF ShellsInv, Accounted

\* Output of a shell comes, and is buffered or dropped.
LEMMA PushKeeps == ASSUME ShellsInv, NEW s \in Terminals, Push(s) PROVE ShellsInv'
<1> DEFINE o == output[s]
           kept == [o EXCEPT !.written = o.written + 1, !.buffer = o.buffer + 1]
           dropped == [o EXCEPT !.written = o.written + 1, !.truncated = TRUE]
<1>1. o \in Outputs /\ Accounted(o)
  BY DEF ShellsInv, TerminalTypes
<1>2. o.written + 1 \in Nat /\ o.buffer + 1 \in Nat
  BY <1>1 DEF Outputs
<1>3. kept \in Outputs /\ dropped \in Outputs
  BY <1>1, <1>2 DEF Outputs
<1>4. /\ kept.mark = o.mark /\ kept.truncated = o.truncated /\ kept.shown = o.shown /\ kept.pending = o.pending
      /\ kept.buffer = o.buffer + 1 /\ kept.written = o.written + 1
      /\ dropped.truncated = TRUE
  BY <1>1 DEF Outputs
<1>5. o.shown \in Nat /\ o.pending \in Nat /\ o.buffer \in Nat /\ o.written \in Nat
  BY <1>1 DEF Outputs
<1>6. output' = [output EXCEPT ![s] = IF o.buffer < OutputCap THEN kept ELSE dropped]
      /\ UNCHANGED <<panel, window, opening, children, sessions, listening, tabs, strayed>>
  BY DEF Push
<1> HIDE DEF o, kept, dropped
<1>7. Accounted(kept) /\ Accounted(dropped)
  BY <1>1, <1>4, <1>5 DEF Accounted
<1> DEFINE n == IF o.buffer < OutputCap THEN kept ELSE dropped
<1>8. n \in Outputs /\ Accounted(n) /\ output' = [output EXCEPT ![s] = n]
  BY <1>3, <1>6, <1>7
<1> HIDE DEF n
<1> QED BY <1>6, <1>8, OutputKeeps

\* The buffer of a shell is flushed: to the window, or into what waits for it.
LEMMA FlushKeeps == ASSUME ShellsInv, NEW s \in Terminals, Flush(s) PROVE ShellsInv'
<1> DEFINE o == output[s]
           none == [o EXCEPT !.buffer = 0, !.truncated = FALSE, !.mark = TRUE]
           shows == [o EXCEPT !.buffer = 0, !.truncated = FALSE,
                      !.shown = o.shown + o.buffer, !.mark = o.mark \/ o.truncated]
           waits == [o EXCEPT !.buffer = 0, !.truncated = FALSE,
                      !.pending = IF o.pending + o.buffer > OutputCap THEN OutputCap
                                  ELSE o.pending + o.buffer,
                      !.mark = o.mark \/ o.truncated \/ o.pending + o.buffer > OutputCap]
           n == IF ~window THEN none ELSE IF s \in tabs /\ o.pending = 0 THEN shows ELSE waits
<1>1. o \in Outputs /\ Accounted(o)
  BY DEF ShellsInv, TerminalTypes
<1>2. /\ o.shown \in Nat /\ o.pending \in Nat /\ o.buffer \in Nat /\ o.written \in Nat
      /\ o.mark \in BOOLEAN /\ o.truncated \in BOOLEAN
  BY <1>1 DEF Outputs
<1>3. o.shown + o.buffer \in Nat /\ o.pending + o.buffer \in Nat /\ OutputCap \in Nat
  BY <1>2, TerminalAssumption
<1>4. none \in Outputs /\ shows \in Outputs /\ waits \in Outputs
  <2>1. none \in Outputs
    BY <1>1 DEF Outputs
  <2>2. shows \in Outputs
    BY <1>1, <1>2, <1>3 DEF Outputs
  <2>3. waits \in Outputs
    BY <1>1, <1>2, <1>3 DEF Outputs
  <2> QED BY <2>1, <2>2, <2>3
<1>5. /\ none.mark = TRUE
      /\ shows.mark = (o.mark \/ o.truncated) /\ shows.shown = o.shown + o.buffer /\ shows.pending = o.pending
      /\ shows.buffer = 0 /\ shows.written = o.written
  BY <1>1 DEF Outputs
<1>6. /\ waits.mark = (o.mark \/ o.truncated \/ o.pending + o.buffer > OutputCap) /\ waits.shown = o.shown
      /\ waits.pending = (IF o.pending + o.buffer > OutputCap THEN OutputCap ELSE o.pending + o.buffer)
      /\ waits.buffer = 0 /\ waits.written = o.written
  BY <1>1 DEF Outputs
<1>7. output' = [output EXCEPT ![s] = n]
      /\ UNCHANGED <<panel, window, opening, children, sessions, listening, tabs, strayed>>
  BY DEF Flush
<1> HIDE DEF o, none, shows, waits
<1>8. Accounted(none)
  BY <1>5 DEF Accounted
<1>9. Accounted(shows)
  BY <1>1, <1>2, <1>5 DEF Accounted
<1>10. Accounted(waits)
  <2> SUFFICES ASSUME ~waits.mark PROVE waits.shown + waits.pending + waits.buffer = waits.written
    BY DEF Accounted
  <2>1. o.mark = FALSE /\ o.truncated = FALSE /\ ~(o.pending + o.buffer > OutputCap)
    BY <1>2, <1>6
  <2>2. o.shown + o.pending + o.buffer = o.written
    BY <1>1, <2>1 DEF Accounted
  <2>3. waits.pending = o.pending + o.buffer
    BY <1>6, <2>1
  <2> QED BY <1>2, <1>6, <2>2, <2>3
<1>11. n \in Outputs /\ Accounted(n)
  BY <1>4, <1>8, <1>9, <1>10
<1> HIDE DEF n
<1> QED BY <1>7, <1>11, OutputKeeps

\* The window registers the view of a shell, and gets what has waited.
LEMMA RegisterKeeps == ASSUME ShellsInv, NEW s \in Terminals, RegisterTerminal(s) PROVE ShellsInv'
<1> DEFINE o == output[s]
           n == [o EXCEPT !.shown = o.shown + o.pending, !.pending = 0]
<1>1. o \in Outputs /\ Accounted(o)
  BY DEF ShellsInv, TerminalTypes
<1>2. o.shown \in Nat /\ o.pending \in Nat /\ o.buffer \in Nat /\ o.written \in Nat
  BY <1>1 DEF Outputs
<1>3. o.shown + o.pending \in Nat
  BY <1>2
<1>4. n \in Outputs
  BY <1>1, <1>3 DEF Outputs
<1>5. /\ n.mark = o.mark /\ n.truncated = o.truncated /\ n.shown = o.shown + o.pending
      /\ n.pending = 0 /\ n.buffer = o.buffer /\ n.written = o.written
  BY <1>1 DEF Outputs
<1>6. output' = [output EXCEPT ![s] = n]
      /\ UNCHANGED <<panel, window, opening, children, sessions, listening, tabs, strayed>>
  BY DEF RegisterTerminal
<1> HIDE DEF o, n
<1>7. Accounted(n)
  BY <1>1, <1>2, <1>5 DEF Accounted
<1> QED BY <1>4, <1>6, <1>7, OutputKeeps

\* Each step of the terminals keeps it.
LEMMA TerminalsNextKeeps == ShellsInv /\ [TerminalsNext]_terminalVars => ShellsInv'
<1> SUFFICES ASSUME ShellsInv, [TerminalsNext]_terminalVars PROVE ShellsInv'
  OBVIOUS
<1> USE DEF TerminalTypes, Accounted
<1>1. CASE UNCHANGED terminalVars
  BY <1>1 DEF ShellsInv, terminalVars
<1>2. ASSUME NEW s \in Terminals, RequestOpenTab(s) PROVE ShellsInv'
  <2>1. opening' \in [Terminals -> [at : {"new", "approval", "asked", "spawned", "done"}, cwd : Directories]]
        /\ opening[s].at \in {"new", "approval"}
        /\ \A t \in Terminals \ {s} : opening'[t] = opening[t]
    BY <1>2 DEF RequestOpenTab, OpenGoesOn, ShellsInv
  <2>2. s \notin tabs
    BY <2>1 DEF ShellsInv
  <2>3. TerminalTypes'
    BY <1>2, <2>1 DEF RequestOpenTab, ShellsInv
  <2>4. \A t \in tabs' : opening'[t].at = "done" /\ opening'[t].cwd = panel'.cwd
    BY <1>2, <2>1, <2>2 DEF RequestOpenTab, ShellsInv
  <2>5. \A t \in children' \ strayed' : t \in tabs' \/ opening'[t].at = "spawned"
    BY <1>2, <2>1, <2>2 DEF RequestOpenTab, ShellsInv
  <2> QED BY <1>2, <2>3, <2>4, <2>5 DEF RequestOpenTab, ShellsInv
<1>3. ASSUME NEW s \in Terminals, OpenSession(s) PROVE ShellsInv'
  <2>1. opening' \in [Terminals -> [at : {"new", "approval", "asked", "spawned", "done"}, cwd : Directories]]
        /\ opening[s].at = "asked"
        /\ \A t \in Terminals \ {s} : opening'[t] = opening[t]
    BY <1>3 DEF OpenSession, OpenGoesOn, ShellsInv
  <2>2. s \notin tabs
    BY <2>1 DEF ShellsInv
  <2>3. TerminalTypes'
    BY <1>3, <2>1 DEF OpenSession, ShellsInv
  <2>4. \A t \in tabs' : opening'[t].at = "done" /\ opening'[t].cwd = panel'.cwd
    BY <1>3, <2>1, <2>2 DEF OpenSession, ShellsInv
  <2>5. \A t \in children' \ strayed' : t \in tabs' \/ opening'[t].at = "spawned"
    <3> SUFFICES ASSUME NEW t \in children' \ strayed' PROVE t \in tabs' \/ opening'[t].at = "spawned"
      OBVIOUS
    <3>1. CASE OpenGoesOn(s, "spawned") /\ t = s
      BY <3>1 DEF OpenGoesOn, ShellsInv
    <3>2. CASE OpenGoesOn(s, "spawned") /\ t # s
      BY <1>3, <2>1, <3>2 DEF OpenSession, ShellsInv
    <3>3. CASE OpenGoesOn(s, "done") /\ UNCHANGED <<children, sessions, listening, strayed>>
      BY <1>3, <2>1, <3>3, <2>2 DEF OpenSession, ShellsInv
    <3> QED BY <1>3, <3>1, <3>2, <3>3 DEF OpenSession
  <2>6. window' /\ listening' = FALSE => children' = {}
    BY <1>3 DEF OpenSession, ShellsInv
  <2>7. children' \subseteq sessions'
    BY <1>3 DEF OpenSession, ShellsInv
  <2> QED BY <1>3, <2>3, <2>4, <2>5, <2>6, <2>7 DEF OpenSession, ShellsInv
<1>4. ASSUME NEW s \in Terminals, OpenTab(s) PROVE ShellsInv'
  <2>1. opening' \in [Terminals -> [at : {"new", "approval", "asked", "spawned", "done"}, cwd : Directories]]
        /\ opening'[s].at = "done" /\ opening'[s].cwd = opening[s].cwd
        /\ \A t \in Terminals \ {s} : opening'[t] = opening[t]
    BY <1>4 DEF OpenTab, OpenGoesOn, ShellsInv
  <2>2. TerminalTypes'
    BY <1>4, <2>1 DEF OpenTab, Closing, ShellsInv
  <2>3. \A t \in tabs' : opening'[t].at = "done" /\ opening'[t].cwd = panel'.cwd
    BY <1>4, <2>1 DEF OpenTab, Wanted, ShellsInv
  <2>4. \A t \in children' \ strayed' : t \in tabs' \/ opening'[t].at = "spawned"
    BY <1>4, <2>1 DEF OpenTab, Closing, Wanted, ShellsInv
  <2> QED BY <1>4, <2>2, <2>3, <2>4 DEF OpenTab, Closing, ShellsInv
<1>5. ASSUME NEW s \in Terminals, CloseTab(s) PROVE ShellsInv'
  BY <1>5 DEF CloseTab, Closing, ShellsInv
<1>6. ASSUME NEW s \in Terminals, Exit(s) PROVE ShellsInv'
  BY <1>6 DEF Exit, ShellsInv
<1>7. CASE ChangePanel
  <2>1. PICK d \in Directories, mounted \in BOOLEAN :
          /\ panel' = [mounted |-> mounted, cwd |-> d, changes |-> panel.changes + 1]
          /\ IF mounted /\ d = panel.cwd THEN ~panel.mounted /\ UNCHANGED <<tabs, sessions, children>>
             ELSE tabs' = {} /\ Closing(tabs)
          /\ strayed' = IF mounted THEN strayed
                        ELSE strayed \cup {s \in Terminals : opening[s].at \in {"approval", "asked", "spawned"}}
    BY <1>7 DEF ChangePanel
  <2>2. panel.changes + 1 \in Nat
    BY DEF ShellsInv
  <2>3. panel' \in [mounted : BOOLEAN, cwd : Directories, changes : Nat] /\ panel'.cwd = d
    BY <2>1, <2>2
  <2>4. UNCHANGED <<window, opening, listening, output>>
    BY <1>7 DEF ChangePanel
  <2>5. TerminalTypes'
    BY <2>1, <2>3, <2>4 DEF Closing, ShellsInv
  <2>6. \A s \in tabs' : opening'[s].at = "done" /\ opening'[s].cwd = panel'.cwd
    BY <2>1, <2>3, <2>4 DEF ShellsInv
  <2>7. \A s \in children' \ strayed' : s \in tabs' \/ opening'[s].at = "spawned"
    BY <2>1, <2>4 DEF Closing, ShellsInv
  <2> QED BY <2>1, <2>4, <2>5, <2>6, <2>7 DEF Closing, ShellsInv
<1>8. CASE Destroyed
  <2>1. panel' \in [mounted : BOOLEAN, cwd : Directories, changes : Nat]
    BY <1>8 DEF Destroyed, ShellsInv
  <2>2. TerminalTypes'
    BY <1>8, <2>1 DEF Destroyed, Closing, ShellsInv
  <2>3. children' = {}
    BY <1>8 DEF Destroyed, Closing, ShellsInv
  <2> QED BY <1>8, <2>2, <2>3 DEF Destroyed, Closing, ShellsInv
<1> QED BY <1>1, <1>2, <1>3, <1>4, <1>5, <1>6, <1>7, <1>8, PushKeeps, FlushKeeps, RegisterKeeps DEF TerminalsNext

\* A shell is known to the service, and to a window that listens to it.
LEMMA ShellsKept == TerminalsSpec => []ShellsInv
<1>1. ASSUME TerminalsInit PROVE ShellsInv
  <2>1. PICK d \in Directories : /\ panel = [mounted |-> TRUE, cwd |-> d, changes |-> 0]
                                 /\ opening = [s \in Terminals |-> [at |-> "new", cwd |-> d]]
    BY <1>1 DEF TerminalsInit
  <2>2. TerminalTypes
    BY <1>1, <2>1 DEF TerminalsInit, TerminalTypes, Outputs, NoOutput
  <2>3. \A s \in Terminals : Accounted(output[s])
    BY <1>1 DEF TerminalsInit, Accounted, NoOutput
  <2> QED BY <1>1, <2>2, <2>3 DEF TerminalsInit, ShellsInv
<1> QED BY <1>1, TerminalsNextKeeps, PTL DEF TerminalsSpec

\* A shell that runs is shown or being opened, a tab shows its own directory, and output is
\* accounted for (ShellsShown).
THEOREM ShellsAreShown == TerminalsSpec => []ShellsShown
<1>1. ShellsInv => ShellsShown
  BY DEF ShellsInv, ShellsShown, Accounted, TerminalTypes
<1> QED BY <1>1, ShellsKept, PTL

\* No more of the output of a session is shown, pending or buffered than was written.
Within(o) ==
  /\ o.written <= MaxChunks /\ o.buffer <= OutputCap /\ o.pending <= OutputCap
  /\ o.shown + o.pending + o.buffer <= o.written

TerminalBounds ==
  /\ panel.changes <= MaxShows
  /\ \A s \in Terminals : Within(output[s])
ShellTypes ==
  /\ window \in BOOLEAN /\ listening \in BOOLEAN
  /\ {children, sessions, tabs, strayed} \subseteq SUBSET Terminals

\* Output is written up to the bound, and moves on its way.
LEMMA OutputStaysWithin ==
  ASSUME ShellsInv, TerminalBounds, NEW s \in Terminals, Push(s) \/ Flush(s) \/ RegisterTerminal(s)
  PROVE  \A t \in Terminals : Within(output'[t])
<1> DEFINE o == output[s]
           q == output'[s]
<1>1. o \in Outputs /\ output \in [Terminals -> Outputs] /\ Within(o)
  BY DEF ShellsInv, TerminalTypes, TerminalBounds
<1>2. /\ o.shown \in Nat /\ o.pending \in Nat /\ o.buffer \in Nat /\ o.written \in Nat
      /\ MaxChunks \in Nat /\ OutputCap \in Nat
  BY <1>1, TerminalAssumption DEF Outputs, TerminalAssumption
<1>3. \A t \in Terminals \ {s} : output'[t] = output[t]
  BY <1>1 DEF Push, Flush, RegisterTerminal
<1>4. ASSUME Push(s) PROVE Within(q)
  <2>1. /\ q.shown = o.shown /\ q.pending = o.pending /\ q.written = o.written + 1 /\ o.written < MaxChunks
        /\ (o.buffer < OutputCap /\ q.buffer = o.buffer + 1) \/ q.buffer = o.buffer
    BY <1>1, <1>4 DEF Push, Outputs
  <2> HIDE DEF o, q
  <2> QED BY <1>1, <1>2, <2>1 DEF Within
<1>5. ASSUME Flush(s) PROVE Within(q)
  <2>1. /\ q.buffer = 0 /\ q.written = o.written
        /\ \/ q.shown = o.shown /\ q.pending = o.pending
           \/ q.shown = o.shown + o.buffer /\ q.pending = o.pending
           \/ q.shown = o.shown /\ q.pending = IF o.pending + o.buffer > OutputCap THEN OutputCap
                                               ELSE o.pending + o.buffer
    BY <1>1, <1>5 DEF Flush, Outputs
  <2> HIDE DEF o, q
  <2> QED BY <1>1, <1>2, <2>1 DEF Within
<1>6. ASSUME RegisterTerminal(s) PROVE Within(q)
  <2>1. q.written = o.written /\ q.buffer = o.buffer /\ q.pending = 0 /\ q.shown = o.shown + o.pending
    BY <1>1, <1>6 DEF RegisterTerminal, Outputs
  <2> HIDE DEF o, q
  <2> QED BY <1>1, <1>2, <2>1 DEF Within
<1>7. Within(q)
  BY <1>4, <1>5, <1>6
<1> QED BY <1>3, <1>7 DEF TerminalBounds

\* Each step keeps the bounds.
LEMMA TerminalBoundsKeep == ShellsInv /\ TerminalBounds /\ [TerminalsNext]_terminalVars => TerminalBounds'
<1> SUFFICES ASSUME ShellsInv, TerminalBounds, [TerminalsNext]_terminalVars PROVE TerminalBounds'
  OBVIOUS
<1>1. CASE UNCHANGED <<panel, output>>
  BY <1>1 DEF TerminalBounds, Within
<1>2. ASSUME NEW s \in Terminals, Push(s) \/ Flush(s) \/ RegisterTerminal(s) PROVE TerminalBounds'
  <2>1. \A t \in Terminals : Within(output'[t])
    BY <1>2, OutputStaysWithin
  <2> QED BY <1>2, <2>1 DEF Push, Flush, RegisterTerminal, TerminalBounds, Within
<1>3. CASE ChangePanel
  <2>1. panel'.changes = panel.changes + 1 /\ panel.changes < MaxShows /\ output' = output
        /\ panel.changes \in Nat /\ MaxShows \in Nat
    BY <1>3, TerminalAssumption DEF ChangePanel, ShellsInv, TerminalTypes, TerminalAssumption
  <2> QED BY <2>1 DEF TerminalBounds, Within
<1>4. CASE Destroyed
  <2>1. panel'.changes = panel.changes /\ output' = output
    BY <1>4 DEF Destroyed, ShellsInv, TerminalTypes
  <2> QED BY <2>1 DEF TerminalBounds, Within
<1>5. ASSUME NEW s \in Terminals, ~(Push(s) \/ Flush(s) \/ RegisterTerminal(s)),
             RequestOpenTab(s) \/ OpenSession(s) \/ OpenTab(s) \/ CloseTab(s) \/ Exit(s)
      PROVE  TerminalBounds'
  BY <1>1, <1>5 DEF RequestOpenTab, OpenSession, OpenTab, CloseTab, Exit
<1>6. CASE UNCHANGED terminalVars
  BY <1>1, <1>6 DEF terminalVars
<1> QED BY <1>2, <1>3, <1>4, <1>5, <1>6 DEF TerminalsNext

\* Each step keeps the sets of sessions.
LEMMA ShellTypesKeep == ShellTypes /\ [TerminalsNext]_terminalVars => ShellTypes'
<1> SUFFICES ASSUME ShellTypes, [TerminalsNext]_terminalVars PROVE ShellTypes'
  OBVIOUS
<1> USE DEF ShellTypes
<1>1. ASSUME NEW s \in Terminals, RequestOpenTab(s) \/ OpenSession(s) PROVE ShellTypes'
  BY <1>1 DEF RequestOpenTab, OpenSession
<1>2. ASSUME NEW s \in Terminals, OpenTab(s) \/ CloseTab(s) \/ Exit(s) PROVE ShellTypes'
  BY <1>2 DEF OpenTab, CloseTab, Exit, Closing
<1>3. ASSUME NEW s \in Terminals, Push(s) \/ Flush(s) \/ RegisterTerminal(s) PROVE ShellTypes'
  BY <1>3 DEF Push, Flush, RegisterTerminal
<1>4. CASE ChangePanel
  BY <1>4 DEF ChangePanel, Closing
<1>5. CASE Destroyed
  BY <1>5 DEF Destroyed, Closing
<1>6. CASE UNCHANGED terminalVars
  BY <1>6 DEF terminalVars
<1> QED BY <1>1, <1>2, <1>3, <1>4, <1>5, <1>6 DEF TerminalsNext

\* The variables of the terminals keep their types, and output its bounds.
THEOREM TerminalsTypeCorrect == TerminalsSpec => []TerminalsTypeOK
<1>1. TerminalsInit => TerminalBounds /\ ShellTypes
  <2> SUFFICES ASSUME TerminalsInit PROVE TerminalBounds /\ ShellTypes
    OBVIOUS
  <2>1. panel.changes = 0 /\ \A s \in Terminals : output[s] = NoOutput
    BY DEF TerminalsInit
  <2>2. Within(NoOutput)
    BY TerminalAssumption DEF Within, NoOutput, TerminalAssumption
  <2>3. TerminalBounds
    BY <2>1, <2>2, TerminalAssumption DEF TerminalBounds, TerminalAssumption
  <2> QED BY <2>3 DEF TerminalsInit, ShellTypes
<1>2. ShellsInv /\ TerminalBounds /\ ShellTypes => TerminalsTypeOK
  <2> SUFFICES ASSUME ShellsInv, TerminalBounds, ShellTypes PROVE TerminalsTypeOK
    OBVIOUS
  <2>1. panel \in [mounted : BOOLEAN, cwd : Directories, changes : 0..MaxShows]
    BY TerminalAssumption DEF ShellsInv, TerminalTypes, TerminalBounds, TerminalAssumption
  <2>2. ASSUME NEW s \in Terminals
        PROVE  output[s] \in [written : 0..MaxChunks, buffer : 0..OutputCap, truncated : BOOLEAN,
                              pending : 0..OutputCap, shown : 0..MaxChunks, mark : BOOLEAN]
    <3> DEFINE o == output[s]
    <3>1. o \in Outputs /\ Within(o) /\ MaxChunks \in Nat /\ OutputCap \in Nat
      BY TerminalAssumption DEF ShellsInv, TerminalTypes, TerminalBounds, TerminalAssumption
    <3>2. o.shown \in Nat /\ o.pending \in Nat /\ o.buffer \in Nat /\ o.written \in Nat
      BY <3>1 DEF Outputs
    <3> HIDE DEF o
    <3>3. o.shown \in 0..MaxChunks /\ o.pending \in 0..OutputCap /\ o.buffer \in 0..OutputCap /\ o.written \in 0..MaxChunks
      BY <3>1, <3>2 DEF Within
    <3> QED BY <3>1, <3>3 DEF Outputs, o
  <2> QED BY <2>1, <2>2 DEF ShellsInv, TerminalTypes, ShellTypes, TerminalsTypeOK
<1> QED BY <1>1, <1>2, TerminalBoundsKeep, ShellTypesKeep, ShellsKept, PTL DEF TerminalsSpec

-----------------------------------------------------------------------------
(* The signed-in session *)

CallRecords == [kind : {"context", "login", "logout", "restore"}, at : ApiPlaces, as : Owners,
                answer : Owners, of : Nat, got : Nat, retried : BOOLEAN]

\* A load for the session of now, and a sign-in or sign-out that has begun.
LiveLoad(c) == api[c].kind = "context" /\ api[c].at \notin {"new", "done", "failed"} /\ api[c].of = generation
Underway(c) == api[c].kind # "context" /\ api[c].at \notin {"done", "failed"}
Clearing == \E k \in ApiCalls : api[k].at = "clear"

SessionTypes ==
  /\ cookies \in Owners /\ access \subseteq Users /\ refreshable \subseteq Users
  /\ signedIn \in BOOLEAN /\ generation \in 0..MaxSignIns
  /\ context \in [0..MaxSignIns -> Owners]
  /\ refreshing \in [at : {"no", "send", "answer", "expire", "reset"}, as : Owners]
  /\ api \in [ApiCalls -> CallRecords]

\* One sign-in or sign-out at a time, no context of a session to come, and a
\* load that is done belongs to the session it was asked in.
CallsInOrder ==
  /\ \A c \in ApiCalls :
       /\ api[c].of <= generation
       /\ api[c].kind = "context" /\ api[c].at = "done" => api[c].got = api[c].of
       /\ api[c].at \in {"stopping", "clear"} => api[c].kind = "logout"
       /\ api[c].at \in {"new", "read", "keep", "kept"} => api[c].kind = "context"
       /\ Underway(c) => \A k \in ApiCalls \ {c} : ~Underway(k)
       /\ Underway(c) /\ api[c].kind \in {"login", "restore"} => signedIn = FALSE
       /\ api[c].at \in {"refresh", "expire", "reset"} => api[c].kind # "login"
       /\ Underway(c) /\ api[c].kind = "login" => api[c].answer \in Users
  /\ \A h \in 0..MaxSignIns : h > generation => context[h] = NoUser

\* What is loaded for the session of now is of the account of the cookies; out of a session
\* nothing is, and none of its loads has an answer while it is being cleared.
LoadsApart ==
  stray = FALSE =>
  /\ cookies # NoUser => context[generation] \in {NoUser, cookies}
  /\ signedIn = FALSE => context[generation] = NoUser
  /\ \A c \in ApiCalls : LiveLoad(c) =>
       /\ cookies # NoUser => /\ api[c].at = "answer" => api[c].as \in {NoUser, cookies}
                              /\ api[c].at = "keep" => api[c].answer = cookies
       /\ signedIn = FALSE => /\ cookies = NoUser /\ api[c].at # "keep"
                              /\ api[c].at = "answer" => api[c].as = NoUser
       /\ Clearing => api[c].at \notin {"answer", "keep"}

SessionInv == SessionTypes /\ stray \in BOOLEAN /\ CallsInOrder /\ LoadsApart

\* A call that goes on to a place without an answer in its hands.
Onward(x, y) ==
  /\ y.kind = x.kind /\ y.of = x.of
  /\ x.at \notin {"new", "done", "failed"}
  /\ y.at \notin {"new", "read", "answer", "keep", "stopping"}
  /\ y.at = "kept" => x.kind = "context"
  /\ y.at = "clear" => x.kind = "logout"
  /\ x.kind = "login" => y.at \in {"done", "failed"}
  /\ y.kind = "context" /\ y.at = "done" => y.got = y.of

\* Place keeps the kind of a call and its generation.
LEMMA PlaceFacts ==
  ASSUME NEW x \in CallRecords, NEW p \in ApiPlaces
  PROVE  /\ Place(x, p) \in CallRecords
         /\ Place(x, p).at = p /\ Place(x, p).kind = x.kind
         /\ Place(x, p).of = x.of /\ Place(x, p).got = x.got
BY DEF Place, CallRecords, Owners

\* The calls stay in order when some of them go on.
LEMMA CallsKeepOrder ==
  ASSUME SessionTypes, CallsInOrder, SessionTypes', generation' >= generation,
         \A k \in ApiCalls : api'[k] = api[k] \/ Onward(api[k], api'[k]),
         \A h \in 0..MaxSignIns : h > generation' => context'[h] = NoUser,
         signedIn' = TRUE => signedIn = TRUE \/ \A k \in ApiCalls : ~Underway(k)'
  PROVE  CallsInOrder'
<1>1. generation \in Nat /\ generation' \in Nat /\ MaxSignIns \in Nat
  BY ApiAssumption DEF SessionTypes
<1>2. \A k \in ApiCalls : Underway(k)' => Underway(k) /\ api'[k].kind = api[k].kind
  BY DEF Underway, Onward
<1> SUFFICES ASSUME NEW c \in ApiCalls
             PROVE  /\ (api[c].of <= generation)'
                    /\ (api[c].kind = "context" /\ api[c].at = "done" => api[c].got = api[c].of)'
                    /\ (api[c].at \in {"stopping", "clear"} => api[c].kind = "logout")'
                    /\ (api[c].at \in {"new", "read", "keep", "kept"} => api[c].kind = "context")'
                    /\ (Underway(c) => \A k \in ApiCalls \ {c} : ~Underway(k))'
                    /\ (Underway(c) /\ api[c].kind \in {"login", "restore"} => signedIn = FALSE)'
                    /\ (api[c].at \in {"refresh", "expire", "reset"} => api[c].kind # "login")'
                    /\ (Underway(c) /\ api[c].kind = "login" => api[c].answer \in Users)'
  BY DEF CallsInOrder
<1>3. api'[c].of = api[c].of /\ api[c].of \in Nat /\ api[c].of <= generation
  BY DEF Onward, SessionTypes, CallRecords, CallsInOrder
<1>4. (api[c].of <= generation)'
  BY <1>1, <1>3
<1>5. (api[c].kind = "context" /\ api[c].at = "done" => api[c].got = api[c].of)'
  BY DEF Onward, CallsInOrder
<1>6. (api[c].at \in {"stopping", "clear"} => api[c].kind = "logout")'
  BY DEF Onward, CallsInOrder
<1>7. (api[c].at \in {"new", "read", "keep", "kept"} => api[c].kind = "context")'
  BY DEF Onward, CallsInOrder
<1>8. (Underway(c) => \A k \in ApiCalls \ {c} : ~Underway(k))'
  BY <1>2 DEF CallsInOrder
<1>9. (Underway(c) /\ api[c].kind \in {"login", "restore"} => signedIn = FALSE)'
  BY <1>2 DEF CallsInOrder, SessionTypes
<1>10. (api[c].at \in {"refresh", "expire", "reset"} => api[c].kind # "login")'
  BY DEF Onward, CallsInOrder
<1>11. (Underway(c) /\ api[c].kind = "login" => api[c].answer \in Users)'
  BY DEF Underway, Onward, CallsInOrder
<1> QED BY <1>4, <1>5, <1>6, <1>7, <1>8, <1>9, <1>10, <1>11

\* Nothing is loaded in a session that has just begun.
LEMMA NewSession ==
  ASSUME SessionTypes, CallsInOrder, SessionTypes', generation' = generation + 1, context' = context,
         \A k \in ApiCalls : api'[k].of <= generation
  PROVE  LoadsApart'
<1>1. generation \in Nat /\ generation' \in 0..MaxSignIns /\ generation' > generation
  BY ApiAssumption DEF SessionTypes
<1>2. context'[generation'] = NoUser
  BY <1>1 DEF CallsInOrder
<1>3. \A k \in ApiCalls : ~LiveLoad(k)'
  <2> TAKE k \in ApiCalls
  <2>1. api'[k].of \in Nat /\ api'[k].of <= generation
    BY DEF SessionTypes, CallRecords
  <2> QED BY <1>1, <2>1 DEF LiveLoad
<1> QED BY <1>2, <1>3 DEF LoadsApart

\* Calls that go on within the session, and do not begin to clear it, leave it as it is.
LEMMA SameLoads ==
  ASSUME LoadsApart, generation' = generation, cookies' = cookies, stray' = FALSE => stray = FALSE,
         context'[generation] = context[generation], signedIn' = FALSE => signedIn = FALSE,
         \A k \in ApiCalls : api'[k] = api[k] \/ (Onward(api[k], api'[k]) /\ api'[k].at # "clear")
  PROVE  LoadsApart'
<1>1. \A k \in ApiCalls : LiveLoad(k)' => LiveLoad(k) /\ (api'[k] = api[k] \/ api'[k].at \notin {"answer", "keep"})
  BY DEF LiveLoad, Onward
<1>2. Clearing' => Clearing
  BY DEF Clearing
<1> QED BY <1>1, <1>2 DEF LoadsApart

-----------------------------------------------------------------------------

\* A load of the account is asked for, or shares the one in flight of its generation.
LEMMA LoadContextKeeps ==
  ASSUME SessionInv, NEW c \in ApiCalls, Ask(c), LoadContext(c) PROVE SessionInv'
<1> DEFINE r == [api[c] EXCEPT !.kind = "context", !.at = "read", !.of = generation]
<1>t. SessionTypes /\ CallsInOrder /\ LoadsApart
  BY DEF SessionInv
<1>1. api[c] \in CallRecords /\ generation \in Nat /\ signedIn = TRUE /\ api[c].at = "new"
  BY <1>t, ApiAssumption DEF SessionTypes, LoadContext, Ask
<1>2. r \in CallRecords /\ r.kind = "context" /\ r.at = "read" /\ r.of = generation
  BY <1>1 DEF CallRecords, ApiPlaces
<1>3. api' = [api EXCEPT ![c] = r]
      /\ UNCHANGED <<generation, cookies, server, signedIn, context, refreshing, stray>>
  BY DEF LoadContext, Ask
<1> HIDE DEF r
<1>4. api' \in [ApiCalls -> CallRecords] /\ api'[c] = r /\ \A k \in ApiCalls \ {c} : api'[k] = api[k]
  BY <1>2, <1>3, <1>t DEF SessionTypes
<1>5. SessionTypes' /\ stray' \in BOOLEAN
  BY <1>3, <1>4 DEF SessionInv, SessionTypes, server
<1>6. CallsInOrder'
  <2>1. \A k \in ApiCalls : Underway(k)' => k # c /\ Underway(k)
    BY <1>2, <1>4 DEF Underway
  <2>2. \A k \in ApiCalls : api'[k].of <= generation
    BY <1>1, <1>2, <1>4, <1>t DEF CallsInOrder
  <2> QED BY <1>2, <1>3, <1>4, <1>t, <2>1, <2>2 DEF CallsInOrder
<1>7. LoadsApart'
  <2>1. Clearing' => Clearing
    BY <1>2, <1>4 DEF Clearing
  <2>2. \A k \in ApiCalls : LiveLoad(k)' => k = c \/ LiveLoad(k)
    BY <1>3, <1>4 DEF LiveLoad
  <2> QED BY <1>1, <1>2, <1>3, <1>4, <1>t, <2>1, <2>2 DEF LoadsApart
<1> QED BY <1>5, <1>6, <1>7 DEF SessionInv

\* A sign-in or a sign-out begins when no other is under way.
LEMMA BeginsKeeps ==
  ASSUME SessionInv, NEW c \in ApiCalls, NEW r \in CallRecords, api[c].at = "new",
         \A k \in ApiCalls : api[k].kind # "context" => api[k].at \in {"done", "failed"},
         api' = [api EXCEPT ![c] = r], UNCHANGED <<cookies, server, signedIn, context, refreshing, stray>>,
         generation' \in 0..MaxSignIns, generation' \in {generation, generation + 1},
         r.kind \in {"login", "logout", "restore"}, r.at \in {"send", "stopping", "failed"}, r.of = api[c].of,
         r.at = "stopping" => r.kind = "logout", r.kind # "logout" => signedIn = FALSE,
         r.kind = "login" => r.answer \in Users
  PROVE  SessionInv'
<1>t. SessionTypes /\ CallsInOrder /\ LoadsApart
  BY DEF SessionInv
<1>1. generation \in Nat /\ generation' >= generation /\ MaxSignIns \in Nat
  BY <1>t, ApiAssumption DEF SessionTypes
<1>2. api' \in [ApiCalls -> CallRecords] /\ api'[c] = r /\ \A k \in ApiCalls \ {c} : api'[k] = api[k]
  BY <1>t DEF SessionTypes
<1>3. SessionTypes' /\ stray' \in BOOLEAN
  BY <1>2 DEF SessionInv, SessionTypes, server
<1>4. \A k \in ApiCalls : ~Underway(k) \/ k = c
  BY DEF Underway
<1>5. \A k \in ApiCalls : Underway(k)' => k = c
  BY <1>2, <1>4 DEF Underway
<1>6. \A k \in ApiCalls : api'[k].of <= generation /\ api'[k].of <= generation'
  <2> TAKE k \in ApiCalls
  <2>1. api[k].of \in Nat /\ api[k].of <= generation /\ api'[k].of = api[k].of
    BY <1>2, <1>t DEF SessionTypes, CallRecords, CallsInOrder
  <2> QED BY <1>1, <2>1
<1>7. CallsInOrder'
  <2>1. \A h \in 0..MaxSignIns : h > generation' => context'[h] = NoUser
    BY <1>1, <1>t DEF CallsInOrder
  <2>2. \A k \in ApiCalls : Underway(k)' /\ api'[k].kind \in {"login", "restore"} => signedIn' = FALSE
    BY <1>2, <1>5
  <2>3. \A k \in ApiCalls : /\ api'[k].kind = "context" /\ api'[k].at = "done" => api'[k].got = api'[k].of
                            /\ api'[k].at \in {"stopping", "clear"} => api'[k].kind = "logout"
                            /\ api'[k].at \in {"new", "read", "keep", "kept"} => api'[k].kind = "context"
                            /\ api'[k].at \in {"refresh", "expire", "reset"} => api'[k].kind # "login"
    BY <1>2, <1>t DEF CallsInOrder
  <2>5. \A k \in ApiCalls : (Underway(k) /\ api[k].kind = "login" => api[k].answer \in Users)'
    BY <1>2, <1>5
  <2>4. \A k \in ApiCalls : (Underway(k) => \A l \in ApiCalls \ {k} : ~Underway(l))'
    BY <1>5
  <2> QED BY <1>6, <2>1, <2>2, <2>3, <2>4, <2>5 DEF CallsInOrder
<1>8. CASE generation' = generation + 1
  BY <1>3, <1>6, <1>7, <1>8, <1>t, NewSession DEF SessionInv
<1>9. CASE generation' = generation
  <2>1. \A k \in ApiCalls : LiveLoad(k)' => k # c /\ LiveLoad(k)
    BY <1>2, <1>9 DEF LiveLoad
  <2>2. Clearing' => Clearing
    BY <1>2 DEF Clearing
  <2>3. LoadsApart'
    BY <1>2, <1>9, <1>t, <2>1, <2>2 DEF LoadsApart
  <2> QED BY <1>3, <1>7, <2>3 DEF SessionInv
<1> QED BY <1>8, <1>9

\* A call starts.
LEMMA AskKeeps == ASSUME SessionInv, NEW c \in ApiCalls, Ask(c) PROVE SessionInv'
<1>t. SessionTypes
  BY DEF SessionInv
<1>1. api[c] \in CallRecords /\ api[c].at = "new" /\ UNCHANGED <<cookies, server, signedIn, context, refreshing, stray>>
      /\ generation \in 0..MaxSignIns
  BY <1>t DEF SessionTypes, Ask
<1>2. CASE LoadContext(c)
  BY <1>2, LoadContextKeeps
<1> DEFINE Alone == \A k \in ApiCalls : api[k].kind # "context" => api[k].at \in {"done", "failed"}
<1>3. CASE Alone /\ Logout(c)
  <2> DEFINE r == [api[c] EXCEPT !.kind = "logout", !.at = "stopping"]
  <2>1. r \in CallRecords /\ r.kind = "logout" /\ r.at = "stopping" /\ r.of = api[c].of
    BY <1>1 DEF CallRecords, ApiPlaces
  <2>2. api' = [api EXCEPT ![c] = r] /\ generation' = generation
    BY <1>3 DEF Logout
  <2> HIDE DEF r
  <2> QED BY <1>1, <1>3, <2>1, <2>2, BeginsKeeps
<1>4. CASE Alone /\ RestoreSession(c)
  <2> DEFINE p == IF cookies = NoUser THEN "failed" ELSE "send"
             r == [api[c] EXCEPT !.kind = "restore", !.at = p]
  <2>1. p \in ApiPlaces /\ p \in {"failed", "send"}
    BY DEF ApiPlaces
  <2>2. api' = [api EXCEPT ![c] = r] /\ signedIn = FALSE
    BY <1>4, <1>t DEF RestoreSession, SessionTypes
  <2>3. generation' = generation + 1 /\ generation' \in 0..MaxSignIns
    BY <1>1, <1>4, ApiAssumption DEF RestoreSession, ResetSession
  <2> HIDE DEF p
  <2>4. r \in CallRecords /\ r.kind = "restore" /\ r.at = p /\ r.of = api[c].of
    BY <1>1, <2>1 DEF CallRecords
  <2> HIDE DEF r
  <2> QED BY <1>1, <1>4, <2>1, <2>2, <2>3, <2>4, BeginsKeeps
<1>5. ASSUME Alone, NEW u \in Users, Login(c, u) PROVE SessionInv'
  <2> DEFINE r == [api[c] EXCEPT !.kind = "login", !.at = "send", !.answer = u]
  <2>1. r \in CallRecords /\ r.kind = "login" /\ r.at = "send" /\ r.of = api[c].of /\ r.answer = u
    BY <1>1 DEF CallRecords, ApiPlaces, Owners
  <2>2. api' = [api EXCEPT ![c] = r] /\ generation' = generation /\ signedIn = FALSE
    BY <1>5, <1>t DEF Login, SessionTypes
  <2> HIDE DEF r
  <2> QED BY <1>1, <1>5, <2>1, <2>2, BeginsKeeps
<1> QED BY <1>2, <1>3, <1>4, <1>5 DEF Ask

-----------------------------------------------------------------------------

\* A step within a session, in which calls only go on.
LEMMA GoOnKeeps ==
  ASSUME SessionInv, SessionTypes', UNCHANGED <<generation, context, cookies, signedIn, stray>>,
         \A k \in ApiCalls : api'[k] = api[k] \/ (Onward(api[k], api'[k]) /\ api'[k].at # "clear")
  PROVE  SessionInv'
<1>1. generation \in Nat /\ generation' >= generation
  BY ApiAssumption DEF SessionInv, SessionTypes
<1>2. CallsInOrder'
  <2>1. \A h \in 0..MaxSignIns : h > generation' => context'[h] = NoUser
    BY DEF SessionInv, CallsInOrder
  <2> QED BY <1>1, <2>1, CallsKeepOrder DEF SessionInv
<1>3. LoadsApart'
  BY SameLoads DEF SessionInv
<1> QED BY <1>2, <1>3 DEF SessionInv

\* A step that begins a session ends or clears calls.
LEMMA ResetKeeps ==
  ASSUME SessionInv, SessionTypes', stray' = stray, ResetSession, context' = context, signedIn' = TRUE => signedIn = TRUE,
         \A k \in ApiCalls : api'[k] = api[k] \/ Onward(api[k], api'[k])
  PROVE  SessionInv'
<1>1. generation \in Nat /\ generation' = generation + 1 /\ generation' >= generation /\ MaxSignIns \in Nat
  BY ApiAssumption DEF SessionInv, SessionTypes, ResetSession
<1>2. CallsInOrder'
  <2>1. \A h \in 0..MaxSignIns : h > generation' => context'[h] = NoUser
    BY <1>1 DEF SessionInv, CallsInOrder
  <2> QED BY <1>1, <2>1, CallsKeepOrder DEF SessionInv
<1>3. \A k \in ApiCalls : api'[k].of <= generation
  BY DEF SessionInv, CallsInOrder, Onward
<1>4. LoadsApart'
  BY <1>1, <1>3, NewSession DEF SessionInv
<1> QED BY <1>2, <1>4 DEF SessionInv

\* What Go does to the calls.
LEMMA GoFacts ==
  ASSUME SessionTypes, NEW c \in ApiCalls, NEW p \in ApiPlaces, Go(c, p),
         api[c].at \notin {"new", "done", "failed"}, p \notin {"new", "read", "answer", "keep", "stopping"},
         p = "kept" => api[c].kind = "context", p = "clear" => api[c].kind = "logout",
         p = "done" => api[c].kind # "context", api[c].kind = "login" => p \in {"done", "failed"}
  PROVE  /\ api' \in [ApiCalls -> CallRecords] /\ api'[c].at = p
         /\ \A k \in ApiCalls \ {c} : api'[k] = api[k]
         /\ \A k \in ApiCalls : api'[k] = api[k] \/ (Onward(api[k], api'[k]) /\ api'[k].at = p)
<1> DEFINE r == Place(api[c], p)
<1>1. api[c] \in CallRecords
  BY DEF SessionTypes
<1>2. r \in CallRecords /\ r.at = p /\ r.kind = api[c].kind /\ r.of = api[c].of
  BY <1>1, PlaceFacts
<1>3. api' = [api EXCEPT ![c] = r]
  BY DEF Go
<1> HIDE DEF r
<1> QED BY <1>1, <1>2, <1>3 DEF SessionTypes, Onward

\* What the failure of an operation does to them.
LEMMA FailFacts ==
  ASSUME SessionTypes, NEW over \in SUBSET ApiCalls, \A c \in over : api[c].at \notin {"new", "done", "failed"},
         api' = [k \in ApiCalls |-> IF \E c \in over : k \in Waiting(c) THEN Place(api[k], "failed") ELSE api[k]]
  PROVE  /\ api' \in [ApiCalls -> CallRecords]
         /\ \A k \in ApiCalls : api'[k] = api[k] \/ (Onward(api[k], api'[k]) /\ api'[k].at = "failed")
<1>1. \A k \in ApiCalls : /\ api[k] \in CallRecords /\ Place(api[k], "failed") \in CallRecords
                          /\ Place(api[k], "failed").at = "failed" /\ Place(api[k], "failed").kind = api[k].kind
                          /\ Place(api[k], "failed").of = api[k].of
  BY PlaceFacts DEF SessionTypes, ApiPlaces
<1>2. \A k \in ApiCalls : (\E c \in over : k \in Waiting(c)) => api[k].at \notin {"new", "done", "failed"}
  BY DEF Waiting
<1> QED BY <1>1, <1>2 DEF Onward

\* A call fails, and with it those that wait for the same answer.
LEMMA FailWithFacts ==
  ASSUME SessionTypes, NEW c \in ApiCalls, FailWith(c), api[c].at \notin {"new", "done", "failed"}
  PROVE  /\ api' \in [ApiCalls -> CallRecords]
         /\ \A k \in ApiCalls : api'[k] = api[k] \/ (Onward(api[k], api'[k]) /\ api'[k].at = "failed")
<1>1. api' = [k \in ApiCalls |-> IF \E d \in {c} : k \in Waiting(d) THEN Place(api[k], "failed") ELSE api[k]]
  BY DEF FailWith
<1> DEFINE over == {c}
<1>2. over \in SUBSET ApiCalls /\ \A d \in over : api[d].at \notin {"new", "done", "failed"}
  OBVIOUS
<1>3. api' = [k \in ApiCalls |-> IF \E d \in over : k \in Waiting(d) THEN Place(api[k], "failed") ELSE api[k]]
  BY <1>1
<1> HIDE DEF over
<1> QED BY <1>2, <1>3, FailFacts

\* The account is read from the server, or the load is over.
LEMMA ReadContextKeeps == ASSUME SessionInv, NEW c \in ApiCalls, ReadContext(c) PROVE SessionInv'
<1>t. SessionTypes /\ CallsInOrder
  BY DEF SessionInv
<1>1. api[c].at = "read" /\ UNCHANGED <<cookies, server, signedIn, generation, context, refreshing, stray>>
  BY DEF ReadContext
<1>2. api[c].kind = "context" /\ api[c] \in CallRecords /\ generation \in Nat
  BY <1>1, <1>t, ApiAssumption DEF CallsInOrder, SessionTypes
<1>3. ASSUME NEW p \in {"failed", "joined", "send"}, Go(c, p) PROVE SessionInv'
  <2>1. p \in ApiPlaces /\ p \in {"failed", "joined", "send"} /\ Go(c, p)
    BY <1>3 DEF ApiPlaces
  <2>2. /\ api' \in [ApiCalls -> CallRecords]
        /\ \A k \in ApiCalls : api'[k] = api[k] \/ (Onward(api[k], api'[k]) /\ api'[k].at = p)
    <3>1. api[c].at \notin {"new", "done", "failed"} /\ api[c].kind # "login"
      BY <1>1, <1>2
    <3> QED BY <1>2, <1>t, <2>1, <3>1, GoFacts
  <2>3. SessionTypes'
    BY <1>1, <1>t, <2>2 DEF SessionTypes, server
  <2> QED BY <1>1, <1>3, <2>2, <2>3, GoOnKeeps
<1>4. CASE SameSession(c) /\ api' = [api EXCEPT ![c] = [Place(api[c], "done") EXCEPT !.got = generation]]
  <2> DEFINE x == Place(api[c], "done")
             r == [x EXCEPT !.got = generation]
  <2>1. x \in CallRecords /\ x.at = "done" /\ x.kind = "context" /\ x.of = api[c].of
    BY <1>2, PlaceFacts DEF ApiPlaces
  <2>2. api' = [api EXCEPT ![c] = r]
    BY <1>4
  <2> HIDE DEF x
  <2>3. r \in CallRecords /\ r.at = "done" /\ r.kind = "context" /\ r.of = api[c].of /\ r.got = generation
    BY <1>2, <2>1 DEF CallRecords
  <2> HIDE DEF r
  <2>4. api' \in [ApiCalls -> CallRecords]
    BY <1>t, <2>2, <2>3 DEF SessionTypes
  <2>5. \A k \in ApiCalls : api'[k] = api[k] \/ (Onward(api[k], api'[k]) /\ api'[k].at # "clear")
    BY <1>1, <1>2, <1>4, <1>t, <2>2, <2>3 DEF SessionTypes, Onward, SameSession
  <2>6. SessionTypes'
    BY <1>1, <1>t, <2>4 DEF SessionTypes, server
  <2> QED BY <1>1, <2>5, <2>6, GoOnKeeps
<1> QED BY <1>3, <1>4 DEF ReadContext

\* The agents are stopped before a sign-out is sent.
LEMMA StopAgentsKeeps == ASSUME SessionInv, NEW c \in ApiCalls, StopAgents(c) PROVE SessionInv'
<1>t. SessionTypes /\ CallsInOrder
  BY DEF SessionInv
<1>1. api[c].at = "stopping" /\ api[c].kind = "logout" /\ UNCHANGED <<cookies, server, signedIn, context, refreshing, stray>>
  BY <1>t DEF StopAgents, CallsInOrder
<1>2. CASE Go(c, "send") /\ UNCHANGED <<generation, inFlight>>
  <2>1. /\ api' \in [ApiCalls -> CallRecords]
        /\ \A k \in ApiCalls : api'[k] = api[k] \/ (Onward(api[k], api'[k]) /\ api'[k].at = "send")
    BY <1>1, <1>2, <1>t, GoFacts DEF ApiPlaces
  <2>2. SessionTypes'
    BY <1>1, <1>2, <1>t, <2>1 DEF SessionTypes, server
  <2> QED BY <1>1, <1>2, <2>1, <2>2, GoOnKeeps
<1>3. CASE Go(c, "clear") /\ ResetSession
  <2>1. /\ api' \in [ApiCalls -> CallRecords]
        /\ \A k \in ApiCalls : api'[k] = api[k] \/ (Onward(api[k], api'[k]) /\ api'[k].at = "clear")
    BY <1>1, <1>3, <1>t, GoFacts DEF ApiPlaces
  <2>2. generation' \in 0..MaxSignIns
    BY <1>3, <1>t, ApiAssumption DEF ResetSession, SessionTypes
  <2>3. SessionTypes'
    BY <1>1, <1>t, <2>1, <2>2 DEF SessionTypes, server
  <2> QED BY <1>1, <1>3, <2>1, <2>3, ResetKeeps
<1> QED BY <1>2, <1>3 DEF StopAgents

\* A request is sent with the cookies of now; one sent while the session is cleared is a stray.
LEMMA SendKeeps == ASSUME SessionInv, NEW c \in ApiCalls, Send(c) PROVE SessionInv'
<1> DEFINE r == [api[c] EXCEPT !.at = "answer", !.as = cookies]
<1>t. SessionTypes /\ CallsInOrder /\ LoadsApart /\ stray \in BOOLEAN
  BY DEF SessionInv
<1>1. api[c] \in CallRecords /\ api[c].at = "send" /\ cookies \in Owners /\ generation \in Nat
      /\ UNCHANGED <<cookies, server, signedIn, generation, inFlight, context, refreshing>>
      /\ stray' = (stray \/ Clearing)
  BY <1>t, ApiAssumption DEF SessionTypes, Send, Clearing
<1>2. r \in CallRecords /\ r.at = "answer" /\ r.as = cookies /\ r.kind = api[c].kind /\ r.of = api[c].of
      /\ r.answer = api[c].answer
  BY <1>1 DEF CallRecords, ApiPlaces
<1>3. api' = [api EXCEPT ![c] = r]
  BY <1>t DEF Send, SessionTypes
<1> HIDE DEF r
<1>4. api' \in [ApiCalls -> CallRecords] /\ api'[c] = r /\ \A k \in ApiCalls \ {c} : api'[k] = api[k]
  BY <1>2, <1>3, <1>t DEF SessionTypes
<1>5. SessionTypes' /\ stray' \in BOOLEAN
  BY <1>1, <1>4, <1>t DEF SessionTypes, server
<1>6. CallsInOrder'
  <2>1. \A k \in ApiCalls : Underway(k)' <=> Underway(k)
    BY <1>1, <1>2, <1>4 DEF Underway
  <2>2. \A k \in ApiCalls : api'[k].kind = api[k].kind /\ api'[k].of = api[k].of /\ api'[k].answer = api[k].answer
                            /\ (k = c \/ (api'[k].at = api[k].at /\ api'[k].got = api[k].got))
    BY <1>2, <1>4
  <2>3. api'[c].at = "answer"
    BY <1>2, <1>4
  <2> QED BY <1>1, <1>t, <2>1, <2>2, <2>3 DEF CallsInOrder
<1>7. LoadsApart'
  <2> SUFFICES ASSUME stray' = FALSE PROVE LoadsApart'
    BY DEF LoadsApart
  <2>1. stray = FALSE /\ ~Clearing
    BY <1>1, <1>t
  <2>2. ~Clearing'
    BY <1>2, <1>4, <2>1 DEF Clearing
  <2>3. \A k \in ApiCalls : LiveLoad(k)' => LiveLoad(k)
    BY <1>1, <1>2, <1>4 DEF LiveLoad
  <2>4. /\ cookies' # NoUser => context'[generation'] \in {NoUser, cookies'}
        /\ signedIn' = FALSE => context'[generation'] = NoUser
    BY <1>1, <1>t, <2>1 DEF LoadsApart
  <2>5. ASSUME NEW k \in ApiCalls, LiveLoad(k)'
        PROVE  /\ cookies' # NoUser => /\ api'[k].at = "answer" => api'[k].as \in {NoUser, cookies'}
                                       /\ api'[k].at = "keep" => api'[k].answer = cookies'
               /\ signedIn' = FALSE => /\ cookies' = NoUser /\ api'[k].at # "keep"
                                       /\ api'[k].at = "answer" => api'[k].as = NoUser
    <3>1. LiveLoad(k)
      BY <2>3, <2>5
    <3>2. CASE k = c
      BY <1>1, <1>2, <1>4, <1>t, <2>1, <3>1, <3>2 DEF LoadsApart
    <3>3. CASE k # c
      BY <1>1, <1>4, <1>t, <2>1, <3>1, <3>3 DEF LoadsApart
    <3> QED BY <3>2, <3>3
  <2> QED BY <2>2, <2>4, <2>5 DEF LoadsApart
<1> QED BY <1>5, <1>6, <1>7 DEF SessionInv

\* The context is granted to the account that asked.
LEMMA GrantKeeps ==
  ASSUME SessionInv, NEW c \in ApiCalls, Answer(c), api[c].kind = "context", api[c].as \in access,
         api' = [api EXCEPT ![c].at = "keep", ![c].answer = api[c].as],
         UNCHANGED <<cookies, server, signedIn, generation, inFlight>>
  PROVE  SessionInv'
<1> DEFINE r == [api[c] EXCEPT !.at = "keep", !.answer = api[c].as]
<1>t. SessionTypes /\ CallsInOrder /\ LoadsApart /\ stray \in BOOLEAN
  BY DEF SessionInv
<1>1. api[c] \in CallRecords /\ api[c].at = "answer" /\ generation \in Nat /\ api[c].as # NoUser
      /\ UNCHANGED <<context, refreshing, stray>>
  BY <1>t, ApiAssumption DEF SessionTypes, Answer
<1>2. r \in CallRecords /\ r.at = "keep" /\ r.answer = api[c].as /\ r.kind = "context" /\ r.of = api[c].of
  BY <1>1 DEF CallRecords, ApiPlaces
<1>3. api' = [api EXCEPT ![c] = r]
  BY <1>t DEF SessionTypes
<1> HIDE DEF r
<1>4. api' \in [ApiCalls -> CallRecords] /\ api'[c] = r /\ \A k \in ApiCalls \ {c} : api'[k] = api[k]
  BY <1>2, <1>3, <1>t DEF SessionTypes
<1>5. SessionTypes' /\ stray' \in BOOLEAN
  BY <1>1, <1>4, <1>t DEF SessionTypes, server
<1>6. CallsInOrder'
  <2>1. \A k \in ApiCalls : Underway(k)' => k # c /\ Underway(k)
    BY <1>2, <1>4 DEF Underway
  <2>2. api'[c].at = "keep" /\ api'[c].kind = "context" /\ api'[c].of = api[c].of
    BY <1>2, <1>4
  <2> QED BY <1>1, <1>4, <1>t, <2>1, <2>2 DEF CallsInOrder
<1>7. LoadsApart'
  <2> SUFFICES ASSUME stray = FALSE PROVE LoadsApart'
    BY <1>1 DEF LoadsApart
  <2>1. Clearing' => Clearing
    BY <1>2, <1>4 DEF Clearing
  <2>2. \A k \in ApiCalls : LiveLoad(k)' => LiveLoad(k)
    BY <1>1, <1>2, <1>4 DEF LiveLoad
  <2>3. /\ cookies' # NoUser => context'[generation'] \in {NoUser, cookies'}
        /\ signedIn' = FALSE => context'[generation'] = NoUser
    BY <1>1, <1>t DEF LoadsApart
  <2>4. ASSUME LiveLoad(c)'
        PROVE  (cookies # NoUser => api[c].as = cookies) /\ signedIn # FALSE /\ ~Clearing
    BY <1>1, <1>t, <2>2, <2>4 DEF LoadsApart
  <2>5. ASSUME NEW k \in ApiCalls, LiveLoad(k)'
        PROVE  /\ cookies' # NoUser => /\ api'[k].at = "answer" => api'[k].as \in {NoUser, cookies'}
                                       /\ api'[k].at = "keep" => api'[k].answer = cookies'
               /\ signedIn' = FALSE => /\ cookies' = NoUser /\ api'[k].at # "keep"
                                       /\ api'[k].at = "answer" => api'[k].as = NoUser
               /\ Clearing' => api'[k].at \notin {"answer", "keep"}
    <3>1. CASE k = c
      BY <1>2, <1>4, <2>1, <2>4, <2>5, <3>1
    <3>2. CASE k # c
      BY <1>1, <1>4, <1>t, <2>1, <2>2, <2>5, <3>2 DEF LoadsApart
    <3> QED BY <3>1, <3>2
  <2> QED BY <2>3, <2>5 DEF LoadsApart
<1> QED BY <1>5, <1>6, <1>7 DEF SessionInv

\* A sign-in is answered, or a restored session: until then there was none, and nothing of it
\* was loaded.
LEMMA SignedInKeeps ==
  ASSUME SessionInv, SessionTypes', NEW c \in ApiCalls, api[c].kind \in {"login", "restore"}, api[c].at = "answer",
         Go(c, "done"), signedIn' = TRUE, UNCHANGED <<generation, context, stray>>
  PROVE  SessionInv'
<1>t. SessionTypes /\ CallsInOrder /\ LoadsApart /\ stray \in BOOLEAN
  BY DEF SessionInv
<1>1. /\ api' \in [ApiCalls -> CallRecords] /\ api'[c].at = "done"
      /\ \A k \in ApiCalls \ {c} : api'[k] = api[k]
      /\ \A k \in ApiCalls : api'[k] = api[k] \/ (Onward(api[k], api'[k]) /\ api'[k].at = "done")
  BY <1>t, GoFacts DEF ApiPlaces
<1>2. generation \in Nat /\ signedIn = FALSE /\ Underway(c)
  BY <1>t, ApiAssumption DEF SessionTypes, CallsInOrder, Underway
<1>3. \A k \in ApiCalls : ~Underway(k)'
  BY <1>1, <1>2, <1>t DEF Underway, CallsInOrder
<1>4. CallsInOrder'
  <2>1. \A h \in 0..MaxSignIns : h > generation' => context'[h] = NoUser
    BY <1>t DEF CallsInOrder
  <2>2. generation' >= generation
    BY <1>2
  <2> QED BY <1>1, <1>3, <1>t, <2>1, <2>2, CallsKeepOrder
<1>5. LoadsApart'
  <2> SUFFICES ASSUME stray = FALSE PROVE LoadsApart'
    BY DEF LoadsApart
  <2>1. Clearing' => Clearing
    BY <1>1 DEF Clearing
  <2>2. \A k \in ApiCalls : LiveLoad(k)' => LiveLoad(k) /\ (api'[k] = api[k] \/ api'[k].at \notin {"answer", "keep"})
    BY <1>1 DEF LiveLoad, Onward
  <2>3. context[generation] = NoUser
    BY <1>2, <1>t DEF LoadsApart
  <2>4. \A k \in ApiCalls : LiveLoad(k) => api[k].at # "keep" /\ (api[k].at = "answer" => api[k].as = NoUser)
    BY <1>2, <1>t DEF LoadsApart
  <2>5. \A k \in ApiCalls : LiveLoad(k) => (Clearing => api[k].at \notin {"answer", "keep"})
    BY <1>t DEF LoadsApart
  <2> QED BY <2>1, <2>2, <2>3, <2>4, <2>5 DEF LoadsApart
<1> QED BY <1>4, <1>5, <1>t DEF SessionInv

\* The server has answered.
LEMMA ApiAnswerKeeps == ASSUME SessionInv, NEW c \in ApiCalls, Answer(c) PROVE SessionInv'
<1>t. SessionTypes /\ CallsInOrder
  BY DEF SessionInv
<1>1. api[c].at = "answer" /\ api[c] \in CallRecords /\ UNCHANGED <<context, refreshing, stray>>
  BY <1>t DEF Answer, SessionTypes
<1>2. CASE /\ api[c].kind = "context" /\ api[c].as \in access
           /\ api' = [api EXCEPT ![c].at = "keep", ![c].answer = api[c].as]
           /\ UNCHANGED <<cookies, server, signedIn, generation, inFlight>>
  BY <1>2, GrantKeeps
<1>3. CASE /\ api[c].kind = "context"
           /\ Go(c, IF api[c].retried THEN "expire" ELSE "refresh")
           /\ UNCHANGED <<cookies, server, signedIn, generation, inFlight>>
  <2> DEFINE p == IF api[c].retried THEN "expire" ELSE "refresh"
  <2>1. p \in {"expire", "refresh"} /\ p \in ApiPlaces /\ Go(c, p)
    BY <1>3 DEF ApiPlaces
  <2> HIDE DEF p
  <2>2. /\ api' \in [ApiCalls -> CallRecords]
        /\ \A k \in ApiCalls : api'[k] = api[k] \/ (Onward(api[k], api'[k]) /\ api'[k].at = p)
    BY <1>1, <1>3, <1>t, <2>1, GoFacts
  <2>3. SessionTypes'
    BY <1>1, <1>3, <1>t, <2>2 DEF SessionTypes, server
  <2> QED BY <1>1, <1>3, <2>1, <2>2, <2>3, GoOnKeeps
<1>4. CASE /\ api[c].kind = "login" /\ Go(c, "done")
           /\ cookies' = api[c].answer
           /\ access' = access \cup {cookies'} /\ refreshable' = refreshable \cup {cookies'}
           /\ signedIn' = TRUE /\ UNCHANGED <<generation, inFlight>>
  <2>1. api[c].answer \in Users
    BY <1>1, <1>4, <1>t DEF CallsInOrder, Underway
  <2>2. api' \in [ApiCalls -> CallRecords]
    BY <1>1, <1>4, <1>t, GoFacts DEF ApiPlaces
  <2>3. SessionTypes'
    BY <1>1, <1>4, <1>t, <2>1, <2>2 DEF SessionTypes, Owners
  <2> QED BY <1>1, <1>4, <2>3, SignedInKeeps
<1>5. CASE /\ api[c].kind = "logout" /\ Go(c, "clear")
           /\ \/ access' = access \ {api[c].as} /\ refreshable' = refreshable \ {api[c].as}
              \/ UNCHANGED server
           /\ UNCHANGED <<cookies, signedIn>> /\ ResetSession
  <2>1. /\ api' \in [ApiCalls -> CallRecords]
        /\ \A k \in ApiCalls : api'[k] = api[k] \/ (Onward(api[k], api'[k]) /\ api'[k].at = "clear")
    BY <1>1, <1>5, <1>t, GoFacts DEF ApiPlaces
  <2>2. generation' \in 0..MaxSignIns
    BY <1>5, <1>t, ApiAssumption DEF ResetSession, SessionTypes
  <2>3. access' \subseteq Users /\ refreshable' \subseteq Users
    BY <1>5, <1>t DEF SessionTypes, server
  <2>4. SessionTypes'
    BY <1>1, <1>5, <1>t, <2>1, <2>2, <2>3 DEF SessionTypes
  <2> QED BY <1>1, <1>5, <2>1, <2>4, ResetKeeps
<1>6. CASE /\ api[c].kind = "restore" /\ api[c].as \in access
           /\ Go(c, "done") /\ signedIn' = TRUE
           /\ UNCHANGED <<cookies, server, generation, inFlight>>
  <2>1. api' \in [ApiCalls -> CallRecords]
    BY <1>1, <1>6, <1>t, GoFacts DEF ApiPlaces
  <2>2. SessionTypes'
    BY <1>1, <1>6, <1>t, <2>1 DEF SessionTypes, server
  <2> QED BY <1>1, <1>6, <2>2, SignedInKeeps
<1>7. CASE /\ api[c].kind = "restore" /\ api[c].as \in refreshable
           /\ Go(c, "done") /\ signedIn' = TRUE
           /\ cookies' = api[c].as /\ access' = access \cup {api[c].as}
           /\ UNCHANGED <<refreshable, generation, inFlight>>
  <2>1. api' \in [ApiCalls -> CallRecords]
    BY <1>1, <1>7, <1>t, GoFacts DEF ApiPlaces
  <2>2. SessionTypes'
    BY <1>1, <1>7, <1>t, <2>1 DEF SessionTypes, Owners
  <2> QED BY <1>1, <1>7, <2>2, SignedInKeeps
<1>8. CASE /\ api[c].kind = "restore" /\ Go(c, "expire") /\ UNCHANGED <<cookies, access, signedIn>>
           /\ UNCHANGED <<refreshable, generation, inFlight>>
  <2>1. /\ api' \in [ApiCalls -> CallRecords]
        /\ \A k \in ApiCalls : api'[k] = api[k] \/ (Onward(api[k], api'[k]) /\ api'[k].at = "expire")
    BY <1>1, <1>8, <1>t, GoFacts DEF ApiPlaces
  <2>2. SessionTypes'
    BY <1>1, <1>8, <1>t, <2>1 DEF SessionTypes
  <2> QED BY <1>1, <1>8, <2>1, <2>2, GoOnKeeps
<1>9. CASE /\ FailWith(c) /\ UNCHANGED <<cookies, server, signedIn, generation>>
  <2>1. /\ api' \in [ApiCalls -> CallRecords]
        /\ \A k \in ApiCalls : api'[k] = api[k] \/ (Onward(api[k], api'[k]) /\ api'[k].at = "failed")
    BY <1>1, <1>9, <1>t, FailWithFacts
  <2>2. SessionTypes'
    BY <1>1, <1>9, <1>t, <2>1 DEF SessionTypes, server
  <2> QED BY <1>1, <1>9, <2>1, <2>2, GoOnKeeps
<1> QED BY <1>2, <1>3, <1>4, <1>5, <1>6, <1>7, <1>8, <1>9 DEF Answer

\* What a load has brought is kept, if its generation is still that of the session.
LEMMA KeepKeeps == ASSUME SessionInv, NEW c \in ApiCalls, Keep(c) PROVE SessionInv'
<1>t. SessionTypes /\ CallsInOrder /\ LoadsApart /\ stray \in BOOLEAN
  BY DEF SessionInv
<1>1. UNCHANGED <<cookies, server, signedIn, generation, refreshing, stray>> /\ api[c] \in CallRecords
      /\ generation \in Nat /\ generation \in 0..MaxSignIns
  BY <1>t, ApiAssumption DEF Keep, SessionTypes
<1>2. CASE api[c].at \in {"keep", "kept"} /\ FailWith(c) /\ UNCHANGED context
  <2>1. /\ api' \in [ApiCalls -> CallRecords]
        /\ \A k \in ApiCalls : api'[k] = api[k] \/ (Onward(api[k], api'[k]) /\ api'[k].at = "failed")
    BY <1>2, <1>t, FailWithFacts
  <2>2. SessionTypes'
    BY <1>1, <1>2, <1>t, <2>1 DEF SessionTypes, server
  <2> QED BY <1>1, <1>2, <2>1, <2>2, GoOnKeeps
<1>3. CASE /\ api[c].at = "keep" /\ SameSession(c) /\ Go(c, "kept")
           /\ context' = [context EXCEPT ![api[c].of] = api[c].answer]
  <2>1. api[c].kind = "context" /\ api[c].of = generation /\ api[c].answer \in Owners
    BY <1>1, <1>3, <1>t DEF CallsInOrder, SameSession, CallRecords
  <2>2. /\ api' \in [ApiCalls -> CallRecords]
        /\ \A k \in ApiCalls : api'[k] = api[k] \/ (Onward(api[k], api'[k]) /\ api'[k].at = "kept")
    BY <1>3, <1>t, <2>1, GoFacts DEF ApiPlaces
  <2>3. context' \in [0..MaxSignIns -> Owners] /\ context'[generation] = api[c].answer
        /\ \A h \in 0..MaxSignIns : h # generation => context'[h] = context[h]
    BY <1>1, <1>3, <1>t, <2>1 DEF SessionTypes
  <2>4. SessionTypes'
    BY <1>1, <1>t, <2>2, <2>3 DEF SessionTypes, server
  <2>5. CallsInOrder'
    <3>1. \A h \in 0..MaxSignIns : h > generation' => context'[h] = NoUser
      BY <1>1, <1>t, <2>3 DEF CallsInOrder
    <3>2. generation' >= generation
      BY <1>1
    <3> QED BY <1>1, <1>t, <2>2, <2>4, <3>1, <3>2, CallsKeepOrder
  <2>6. LoadsApart'
    <3> SUFFICES ASSUME stray = FALSE PROVE LoadsApart'
      BY <1>1 DEF LoadsApart
    <3>1. LiveLoad(c)
      BY <1>3, <2>1 DEF LiveLoad
    <3>2. (cookies # NoUser => api[c].answer = cookies) /\ signedIn # FALSE
      BY <1>3, <1>t, <3>1 DEF LoadsApart
    <3>3. \A k \in ApiCalls : LiveLoad(k)' => LiveLoad(k) /\ (api'[k] = api[k] \/ api'[k].at = "kept")
      BY <1>1, <2>2 DEF LiveLoad, Onward
    <3>4. Clearing' => Clearing
      BY <2>2 DEF Clearing
    <3>5. /\ cookies' # NoUser => context'[generation'] \in {NoUser, cookies'}
          /\ signedIn' # FALSE
      BY <1>1, <2>3, <3>2
    <3>6. ASSUME NEW k \in ApiCalls, LiveLoad(k)'
          PROVE  /\ cookies' # NoUser => /\ api'[k].at = "answer" => api'[k].as \in {NoUser, cookies'}
                                         /\ api'[k].at = "keep" => api'[k].answer = cookies'
                 /\ Clearing' => api'[k].at \notin {"answer", "keep"}
      BY <1>1, <1>t, <3>3, <3>4, <3>6 DEF LoadsApart
    <3> QED BY <3>5, <3>6 DEF LoadsApart
  <2> QED BY <1>1, <1>t, <2>4, <2>5, <2>6 DEF SessionInv
<1>4. CASE /\ api[c].at = "kept" /\ SameSession(c)
           /\ api' = [k \in ApiCalls |-> IF k \in Waiting(c)
                         THEN [Place(api[k], "done") EXCEPT !.got = generation] ELSE api[k]]
           /\ UNCHANGED context
  <2>1. ASSUME NEW k \in ApiCalls
        PROVE  api'[k] \in CallRecords /\ (api'[k] = api[k] \/ (Onward(api[k], api'[k]) /\ api'[k].at # "clear"))
    <3> DEFINE x == Place(api[k], "done")
               r == [x EXCEPT !.got = generation]
    <3>1. api[k] \in CallRecords
      BY <1>t DEF SessionTypes
    <3>2. x \in CallRecords /\ x.at = "done" /\ x.kind = api[k].kind /\ x.of = api[k].of
      BY <3>1, PlaceFacts DEF ApiPlaces
    <3>3. api'[k] = IF k \in Waiting(c) THEN r ELSE api[k]
      BY <1>4
    <3> HIDE DEF x
    <3>4. r \in CallRecords /\ r.at = "done" /\ r.kind = api[k].kind /\ r.of = api[k].of /\ r.got = generation
      BY <1>1, <3>2 DEF CallRecords
    <3> HIDE DEF r
    <3>5. k \in Waiting(c) => api[k].of = generation /\ api[k].at \notin {"new", "done", "failed"}
      <4>1. api[c].kind = "context" /\ api[c].of = generation /\ api[c].at = "kept"
        BY <1>4, <1>t DEF SameSession, CallsInOrder
      <4>2. k \in Waiting(c) => k = c \/ (api[k].at = "joined" /\ api[k].of = api[c].of)
        BY DEF Waiting
      <4> QED BY <4>1, <4>2
    <3> QED BY <3>1, <3>3, <3>4, <3>5 DEF Onward
  <2>2. api' \in [ApiCalls -> CallRecords]
    BY <1>4, <2>1
  <2>3. SessionTypes'
    BY <1>1, <1>4, <1>t, <2>2 DEF SessionTypes, server
  <2> QED BY <1>1, <1>4, <2>1, <2>3, GoOnKeeps
<1> QED BY <1>2, <1>3, <1>4 DEF Keep

\* The answer of a refresh brings the cookies it was sent with: when they are not those of now, it
\* is a stray.
LEMMA RefreshKeeps == ASSUME SessionInv, Refresh PROVE SessionInv'
<1>t. SessionTypes /\ CallsInOrder /\ LoadsApart /\ stray \in BOOLEAN
  BY DEF SessionInv
<1>1. UNCHANGED <<refreshable, signedIn, generation, context>> /\ generation \in Nat
  <2>1. generation \in Nat
    BY <1>t, ApiAssumption DEF SessionTypes
  <2> QED BY <2>1 DEF Refresh
<1>2. CASE UNCHANGED <<cookies, access, api, inFlight, stray>>
           /\ refreshing' \in [at : {"no", "send", "answer", "expire", "reset"}, as : Owners]
  <2>1. SessionTypes'
    BY <1>1, <1>2, <1>t DEF SessionTypes
  <2> QED BY <1>1, <1>2, <2>1, GoOnKeeps
<1>3. CASE /\ refreshing.at = "answer" /\ refreshing.as \in refreshable
           /\ cookies' = refreshing.as /\ access' = access \cup {refreshing.as}
           /\ stray' = (stray \/ cookies # refreshing.as \/ \E k \in ApiCalls : api[k].at = "clear")
           /\ api' = [c \in ApiCalls |-> IF api[c].at = "refresh"
                                         THEN [api[c] EXCEPT !.at = "send", !.retried = TRUE] ELSE api[c]]
           /\ refreshing' = NotRefreshing
  <2>1. ASSUME NEW k \in ApiCalls
        PROVE  api'[k] \in CallRecords /\ (api'[k] = api[k] \/ (Onward(api[k], api'[k]) /\ api'[k].at # "clear"))
    <3> DEFINE r == [api[k] EXCEPT !.at = "send", !.retried = TRUE]
    <3>1. api[k] \in CallRecords
      BY <1>t DEF SessionTypes
    <3>2. r \in CallRecords /\ r.at = "send" /\ r.kind = api[k].kind /\ r.of = api[k].of
      BY <3>1 DEF CallRecords, ApiPlaces
    <3>3. api'[k] = IF api[k].at = "refresh" THEN r ELSE api[k]
      BY <1>3
    <3> HIDE DEF r
    <3>4. api[k].at = "refresh" => api[k].kind # "login"
      BY <1>t DEF CallsInOrder
    <3> QED BY <3>1, <3>2, <3>3, <3>4 DEF Onward
  <2>2. api' \in [ApiCalls -> CallRecords]
    BY <1>3, <2>1
  <2>3. SessionTypes'
    BY <1>1, <1>3, <1>t, <2>2 DEF SessionTypes, NotRefreshing, Owners
  <2>4. CallsInOrder'
    <3>1. \A h \in 0..MaxSignIns : h > generation' => context'[h] = NoUser
      BY <1>1, <1>t DEF CallsInOrder
    <3>2. generation' >= generation
      BY <1>1
    <3> QED BY <1>1, <1>t, <2>1, <2>3, <3>1, <3>2, CallsKeepOrder
  <2>5. stray' \in BOOLEAN /\ (stray' = FALSE => stray = FALSE /\ cookies' = cookies)
    BY <1>3, <1>t
  <2>6. LoadsApart'
    <3>1. CASE stray' = FALSE
      BY <1>1, <1>t, <2>1, <2>5, <3>1, SameLoads
    <3>2. CASE stray' # FALSE
      BY <3>2 DEF LoadsApart
    <3> QED BY <3>1, <3>2
  <2> QED BY <2>3, <2>4, <2>5, <2>6 DEF SessionInv
<1>4. /\ [refreshing EXCEPT !.at = "send"] \in [at : {"no", "send", "answer", "expire", "reset"}, as : Owners]
      /\ [at |-> "answer", as |-> cookies] \in [at : {"no", "send", "answer", "expire", "reset"}, as : Owners]
      /\ [refreshing EXCEPT !.at = "expire"] \in [at : {"no", "send", "answer", "expire", "reset"}, as : Owners]
  BY <1>t DEF SessionTypes
<1> QED BY <1>2, <1>3, <1>4 DEF Refresh

\* A session is cleared: its cookies are gone, and so is what was loaded.
LEMMA ApiClearedKeeps ==
  ASSUME SessionInv, SessionTypes', UNCHANGED <<generation, stray>>, cookies' = NoUser,
         context' = [g \in DOMAIN context |-> NoUser],
         signedIn' = signedIn \/ (signedIn' = FALSE /\ Clearing),
         \A k \in ApiCalls : api'[k] = api[k] \/ (Onward(api[k], api'[k]) /\ api'[k].at # "clear")
  PROVE  SessionInv'
<1>t. SessionTypes /\ CallsInOrder /\ LoadsApart /\ stray \in BOOLEAN
  BY DEF SessionInv
<1>1. generation \in 0..MaxSignIns /\ generation \in Nat /\ \A h \in 0..MaxSignIns : context'[h] = NoUser
  BY <1>t, ApiAssumption DEF SessionTypes
<1>2. CallsInOrder'
  <2>1. generation' >= generation
    BY <1>1
  <2> QED BY <1>1, <1>t, <2>1, CallsKeepOrder
<1>3. LoadsApart'
  <2> SUFFICES ASSUME stray = FALSE PROVE LoadsApart'
    BY DEF LoadsApart
  <2>1. \A k \in ApiCalls : LiveLoad(k)' => LiveLoad(k) /\ (api'[k] = api[k] \/ api'[k].at \notin {"answer", "keep"})
    BY DEF LiveLoad, Onward
  <2>2. Clearing' => Clearing
    BY DEF Clearing
  <2>3. ASSUME NEW k \in ApiCalls, LiveLoad(k)'
        PROVE  /\ signedIn' = FALSE => /\ api'[k].at # "keep"
                                       /\ api'[k].at = "answer" => api'[k].as = NoUser
               /\ Clearing' => api'[k].at \notin {"answer", "keep"}
    <3>1. CASE Clearing
      BY <1>t, <2>1, <2>3, <3>1 DEF LoadsApart
    <3>2. CASE ~Clearing
      BY <1>t, <2>1, <2>2, <2>3, <3>2 DEF LoadsApart
    <3> QED BY <3>1, <3>2
  <2> QED BY <1>1, <2>3 DEF LoadsApart
<1> QED BY <1>2, <1>3, <1>t DEF SessionInv

\* The session expires: the cookies and the accounts are cleared.
LEMMA ExpireKeeps == ASSUME SessionInv, ExpireSession PROVE SessionInv'
<1>t. SessionTypes /\ CallsInOrder
  BY DEF SessionInv
<1>1. cookies' = NoUser /\ context' = [g \in DOMAIN context |-> NoUser]
      /\ UNCHANGED <<server, signedIn, generation, inFlight, stray>>
  BY DEF ExpireSession
<1>2. context' \in [0..MaxSignIns -> Owners] /\ cookies' \in Owners
  BY <1>1, <1>t DEF SessionTypes, Owners
<1>3. CASE refreshing' = [refreshing EXCEPT !.at = "reset"] /\ UNCHANGED api
  <2>1. SessionTypes'
    BY <1>1, <1>2, <1>3, <1>t DEF SessionTypes, server
  <2> QED BY <1>1, <1>3, <2>1, ApiClearedKeeps DEF ExpireSession
<1>4. ASSUME NEW c \in ApiCalls, api[c].at = "expire", Go(c, "reset"), UNCHANGED refreshing PROVE SessionInv'
  <2>1. api[c].kind # "login"
    BY <1>4, <1>t DEF CallsInOrder
  <2>2. /\ api' \in [ApiCalls -> CallRecords]
        /\ \A k \in ApiCalls : api'[k] = api[k] \/ (Onward(api[k], api'[k]) /\ api'[k].at = "reset")
    BY <1>4, <1>t, <2>1, GoFacts DEF ApiPlaces
  <2>3. SessionTypes'
    BY <1>1, <1>2, <1>4, <1>t, <2>2 DEF SessionTypes, server
  <2> QED BY <1>1, <2>2, <2>3, ApiClearedKeeps
<1> QED BY <1>3, <1>4 DEF ExpireSession

\* A sign-out that has been answered clears the session.
LEMMA ClearSessionKeeps == ASSUME SessionInv, NEW c \in ApiCalls, ClearSession(c) PROVE SessionInv'
<1>t. SessionTypes /\ CallsInOrder
  BY DEF SessionInv
<1>1. api[c].at = "clear" /\ Go(c, "done") /\ cookies' = NoUser /\ context' = [g \in DOMAIN context |-> NoUser]
      /\ signedIn' = FALSE /\ UNCHANGED <<server, generation, inFlight, refreshing, stray>> /\ Clearing
  BY DEF ClearSession, Clearing
<1>2. context' \in [0..MaxSignIns -> Owners] /\ cookies' \in Owners
  BY <1>1, <1>t DEF SessionTypes, Owners
<1>3. api[c].kind = "logout"
  BY <1>1, <1>t DEF CallsInOrder
<1>4. /\ api' \in [ApiCalls -> CallRecords]
      /\ \A k \in ApiCalls : api'[k] = api[k] \/ (Onward(api[k], api'[k]) /\ api'[k].at = "done")
  BY <1>1, <1>3, <1>t, GoFacts DEF ApiPlaces
<1>5. SessionTypes'
  BY <1>1, <1>2, <1>4, <1>t DEF SessionTypes, server
<1> QED BY <1>1, <1>4, <1>5, ApiClearedKeeps

\* The main process hears that the session has expired.
LEMMA ExpiredKeeps == ASSUME SessionInv, OnSessionExpired PROVE SessionInv'
<1>t. SessionTypes /\ CallsInOrder
  BY DEF SessionInv
<1>1. ResetSession /\ signedIn' = FALSE /\ UNCHANGED <<cookies, server, context, stray>>
  BY DEF OnSessionExpired
<1>2. PICK over \in SUBSET ApiCalls :
        /\ \/ /\ refreshing.at = "reset" /\ refreshing' = NotRefreshing
              /\ over = {c \in ApiCalls : api[c].at = "refresh"}
           \/ /\ \E c \in ApiCalls : api[c].at = "reset" /\ over = {c}
              /\ UNCHANGED refreshing
        /\ api' = [k \in ApiCalls |-> IF \E c \in over : k \in Waiting(c)
                                      THEN Place(api[k], "failed") ELSE api[k]]
  BY DEF OnSessionExpired
<1>3. \A c \in over : api[c].at \notin {"new", "done", "failed"}
  BY <1>2
<1>4. /\ api' \in [ApiCalls -> CallRecords]
      /\ \A k \in ApiCalls : api'[k] = api[k] \/ (Onward(api[k], api'[k]) /\ api'[k].at = "failed")
  BY <1>2, <1>3, <1>t, FailFacts
<1>5. generation' \in 0..MaxSignIns
  BY <1>1, <1>t, ApiAssumption DEF ResetSession, SessionTypes
<1>6. refreshing' \in [at : {"no", "send", "answer", "expire", "reset"}, as : Owners]
  BY <1>2, <1>t DEF SessionTypes, NotRefreshing, Owners
<1>7. SessionTypes'
  BY <1>1, <1>4, <1>5, <1>6, <1>t DEF SessionTypes, server
<1> QED BY <1>1, <1>4, <1>7, ResetKeeps

\* Each step of the session keeps it.
LEMMA ApiNextKeeps == SessionInv /\ [ApiNext]_apiVars => SessionInv'
<1> SUFFICES ASSUME SessionInv, [ApiNext]_apiVars PROVE SessionInv'
  OBVIOUS
<1>1. CASE UNCHANGED apiVars
  <2>1. SessionTypes'
    BY <1>1 DEF SessionInv, SessionTypes, apiVars
  <2> QED BY <1>1, <2>1, GoOnKeeps DEF apiVars
<1>2. CASE AccessExpires
  <2>1. access' \subseteq Users /\ refreshable' \subseteq Users
    BY <1>2 DEF AccessExpires, SessionInv, SessionTypes
  <2>2. SessionTypes'
    BY <1>2, <2>1 DEF AccessExpires, SessionInv, SessionTypes
  <2> QED BY <1>2, <2>2, GoOnKeeps DEF AccessExpires
<1> QED BY <1>1, <1>2, AskKeeps, ReadContextKeeps, StopAgentsKeeps, SendKeeps, ApiAnswerKeeps, KeepKeeps,
           ClearSessionKeeps, RefreshKeeps, ExpireKeeps, ExpiredKeeps DEF ApiNext, ApiStep

\* The specification keeps it.
LEMMA SessionsAreKept == ApiSpec => []SessionInv
<1>1. ASSUME ApiInit PROVE SessionInv
  <2>1. (CHOOSE u \in Users : TRUE) \in Users
    BY ApiAssumption
  <2>2. cookies \in Owners /\ access \subseteq Users /\ refreshable \subseteq Users /\ signedIn \in BOOLEAN
    BY <1>1, <2>1 DEF ApiInit, Owners
  <2>3. [kind |-> "context", at |-> "new", as |-> NoUser, answer |-> NoUser, of |-> 0, got |-> 0, retried |-> FALSE]
          \in CallRecords
    BY DEF CallRecords, ApiPlaces, Owners
  <2>4. generation \in 0..MaxSignIns /\ generation = 0 /\ stray = FALSE
        /\ context = [g \in 0..MaxSignIns |-> NoUser] /\ refreshing = NotRefreshing
        /\ api = [c \in ApiCalls |-> [kind |-> "context", at |-> "new", as |-> NoUser, answer |-> NoUser,
                                      of |-> 0, got |-> 0, retried |-> FALSE]]
    BY <1>1, ApiAssumption DEF ApiInit
  <2>5. api \in [ApiCalls -> CallRecords]
        /\ \A c \in ApiCalls : api[c].kind = "context" /\ api[c].at = "new" /\ api[c].of = 0
    BY <2>3, <2>4
  <2>6. context \in [0..MaxSignIns -> Owners] /\ \A h \in 0..MaxSignIns : context[h] = NoUser
    BY <2>4 DEF Owners
  <2>7. refreshing \in [at : {"no", "send", "answer", "expire", "reset"}, as : Owners]
    BY <2>4 DEF NotRefreshing, Owners
  <2>8. SessionTypes
    BY <2>2, <2>4, <2>5, <2>6, <2>7 DEF SessionTypes
  <2>9. CallsInOrder
    BY <2>4, <2>5, <2>6 DEF CallsInOrder, Underway
  <2>10. LoadsApart
    BY <2>4, <2>5, <2>6 DEF LoadsApart, LiveLoad
  <2> QED BY <2>4, <2>8, <2>9, <2>10 DEF SessionInv
<1> QED BY <1>1, ApiNextKeeps, PTL DEF ApiSpec

\* What a call gets was loaded in its own session, and is of the account of the cookies unless a
\* request or a refresh crossed a sign-out (SessionsApart).
THEOREM SessionsStayApart == ApiSpec => []SessionsApart
<1>1. SessionInv => SessionsApart
  BY DEF SessionInv, CallsInOrder, LoadsApart, SessionsApart
<1> QED BY <1>1, SessionsAreKept, PTL

\* The load under way is a call's, and what a call got is of a generation.
ApiBounds ==
  /\ inFlight \in ApiCalls \cup {NoCall}
  /\ \A c \in ApiCalls : api[c].got \in 0..MaxSignIns

\* Nothing but the end of a load sets what a call got.
LEMMA PlaceKeepsGot ==
  ASSUME NEW x \in CallRecords, NEW p
  PROVE  Place(x, p).got = x.got /\ [Place(x, p) EXCEPT !.got = generation].got = generation
BY DEF CallRecords, Place

GotKept == \A c \in ApiCalls : api'[c].got \in {api[c].got, generation}

LEMMA GoKeepsGot ==
  ASSUME api \in [ApiCalls -> CallRecords], NEW c \in ApiCalls, NEW p, Go(c, p)
  PROVE  GotKept
BY PlaceKeepsGot DEF Go, GotKept

LEMMA FailKeepsGot ==
  ASSUME api \in [ApiCalls -> CallRecords], NEW c \in ApiCalls, FailWith(c)
  PROVE  GotKept /\ inFlight' \in {inFlight, NoCall}
BY PlaceKeepsGot DEF FailWith, GotKept

\* Each step of the session keeps the bounds.
LEMMA ApiNextStaysWithin == SessionInv /\ ApiBounds /\ [ApiNext]_apiVars => ApiBounds'
<1> SUFFICES ASSUME SessionInv, ApiBounds, [ApiNext]_apiVars PROVE ApiBounds'
  OBVIOUS
<1>t. api \in [ApiCalls -> CallRecords] /\ generation \in 0..MaxSignIns
  BY DEF SessionInv, SessionTypes
<1>k. ASSUME GotKept, inFlight' \in ApiCalls \cup {NoCall, inFlight} PROVE ApiBounds'
  BY <1>k, <1>t DEF ApiBounds, GotKept
<1>r. ResetSession => inFlight' = NoCall
  BY DEF ResetSession
<1>1. CASE UNCHANGED apiVars \/ AccessExpires
  BY <1>1 DEF ApiBounds, apiVars, AccessExpires
<1>2. ASSUME NEW c \in ApiCalls, Ask(c) PROVE ApiBounds'
  <2>1. LoadContext(c) \/ Logout(c) \/ RestoreSession(c) \/ \E u \in Users : Login(c, u)
    BY <1>2 DEF Ask
  <2>2. GotKept
    <3>1. CASE LoadContext(c)
      BY <3>1, <1>t DEF LoadContext, GotKept, CallRecords
    <3>2. CASE Logout(c)
      BY <3>2, <1>t DEF Logout, GotKept, CallRecords
    <3>3. CASE RestoreSession(c)
      <4> DEFINE p == IF cookies = NoUser THEN "failed" ELSE "send"
      <4>1. api' = [api EXCEPT ![c] = [api[c] EXCEPT !.kind = "restore", !.at = p]]
        BY <3>3 DEF RestoreSession
      <4> HIDE DEF p
      <4> QED BY <4>1, <1>t DEF GotKept, CallRecords
    <3>4. CASE \E u \in Users : Login(c, u)
      BY <3>4, <1>t DEF Login, GotKept, CallRecords
    <3> QED BY <2>1, <3>1, <3>2, <3>3, <3>4
  <2>3. inFlight' \in {inFlight, NoCall}
    BY <2>1, <1>r DEF LoadContext, Logout, RestoreSession, Login
  <2> QED BY <2>2, <2>3, <1>k
<1>3. ASSUME NEW c \in ApiCalls, ReadContext(c) PROVE ApiBounds'
  <2>1. \/ \E p \in {"failed", "joined", "send"} : Go(c, p)
        \/ api' = [api EXCEPT ![c] = [Place(api[c], "done") EXCEPT !.got = generation]]
    BY <1>3 DEF ReadContext
  <2>2. inFlight' \in {inFlight, c}
    BY <1>3 DEF ReadContext
  <2>3. GotKept
    <3>1. CASE \E p \in {"failed", "joined", "send"} : Go(c, p)
      BY <3>1, <1>t, GoKeepsGot
    <3> DEFINE x == [Place(api[c], "done") EXCEPT !.got = generation]
    <3>2. x.got = generation
      BY <1>t, PlaceKeepsGot
    <3> HIDE DEF x
    <3>3. CASE api' = [api EXCEPT ![c] = x]
      BY <3>2, <3>3, <1>t DEF GotKept
    <3> QED BY <2>1, <3>1, <3>3 DEF x
  <2> QED BY <2>2, <2>3, <1>k
<1>4. ASSUME NEW c \in ApiCalls, StopAgents(c) PROVE ApiBounds'
  <2>1. (\E p \in {"send", "clear"} : Go(c, p)) /\ inFlight' \in {inFlight, NoCall}
    BY <1>4, <1>r DEF StopAgents
  <2> QED BY <2>1, <1>t, <1>k, GoKeepsGot
<1>5. ASSUME NEW c \in ApiCalls, Send(c) PROVE ApiBounds'
  <2>1. GotKept /\ UNCHANGED inFlight
    BY <1>5, <1>t DEF Send, GotKept, CallRecords
  <2> QED BY <2>1, <1>k
<1>6. ASSUME NEW c \in ApiCalls, Answer(c) PROVE ApiBounds'
  <2>1. CASE FailWith(c)
    BY <2>1, <1>t, <1>k, FailKeepsGot
  <2>2. CASE ~FailWith(c)
    <3>1. \/ \E p \in {"expire", "refresh", "done", "clear"} : Go(c, p)
          \/ api' = [api EXCEPT ![c].at = "keep", ![c].answer = api[c].as]
      BY <1>6, <2>2 DEF Answer
    <3>2. inFlight' \in {inFlight, NoCall}
      BY <1>6, <2>2, <1>r DEF Answer
    <3>3. GotKept
      <4>1. CASE api' = [api EXCEPT ![c].at = "keep", ![c].answer = api[c].as]
        BY <4>1, <1>t DEF GotKept, CallRecords
      <4> QED BY <3>1, <4>1, <1>t, GoKeepsGot
    <3> QED BY <3>2, <3>3, <1>k
  <2> QED BY <2>1, <2>2
<1>7. ASSUME NEW c \in ApiCalls, Keep(c) PROVE ApiBounds'
  <2>1. CASE FailWith(c)
    BY <2>1, <1>t, <1>k, FailKeepsGot
  <2>2. CASE Go(c, "kept") /\ UNCHANGED inFlight
    BY <2>2, <1>t, <1>k, GoKeepsGot
  <2>3. CASE /\ api' = [k \in ApiCalls |-> IF k \in Waiting(c)
                          THEN [Place(api[k], "done") EXCEPT !.got = generation] ELSE api[k]]
             /\ inFlight' = IF inFlight = c THEN NoCall ELSE inFlight
    <3>1. GotKept
      BY <2>3, <1>t, PlaceKeepsGot DEF GotKept
    <3> QED BY <2>3, <3>1, <1>k
  <2> QED BY <1>7, <2>1, <2>2, <2>3 DEF Keep
<1>8. CASE Refresh
  <2>1. /\ UNCHANGED inFlight
        /\ \/ UNCHANGED api
           \/ api' = [c \in ApiCalls |-> IF api[c].at = "refresh"
                                         THEN [api[c] EXCEPT !.at = "send", !.retried = TRUE] ELSE api[c]]
    BY <1>8 DEF Refresh
  <2>2. GotKept
    <3>1. \A c \in ApiCalls : [api[c] EXCEPT !.at = "send", !.retried = TRUE].got = api[c].got
      BY <1>t DEF CallRecords
    <3> QED BY <2>1, <3>1 DEF GotKept
  <2> QED BY <2>1, <2>2, <1>k
<1>9. ASSUME NEW c \in ApiCalls, ClearSession(c) PROVE ApiBounds'
  BY <1>9, <1>t, <1>k, GoKeepsGot DEF ClearSession
<1>10. CASE ExpireSession
  <2>1. UNCHANGED inFlight /\ (UNCHANGED api \/ \E c \in ApiCalls : Go(c, "reset"))
    BY <1>10 DEF ExpireSession
  <2>2. GotKept
    <3>1. CASE UNCHANGED api
      BY <3>1 DEF GotKept
    <3>2. CASE \E c \in ApiCalls : Go(c, "reset")
      BY <3>2, <1>t, GoKeepsGot
    <3> QED BY <2>1, <3>1, <3>2
  <2> QED BY <2>1, <2>2, <1>k
<1>11. CASE OnSessionExpired
  <2>1. PICK over \in SUBSET ApiCalls :
          api' = [k \in ApiCalls |-> IF \E c \in over : k \in Waiting(c) THEN Place(api[k], "failed") ELSE api[k]]
    BY <1>11 DEF OnSessionExpired
  <2>2. GotKept
    BY <2>1, <1>t, PlaceKeepsGot DEF GotKept
  <2>3. inFlight' = NoCall
    BY <1>11, <1>r DEF OnSessionExpired
  <2> QED BY <2>2, <2>3, <1>k
<1> QED BY <1>1, <1>2, <1>3, <1>4, <1>5, <1>6, <1>7, <1>8, <1>9, <1>10, <1>11 DEF ApiNext, ApiStep

\* The session, its contexts and the calls keep their types (ApiTypeOK).
THEOREM ApiTypeCorrect == ApiSpec => []ApiTypeOK
<1>1. ApiInit => ApiBounds
  BY ApiAssumption DEF ApiInit, ApiBounds
<1>2. SessionInv /\ ApiBounds => ApiTypeOK
  <2> SUFFICES ASSUME SessionInv, ApiBounds PROVE ApiTypeOK
    OBVIOUS
  <2>1. ASSUME NEW c \in ApiCalls
        PROVE  /\ api[c].kind \in {"context", "login", "logout", "restore"} /\ api[c].at \in ApiPlaces
               /\ {api[c].as, api[c].answer} \subseteq Owners
               /\ {api[c].of, api[c].got} \subseteq 0..MaxSignIns /\ api[c].retried \in BOOLEAN
    <3>1. api[c] \in CallRecords /\ api[c].of <= generation /\ generation \in 0..MaxSignIns
          /\ api[c].got \in 0..MaxSignIns
      BY DEF SessionInv, SessionTypes, CallsInOrder, ApiBounds
    <3>2. api[c].of \in Nat
      BY <3>1 DEF CallRecords
    <3>3. api[c].of \in 0..MaxSignIns
      BY <3>1, <3>2, ApiAssumption DEF ApiAssumption
    <3> QED BY <3>1, <3>3 DEF CallRecords
  <2> QED BY <2>1 DEF ApiTypeOK, SessionInv, SessionTypes, ApiBounds
<1> QED BY <1>1, <1>2, SessionsAreKept, ApiNextStaysWithin, PTL DEF ApiSpec

=============================================================================
