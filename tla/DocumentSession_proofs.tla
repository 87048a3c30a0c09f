----------------------- MODULE DocumentSession_proofs -----------------------
(***************************************************************************)
(* No document ever holds the text of another one.  The invariant follows  *)
(* a text from the editor through the draft, a save or a fetched record to *)
(* storage: each of them carries, next to the text, the id it belongs to.  *)
(***************************************************************************)
EXTENDS DocumentSession, TLAPS

\* T: the texts each document has had.
Histories == [Ids -> SUBSET Texts]
Own(T, i, text) == text \in T[i] \cup {Guide}
OwnStore(T, d) == d \in Store /\ \A i \in Ids : d[i] # NoRec => Own(T, i, d[i].content)
Grows(T, U) == T \in Histories /\ U \in Histories /\ \A i \in Ids : T[i] \subseteq U[i]

\* What an operation carries is of the document it is about.
CallOk(T, call) ==
    /\ call \in Call
    /\ call.step \in {"query", "write"} => call.id \in Ids /\ Own(T, call.id, call.text)
    /\ call.step \in {"lists", "reopen", "unique", "replace"} =>
          call.id \in Ids /\ call.found # NoRec /\ Own(T, call.id, call.found.content)
    /\ call.step = "readopt" => OwnStore(T, call.listed)
    /\ call.step \in {"open", "erase", "fetch"} => call.id \in Ids
    /\ call.step \in {"survivors", "welcome", "name", "make"} => call.text \in Texts
    /\ call.step = "fetch" => call.then \in {"unique", "replace"}
    /\ call.step \in {"query", "write", "erase"} =>
          /\ call.then \in {"done", "open", "name", "network", "survivors", "refresh"}
          /\ call.then = "open" => call.goal \in Ids
CallsOk(T, C) == C \in [Slots -> Call \cup {None}]
                 /\ \A s \in Slots : C[s] # None => CallOk(T, C[s])

RestInv == manner \in Manners /\ acts \in 0 .. MaxActs[manner]
HistoryInv == latest \in [Ids -> Shown \cup {None}] /\ texts \in Histories
StoreInv == OwnStore(texts, docs) /\ HistoryInv
PageInv ==
    /\ currentId \in Ids \cup {None} /\ docTitle \in Titles \cup {None}
    /\ draft \in Shown \cup {None} /\ editor \in Shown \cup {None}
    /\ timer \in BOOLEAN /\ builtIn \in BOOLEAN
    /\ timer => currentId # None
    /\ builtIn => editor \in {None, Guide}
    /\ currentId # None => /\ docTitle # None /\ draft # None /\ Own(texts, currentId, draft)
                           /\ editor # None => Own(texts, currentId, editor)
OInv == RestInv /\ StoreInv /\ PageInv /\ CallsOk(texts, calls)

LEMMA InvImplies == OInv => TypeOK /\ OwnText
BY DEF OInv, RestInv, StoreInv, HistoryInv, PageInv, CallsOk, TypeOK, OwnText, OwnStore, Own,
       Histories, Stored

\* What belonged to a document still does when it has had more texts.
LEMMA CallKept ==
    ASSUME NEW T, NEW U, Grows(T, U), NEW call, CallOk(T, call)
    PROVE  CallOk(U, call)
BY DEF CallOk, Grows, Own, OwnStore, Histories

LEMMA SlotSet ==
    ASSUME NEW T, NEW U, Grows(T, U), NEW C, CallsOk(T, C), NEW s \in Slots,
           NEW call, call = None \/ CallOk(U, call)
    PROVE  CallsOk(U, [C EXCEPT ![s] = call])
<1>1. call \in Call \cup {None}
  BY DEF CallOk
<1>2. ASSUME NEW r \in Slots, [C EXCEPT ![s] = call][r] # None
      PROVE  CallOk(U, [C EXCEPT ![s] = call][r])
  <2>1. CASE r = s
    BY <2>1, <1>2 DEF CallsOk
  <2>2. CASE r # s
    BY <2>2, <1>2, CallKept DEF CallsOk
  <2> QED BY <2>1, <2>2
<1> QED BY <1>1, <1>2 DEF CallsOk

LEMMA Same == ASSUME HistoryInv, UNCHANGED texts PROVE Grows(texts, texts')
BY DEF HistoryInv, Grows

LEMMA AllKept ==
    ASSUME Grows(texts, texts'), CallsOk(texts, calls), UNCHANGED calls
    PROVE  CallsOk(texts, calls)'
BY CallKept DEF CallsOk

LEMMA PageKept == ASSUME Grows(texts, texts'), PageInv, UNCHANGED page PROVE PageInv'
BY DEF PageInv, page, Grows, Own, Histories

LEMMA NewCallTyped ==
    ASSUME NEW step \in Steps, NEW i \in Ids \cup {None}
    PROVE  /\ NewCall(step, i) \in Call
           /\ NewCall(step, i).step = step /\ NewCall(step, i).id = i
           /\ NewCall(step, i).then = "done" /\ NewCall(step, i).text = Blank
BY TextsDiffer, SessionBounds DEF NewCall, Call, Titles, Shown

\* The steps that carry nothing but an id.
LEMMA NewCallOk ==
    ASSUME NEW T, NEW step \in {"open", "name", "network", "survivors", "refresh", "relist"},
           NEW i \in Ids \cup {None}, step = "open" => i \in Ids
    PROVE  CallOk(T, NewCall(step, i))
<1>1. step \in Steps
  BY DEF Steps
<1>2. Blank \in Texts
  BY TextsDiffer
<1> QED BY <1>1, <1>2, NewCallTyped DEF CallOk

LEMMA InitInv == Init => OInv
<1> SUFFICES ASSUME Init PROVE OInv
  OBVIOUS
<1>1. RestInv /\ PageInv
  <2>1. RestInv
    BY SessionBounds DEF Init, RestInv
  <2>2. PageInv
    BY DEF Init, PageInv
  <2> QED BY <2>1, <2>2
<1>2. OwnStore(texts, docs) /\ HistoryInv
  <2>1. docs \in [Ids -> [title : Titles, content : Texts] \cup {NoRec}]
    BY DEF Init
  <2>2. docs \in Store
    BY <2>1 DEF Store, Rec, Shown
  <2>3. ASSUME NEW i \in Ids, docs[i] # NoRec PROVE docs[i].content \in Texts
    BY <2>1, <2>3
  <2> QED BY <2>1, <2>2, <2>3 DEF Init, OwnStore, Own, HistoryInv, Histories, NoRec, Shown
<1>3. CallsOk(texts, calls)
  <2>1. PICK s \in Slots : calls = [r \in Slots |->
          IF r = s THEN [NewCall("survivors", None) EXCEPT !.text = Sample] ELSE None]
    BY DEF Init
  <2> DEFINE call == [NewCall("survivors", None) EXCEPT !.text = Sample]
  <2>2. call \in Call /\ call.step = "survivors" /\ call.text \in Texts
    BY TextsDiffer, SessionBounds DEF NewCall, Call, Titles, Shown, Steps
  <2>3. CallOk(texts, call)
    BY <2>2 DEF CallOk
  <2> QED BY <2>1, <2>2, <2>3 DEF CallsOk
<1> QED BY <1>1, <1>2, <1>3 DEF OInv, StoreInv
-----------------------------------------------------------------------------
(* The page *)

LEMMA PageSteps ==
    ASSUME OInv, mountEditor \/ applySetting \/ openBuiltin \/ closeBuiltin
                 \/ \E t \in Texts : Type(t)
    PROVE  OInv'
<1> USE DEF OInv
<1>1. ASSUME UserMay PROVE RestInv'
  BY <1>1, SessionBounds DEF UserMay, RestInv
<1>2. CASE mountEditor
  <2>1. UNCHANGED <<manner, acts, calls, docs, latest, texts>>
    BY <1>2 DEF mountEditor, store
  <2>2. PageInv'
    BY <1>2, TextsDiffer DEF mountEditor, PageInv, Draft, Shown, store, Own
  <2> QED BY <2>1, <2>2, Same, AllKept DEF RestInv, StoreInv, HistoryInv
<1>3. CASE applySetting
  <2>1. UNCHANGED <<calls, docs, latest, texts>>
    BY <1>3 DEF applySetting, OnPage
  <2>2. PageInv'
    BY <1>3, <2>1, TextsDiffer DEF applySetting, requestEditor, PageInv, Shown, Own
  <2> QED BY <1>1, <1>3, <2>1, <2>2, Same, AllKept DEF applySetting, OnPage, StoreInv, HistoryInv
<1>4. CASE openBuiltin
  <2>1. UNCHANGED <<calls, docs, latest, texts>>
    BY <1>4 DEF openBuiltin, OnPage
  <2>2. PageInv'
    BY <1>4, <2>1, TextsDiffer DEF openBuiltin, PageInv, Shown, Own
  <2> QED BY <1>1, <1>4, <2>1, <2>2, Same, AllKept DEF openBuiltin, OnPage, StoreInv, HistoryInv
<1>5. CASE closeBuiltin
  <2>1. UNCHANGED <<calls, docs, latest, texts>>
    BY <1>5 DEF closeBuiltin, OnPage
  <2>2. PageInv'
    BY <1>5, <2>1, TextsDiffer DEF closeBuiltin, PageInv, Shown, Own, Draft, scheduleSave
  <2> QED BY <1>1, <1>5, <2>1, <2>2, Same, AllKept DEF closeBuiltin, OnPage, StoreInv, HistoryInv
<1>6. ASSUME NEW t \in Texts, Type(t) PROVE OInv'
  <2>1. UNCHANGED <<calls, docs>>
    BY <1>6 DEF Type, OnPage
  <2>2. HistoryInv' /\ Grows(texts, texts')
    BY <1>6 DEF Type, StoreInv, HistoryInv, Histories, Shown, Grows, PageInv
  <2>3. PageInv'
    BY <1>6, TextsDiffer DEF Type, PageInv, Shown, Own, scheduleSave, StoreInv, HistoryInv,
                             Histories
  <2>4. StoreInv'
    BY <2>1, <2>2 DEF StoreInv, OwnStore, Own, Grows, Histories
  <2> QED BY <1>1, <1>6, <2>1, <2>2, <2>3, <2>4, AllKept DEF Type, OnPage
<1> QED BY <1>2, <1>3, <1>4, <1>5, <1>6
-----------------------------------------------------------------------------
(* What the user and the timer start *)

LEMMA SavesOwn ==
    ASSUME OInv, timer, NEW step \in {"done", "open", "name", "network"},
           NEW i \in Ids \cup {None}, step = "open" => i \in Ids
    PROVE  CallOk(texts, saveNow(step, i))
<1> DEFINE call == saveNow(step, i)
<1>1. currentId \in Ids /\ docTitle \in Titles /\ Content \in Shown
      /\ Own(texts, currentId, Content)
  BY TextsDiffer DEF OInv, PageInv, Content, Shown, Own
<1>2. /\ call \in Call /\ call.step = "query" /\ call.id = currentId /\ call.text = Content
      /\ call.then = step /\ call.goal = i
  BY <1>1, TextsDiffer, SessionBounds DEF saveNow, NewCall, Call, Steps, Titles, Shown
<1> QED BY <1>1, <1>2 DEF CallOk

LEMMA FlushOk ==
    ASSUME OInv, NEW s \in Slots, NEW step \in {"open", "name", "network"},
           NEW i \in Ids \cup {None}, step = "open" => i \in Ids, flushSave(s, step, i)
    PROVE  CallsOk(texts, calls') /\ timer' = FALSE
<1>1. CASE timer
  BY <1>1, SavesOwn, SlotSet DEF flushSave, Start, OInv, StoreInv, HistoryInv, Grows
<1>2. CASE ~timer
  BY <1>2, NewCallOk, SlotSet DEF flushSave, Start, OInv, StoreInv, HistoryInv, Grows
<1> QED BY <1>1, <1>2

LEMMA StartSteps == ASSUME OInv, NEW s \in Slots, Starts(s) PROVE OInv'
<1>1. /\ StoreInv' /\ RestInv'
      /\ UNCHANGED <<docs, latest, texts, currentId, docTitle, draft, editor, builtIn>>
  <2>1. OnStore \/ FireTimer(s)
    BY DEF Starts, createDocument, runNow, switchDocument, confirmDelete, Rewrite, renameDocument
  <2>2. UNCHANGED <<docs, latest, texts, currentId, docTitle, draft, editor, builtIn>>
    BY <2>1 DEF OnStore, FireTimer, store
  <2>3. RestInv'
    BY <2>1, SessionBounds DEF OnStore, UserMay, FireTimer, RestInv, OInv
  <2> QED BY <2>2, <2>3 DEF OInv, StoreInv, HistoryInv
<1>2. CallsOk(texts, calls') /\ timer' \in BOOLEAN /\ (timer' => timer)
  <2>1. CASE FireTimer(s)
    BY <2>1, SavesOwn, SlotSet DEF FireTimer, Start, OInv, StoreInv, HistoryInv, Grows
  <2>2. CASE createDocument(s)
    BY <2>2, FlushOk DEF createDocument
  <2>3. CASE runNow(s)
    BY <2>3, FlushOk DEF runNow
  <2>4. ASSUME NEW i \in Ids, switchDocument(s, i)
        PROVE  CallsOk(texts, calls') /\ timer' = FALSE
    BY <2>4, FlushOk DEF switchDocument
  <2>5. ASSUME NEW i \in Ids, confirmDelete(s, i)
        PROVE  CallsOk(texts, calls') /\ timer' \in BOOLEAN /\ (timer' => timer)
    <3> DEFINE call == [NewCall("erase", i) EXCEPT
                           !.then = IF i = currentId THEN "survivors" ELSE "refresh"]
    <3>1. /\ call \in Call /\ call.step = "erase" /\ call.id = i
          /\ call.then \in {"survivors", "refresh"}
      BY TextsDiffer, SessionBounds DEF NewCall, Call, Steps, Titles, Shown
    <3>2. CallOk(texts, call)
      BY <3>1 DEF CallOk
    <3> QED BY <2>5, <3>2, SlotSet
            DEF confirmDelete, Start, OInv, StoreInv, HistoryInv, Grows, PageInv
  <2>6. ASSUME NEW i \in Ids, Rewrite(s, i)
        PROVE  CallsOk(texts, calls') /\ timer' = timer
    <3> DEFINE call == [NewCall("fetch", i) EXCEPT !.then = "replace"]
    <3>1. call \in Call /\ call.step = "fetch" /\ call.id = i /\ call.then = "replace"
      BY TextsDiffer, SessionBounds DEF NewCall, Call, Steps, Titles, Shown
    <3>2. CallOk(texts, call)
      BY <3>1 DEF CallOk
    <3> QED BY <2>6, <3>2, SlotSet DEF Rewrite, Start, OInv, StoreInv, HistoryInv, Grows
  <2>7. ASSUME NEW i \in Ids, NEW title \in Titles, renameDocument(s, i, title)
        PROVE  CallsOk(texts, calls') /\ timer' = timer
    <3> DEFINE call == [NewCall("fetch", i) EXCEPT !.then = "unique", !.title = title]
    <3>1. call \in Call /\ call.step = "fetch" /\ call.id = i /\ call.then = "unique"
      BY TextsDiffer, SessionBounds DEF NewCall, Call, Steps, Titles, Shown
    <3>2. CallOk(texts, call)
      BY <3>1 DEF CallOk
    <3> QED BY <2>7, <3>2, SlotSet DEF renameDocument, Start, OInv, StoreInv, HistoryInv, Grows
  <2>8. timer \in BOOLEAN
    BY DEF OInv, PageInv
  <2> QED BY <2>1, <2>2, <2>3, <2>4, <2>5, <2>6, <2>7, <2>8, FlushOk
          DEF Starts, FireTimer, createDocument, runNow
<1>3. PageInv'
  BY <1>1, <1>2 DEF OInv, PageInv, Own
<1> QED BY <1>1, <1>2, <1>3 DEF OInv
-----------------------------------------------------------------------------
(* Storage answers *)

\* Where an operation goes on without writing anything.
LEMMA Goes ==
    ASSUME OInv, NEW s \in Slots, NEW call, call = None \/ CallOk(texts, call),
           Goto(s, call), Stays
    PROVE  RestInv' /\ StoreInv' /\ CallsOk(texts, calls)' /\ Grows(texts, texts')
<1>1. UNCHANGED <<manner, acts, docs, latest, texts>>
  BY DEF Stays, Served, store
<1>2. Grows(texts, texts')
  BY <1>1, Same DEF OInv, StoreInv
<1>3. CallsOk(texts, calls')
  BY <1>1, <1>2, SlotSet DEF Goto, OInv
<1> QED BY <1>1, <1>2, <1>3 DEF OInv, RestInv, StoreInv, HistoryInv

LEMMA GoesOn ==
    ASSUME OInv, NEW s \in Slots, NEW call, call = None \/ CallOk(texts, call),
           Goto(s, call), Stays, UNCHANGED page
    PROVE  OInv'
BY Goes, PageKept DEF OInv

LEMMA Opens ==
    ASSUME PageInv, NEW i \in Ids, NEW record \in Rec, applyResult(i, record),
           Own(texts', i, record.content)
    PROVE  PageInv'
BY TextsDiffer DEF PageInv, applyResult, Rec, Shown, Titles

LEMMA CallAt ==
    ASSUME OInv, NEW s \in Slots, NEW step \in Steps, At(s, step)
    PROVE  CallOk(texts, calls[s]) /\ calls[s] \in Call /\ calls[s].step = step
BY DEF At, OInv, CallsOk, CallOk

LEMMA ProceedOk ==
    ASSUME OInv, NEW s \in Slots, CallOk(texts, calls[s]), Proceed(s),
           calls[s].step \in {"query", "write", "erase"}
    PROVE  \E call : Goto(s, call) /\ (call = None \/ \A T : CallOk(T, call))
<1>1. CASE calls[s].then = "done"
  BY <1>1 DEF Proceed, End
<1>2. CASE calls[s].then # "done"
  <2>1. calls[s].then \in {"open", "name", "network", "survivors", "refresh"}
        /\ calls[s].goal \in Ids \cup {None} /\ (calls[s].then = "open" => calls[s].goal \in Ids)
    BY <1>2 DEF CallOk, Call
  <2> QED BY <1>2, <2>1, NewCallOk DEF Proceed
<1> QED BY <1>1, <1>2

LEMMA Wrote ==
    ASSUME OInv, NEW i \in Ids, NEW record, record \in Rec \cup {NoRec}, Writes(i, record),
           Grows(texts, texts'), record # NoRec => Own(texts', i, record.content)
    PROVE  OwnStore(texts, docs)'
<1>1. docs' \in Store
  BY DEF Writes, OInv, StoreInv, OwnStore, Store
<1>2. ASSUME NEW j \in Ids, docs'[j] # NoRec PROVE Own(texts', j, docs'[j].content)
  BY <1>2 DEF Writes, OInv, StoreInv, OwnStore, Store, Own, Grows
<1> QED BY <1>1, <1>2 DEF OwnStore

LEMMA SaveSteps ==
    ASSUME OInv, NEW s \in Slots, SaveTitleTaken(s) \/ SaveTitleFree(s) \/ SaveWrite(s)
    PROVE  OInv'
<1>1. CASE SaveTitleTaken(s)
  <2>1. CallOk(texts, calls[s]) /\ calls[s].step = "query"
    BY <1>1, CallAt DEF SaveTitleTaken, Steps
  <2>2. PICK call : Goto(s, call) /\ (call = None \/ \A T : CallOk(T, call))
    BY <1>1, <2>1, ProceedOk DEF SaveTitleTaken
  <2>3. UNCHANGED <<manner, acts, docs, texts, page>> /\ Grows(texts, texts')
    BY <1>1, Same DEF SaveTitleTaken, Served, OInv, StoreInv
  <2>4. latest' \in [Ids -> Shown \cup {None}]
    BY <1>1 DEF SaveTitleTaken, Refused, Namesakes, Stored, OInv, StoreInv, OwnStore, HistoryInv,
                Store, Rec
  <2>5. CallsOk(texts, calls)'
    BY <2>2, <2>3, SlotSet DEF Goto, OInv
  <2> QED BY <2>3, <2>4, <2>5, PageKept DEF OInv, RestInv, StoreInv, HistoryInv
<1>2. CASE SaveTitleFree(s)
  <2>1. CallOk(texts, calls[s]) /\ calls[s].step = "query" /\ calls[s] \in Call
    BY <1>2, CallAt DEF SaveTitleFree, Steps
  <2>2. CallOk(texts, On(s, "write"))
    BY <2>1 DEF On, CallOk, Call, Steps
  <2> QED BY <1>2, <2>2, GoesOn DEF SaveTitleFree
<1>3. CASE SaveWrite(s)
  <2>1. CallOk(texts, calls[s]) /\ calls[s].step = "write" /\ calls[s] \in Call
    BY <1>3, CallAt DEF SaveWrite, Steps
  <2>2. PICK call : Goto(s, call) /\ (call = None \/ \A T : CallOk(T, call))
    BY <1>3, <2>1, ProceedOk DEF SaveWrite
  <2>3. UNCHANGED <<manner, acts, latest, texts, page>> /\ Grows(texts, texts')
    BY <1>3, Same DEF SaveWrite, Served, OInv, StoreInv
  <2>4. OwnStore(texts, docs)'
    <3> DEFINE record == [title |-> calls[s].title, content |-> calls[s].text]
    <3>1. calls[s].id \in Ids /\ Own(texts', calls[s].id, calls[s].text) /\ record \in Rec
      BY <2>1, <2>3 DEF CallOk, Call, Rec
    <3> QED BY <1>3, <2>3, <3>1, Wrote DEF SaveWrite
  <2>5. CallsOk(texts, calls)'
    BY <2>2, <2>3, SlotSet DEF Goto, OInv
  <2> QED BY <2>3, <2>4, <2>5, PageKept DEF OInv, RestInv, StoreInv, HistoryInv
<1> QED BY <1>1, <1>2, <1>3

LEMMA CreateSteps ==
    ASSUME OInv, NEW s \in Slots,
           NameTaken(s) \/ NameFree(s) \/ \E i \in Ids : Make(s, i)
    PROVE  OInv'
<1>1. CASE NameTaken(s)
  <2>1. /\ calls[s] \in Call /\ calls[s].step \in {"name", "welcome"}
        /\ calls[s].text \in Texts
    BY <1>1, CallAt DEF NameTaken, Steps, CallOk
  <2>2. CASE At(s, "name") /\ calls[s].title < MaxTitle
    <3>1. CallOk(texts, [calls[s] EXCEPT !.title = @ + 1])
      BY <2>1, <2>2, SessionBounds DEF CallOk, Call, Titles
    <3> QED BY <1>1, <2>2, <3>1, GoesOn DEF NameTaken
  <2>3. CASE ~(At(s, "name") /\ calls[s].title < MaxTitle)
    BY <1>1, <2>3, GoesOn DEF NameTaken, End
  <2> QED BY <2>2, <2>3
<1>2. CASE NameFree(s)
  <2>1. /\ calls[s] \in Call /\ calls[s].step \in {"name", "welcome"}
        /\ calls[s].text \in Texts
    BY <1>2, CallAt DEF NameFree, Steps, CallOk
  <2> DEFINE call == [On(s, "make") EXCEPT !.then = IF At(s, "name") THEN "lists" ELSE "done"]
  <2>2. call \in Call /\ call.step = "make" /\ call.text \in Texts
    BY <2>1 DEF On, Call, Steps
  <2>3. CallOk(texts, call)
    BY <2>2 DEF CallOk
  <2> QED BY <1>2, <2>3, GoesOn DEF NameFree
<1>3. ASSUME NEW i \in Ids, Make(s, i) PROVE OInv'
  <2> DEFINE record == [title |-> calls[s].title, content |-> calls[s].text]
  <2>1. /\ calls[s] \in Call /\ calls[s].text \in Texts /\ record \in Rec
    BY <1>3, CallAt DEF Make, Steps, CallOk, Call, Rec, Shown
  <2>2. Grows(texts, texts') /\ HistoryInv' /\ calls[s].text \in texts'[i]
    BY <1>3, <2>1 DEF Make, Unused, Grows, Histories, Shown, OInv, StoreInv, HistoryInv
  <2>3. OwnStore(texts, docs)'
    BY <1>3, <2>1, <2>2, Wrote DEF Make, Own
  <2>4. CallsOk(texts, calls)' /\ PageInv'
    <3>1. CASE calls[s].then = "lists"
      <4> DEFINE call == [On(s, "lists") EXCEPT !.id = i, !.found = record]
      <4>1. /\ call \in Call /\ call.step = "lists" /\ call.id = i
            /\ call.found = record
        BY <2>1 DEF On, Call, Steps
      <4>2. record # NoRec
        BY <2>1, NoneIsNoRecord DEF Rec, NoRec, Titles, Shown
      <4>3. CallOk(texts', call)
        BY <2>2, <4>1, <4>2 DEF CallOk, Own
      <4>4. Goto(s, call) /\ UNCHANGED page
        BY <1>3, <3>1 DEF Make
      <4> HIDE DEF call
      <4> QED BY <2>2, <4>3, <4>4, SlotSet, PageKept DEF Goto, OInv
    <3>2. CASE calls[s].then # "lists"
      <4>1. applyResult(i, record) /\ End(s)
        BY <1>3, <3>2 DEF Make
      <4>2. PageInv'
        BY <2>1, <2>2, <4>1, Opens DEF OInv, Own
      <4> QED BY <2>2, <4>1, <4>2, SlotSet DEF End, Goto, OInv
    <3> QED BY <3>1, <3>2
  <2> QED BY <1>3, <2>2, <2>3, <2>4 DEF Make, Served, OInv, RestInv, StoreInv
<1> QED BY <1>1, <1>2, <1>3

LEMMA SwitchSteps ==
    ASSUME OInv, NEW s \in Slots, Open(s) \/ Lists(s)
    PROVE  OInv'
<1>1. CASE Open(s)
  <2>1. CallOk(texts, calls[s]) /\ calls[s] \in Call /\ calls[s].id \in Ids
    BY <1>1, CallAt DEF Open, Steps, CallOk
  <2>2. CASE calls[s].id \in Stored
    <3> DEFINE record == docs[calls[s].id]
               call == [On(s, "lists") EXCEPT !.found = record]
    <3>1. record \in Rec /\ record # NoRec /\ Own(texts, calls[s].id, record.content)
      BY <2>1, <2>2 DEF Stored, OInv, StoreInv, OwnStore, Store
    <3>2. /\ call \in Call /\ call.step = "lists" /\ call.id = calls[s].id
          /\ call.found = record
      BY <2>1, <3>1 DEF On, Call, Steps
    <3>3. CallOk(texts, call)
      BY <2>1, <3>1, <3>2 DEF CallOk
    <3> QED BY <1>1, <2>2, <3>3, GoesOn DEF Open
  <2>3. CASE calls[s].id \notin Stored
    BY <1>1, <2>3, GoesOn DEF Open, End
  <2> QED BY <2>2, <2>3
<1>2. CASE Lists(s)
  <2>1. /\ calls[s].id \in Ids /\ calls[s].found \in Rec
        /\ Own(texts, calls[s].id, calls[s].found.content)
    BY <1>2, CallAt DEF Lists, Steps, CallOk, Call
  <2>2. RestInv' /\ StoreInv' /\ CallsOk(texts, calls)' /\ texts' = texts
    BY <1>2, Goes DEF Lists, End, Stays, store
  <2>3. PageInv'
    BY <1>2, <2>1, <2>2, Opens DEF Lists, OInv
  <2> QED BY <2>2, <2>3 DEF OInv
<1> QED BY <1>1, <1>2

LEMMA DeleteSteps ==
    ASSUME OInv, NEW s \in Slots, Erase(s) \/ Refresh(s) \/ Survivors(s) \/ Reopen(s)
    PROVE  OInv'
<1>1. CASE Erase(s)
  <2>1. CallOk(texts, calls[s]) /\ calls[s].step = "erase" /\ calls[s].id \in Ids
    BY <1>1, CallAt DEF Erase, Steps, CallOk
  <2>2. PICK call : Goto(s, call) /\ (call = None \/ \A T : CallOk(T, call))
    BY <1>1, <2>1, ProceedOk DEF Erase
  <2>3. UNCHANGED <<manner, acts, texts, page>> /\ Grows(texts, texts')
    BY <1>1, Same DEF Erase, Served, OInv, StoreInv
  <2>4. OwnStore(texts, docs)' /\ HistoryInv'
    BY <1>1, <2>1, <2>3, Wrote DEF Erase, OInv, StoreInv, HistoryInv, NoRec
  <2>5. CallsOk(texts, calls)'
    BY <2>2, <2>3, SlotSet DEF Goto, OInv
  <2> QED BY <2>3, <2>4, <2>5, PageKept DEF OInv, RestInv, StoreInv
<1>2. CASE Refresh(s)
  <2>1. RestInv' /\ StoreInv' /\ CallsOk(texts, calls)' /\ texts' = texts
    BY <1>2, Goes DEF Refresh, End, Stays, store
  <2>2. PageInv'
    BY <1>2, <2>1 DEF Refresh, requestEditor, OInv, PageInv
  <2> QED BY <2>1, <2>2 DEF OInv
<1>3. CASE Survivors(s)
  <2>1. CallOk(texts, calls[s]) /\ calls[s] \in Call /\ calls[s].step = "survivors"
    BY <1>3, CallAt DEF Survivors, Steps
  <2>2. CASE Stored = {}
    <3>1. CallOk(texts, On(s, "welcome"))
      BY <2>1 DEF On, CallOk, Call, Steps
    <3> QED BY <1>3, <2>2, <3>1, GoesOn DEF Survivors
  <2>3. CASE Stored # {}
    <3>1. PICK i \in Stored : Goto(s, [On(s, "reopen") EXCEPT !.id = i, !.found = docs[i]])
      BY <1>3, <2>3 DEF Survivors
    <3> DEFINE call == [On(s, "reopen") EXCEPT !.id = i, !.found = docs[i]]
    <3>2. i \in Ids /\ docs[i] \in Rec /\ docs[i] # NoRec /\ Own(texts, i, docs[i].content)
      BY DEF Stored, OInv, StoreInv, OwnStore, Store
    <3>3. call \in Call /\ call.step = "reopen" /\ call.id = i /\ call.found = docs[i]
      BY <2>1, <3>2 DEF On, Call, Steps
    <3>4. CallOk(texts, call)
      BY <3>2, <3>3 DEF CallOk
    <3> QED BY <1>3, <3>1, <3>4, GoesOn DEF Survivors
  <2> QED BY <2>2, <2>3
<1>4. CASE Reopen(s)
  <2> DEFINE record == IF calls[s].id \in Stored THEN docs[calls[s].id] ELSE calls[s].found
  <2>1. /\ calls[s].id \in Ids /\ calls[s].found \in Rec
        /\ Own(texts, calls[s].id, calls[s].found.content)
    BY <1>4, CallAt DEF Reopen, Steps, CallOk, Call
  <2>2. record \in Rec /\ Own(texts, calls[s].id, record.content)
    BY <2>1 DEF Stored, OInv, StoreInv, OwnStore, Store
  <2>3. RestInv' /\ StoreInv' /\ CallsOk(texts, calls)' /\ texts' = texts
    BY <1>4, Goes DEF Reopen, End, Stays, store
  <2>4. PageInv'
    BY <1>4, <2>1, <2>2, <2>3, Opens DEF Reopen, OInv
  <2> QED BY <2>3, <2>4 DEF OInv
<1> QED BY <1>1, <1>2, <1>3, <1>4

LEMMA RewriteSteps ==
    ASSUME OInv, NEW s \in Slots, Fetch(s) \/ Unique(s) \/ Replace(s)
    PROVE  OInv'
<1>1. CASE Fetch(s)
  <2>1. /\ calls[s] \in Call /\ calls[s].id \in Ids
        /\ calls[s].then \in {"unique", "replace"}
    BY <1>1, CallAt DEF Fetch, Steps, CallOk
  <2>2. CASE calls[s].id \in Stored
    <3> DEFINE record == docs[calls[s].id]
               fetched == [On(s, calls[s].then) EXCEPT !.found = record]
               call == IF fetched.step = "unique" THEN fetched
                       ELSE [fetched EXCEPT !.title = record.title]
    <3>1. record \in Rec /\ record # NoRec /\ Own(texts, calls[s].id, record.content)
      BY <2>1, <2>2 DEF Stored, OInv, StoreInv, OwnStore, Store
    <3>2. /\ fetched \in Call /\ fetched.step = calls[s].then /\ fetched.id = calls[s].id
          /\ fetched.found = record
      BY <2>1, <3>1 DEF On, Call, Steps
    <3>3. /\ call \in Call /\ call.step = calls[s].then /\ call.id = calls[s].id
          /\ call.found = record
      BY <3>1, <3>2 DEF Call, Rec
    <3>4. CallOk(texts, call)
      BY <2>1, <3>1, <3>3 DEF CallOk
    <3>5. Goto(s, call) /\ Stays /\ UNCHANGED page
      BY <1>1, <2>2 DEF Fetch
    <3> QED BY <3>4, <3>5, GoesOn
  <2>3. CASE calls[s].id \notin Stored
    BY <1>1, <2>3, GoesOn DEF Fetch, End
  <2> QED BY <2>2, <2>3
<1>2. CASE Unique(s)
  <2>1. CallOk(texts, calls[s]) /\ calls[s] \in Call /\ calls[s].step = "unique"
    BY <1>2, CallAt DEF Unique, Steps
  <2>2. CallOk(texts, On(s, "replace"))
    BY <2>1 DEF On, CallOk, Call, Steps
  <2> QED BY <1>2, <2>2, GoesOn DEF Unique, End
<1>3. CASE Replace(s)
  <2> DEFINE call == calls[s]
             record == [call.found EXCEPT !.title = call.title]
  <2>1. /\ call \in Call /\ call.id \in Ids /\ call.found \in Rec
        /\ Own(texts, call.id, call.found.content)
    BY <1>3, CallAt DEF Replace, Steps, CallOk, Call
  <2>2. record \in Rec /\ record.content = call.found.content
    BY <2>1 DEF Rec, Call
  <2>3. UNCHANGED <<manner, acts, latest, texts>> /\ Grows(texts, texts')
    BY <1>3, Same DEF Replace, Served, OInv, StoreInv
  <2>4. OwnStore(texts, docs)'
    BY <1>3, <2>1, <2>2, <2>3, Wrote DEF Replace
  <2>5. CallsOk(texts, calls)' /\ PageInv'
    <3>1. CASE call.then = "replace"
      BY <1>3, <2>3, <3>1, SlotSet, PageKept DEF Replace, End, Goto, OInv
    <3>2. CASE call.then # "replace"
      <4>1. Goto(s, NewCall("refresh", None)) /\ docTitle' \in {docTitle, call.title}
            /\ UNCHANGED <<currentId, draft, timer, editor, builtIn>>
        BY <1>3, <3>2 DEF Replace
      <4>2. call.title \in Titles /\ None \notin Titles
        BY <2>1, TextsDiffer DEF Call, Titles
      <4>3. PageInv'
        BY <2>3, <4>1, <4>2 DEF OInv, PageInv
      <4>4. CallsOk(texts, calls)'
        BY <2>3, <4>1, NewCallOk, SlotSet DEF Goto, OInv
      <4> QED BY <4>3, <4>4
    <3> QED BY <3>1, <3>2
  <2> QED BY <2>3, <2>4, <2>5 DEF OInv, RestInv, StoreInv, HistoryInv
<1> QED BY <1>1, <1>2, <1>3
-----------------------------------------------------------------------------
(* A sync run *)

LEMMA ElsewhereKept ==
    ASSUME OInv, Elsewhere, Grows(texts, texts')
    PROVE  RestInv' /\ PageInv'
<1>1. UNCHANGED <<manner, page>> /\ acts < MaxActs[manner] /\ acts' = acts + 1
  BY DEF Elsewhere
<1>2. RestInv'
  BY <1>1, SessionBounds DEF OInv, RestInv
<1> QED BY <1>1, <1>2, PageKept DEF OInv

LEMMA SyncSteps == ASSUME OInv, NEW s \in Slots, Sync(s) PROVE OInv'
<1>1. ASSUME NEW i \in Ids, NEW t \in Texts, Pull(s, i, t) PROVE OInv'
  <2>1. Grows(texts, texts') /\ HistoryInv' /\ t \in texts'[i]
    BY <1>1 DEF Pull, Grows, Histories, Shown, OInv, StoreInv, HistoryInv
  <2>2. OwnStore(texts, docs)'
    <3>1. CASE i \in Stored
      <4> DEFINE record == [docs[i] EXCEPT !.content = t]
      <4>1. record \in Rec /\ record.content = t
        BY <3>1 DEF Stored, OInv, StoreInv, OwnStore, Store, Rec, Shown
      <4> QED BY <1>1, <2>1, <3>1, <4>1, Wrote DEF Pull, Own
    <3>2. CASE i \notin Stored
      <4>1. PICK title \in Titles : Writes(i, [title |-> title, content |-> t])
        BY <1>1, <3>2 DEF Pull
      <4>2. [title |-> title, content |-> t] \in Rec
        BY DEF Rec, Shown
      <4> QED BY <2>1, <4>1, <4>2, Wrote DEF Own
    <3> QED BY <3>1, <3>2
  <2> QED BY <1>1, <2>1, <2>2, ElsewhereKept, AllKept DEF Pull, OInv, StoreInv
<1>2. ASSUME NEW i \in Ids, PullDeletion(s, i) PROVE OInv'
  <2>1. Grows(texts, texts') /\ HistoryInv'
    BY <1>2, Same DEF PullDeletion, OInv, StoreInv, HistoryInv
  <2>2. OwnStore(texts, docs)'
    BY <1>2, <2>1, Wrote DEF PullDeletion, NoRec
  <2>3. calls[s] \in Call
    BY <1>2, CallAt DEF PullDeletion, Steps
  <2>4. CallOk(texts', On(s, "prune"))
    BY <2>3 DEF On, CallOk, Call, Steps
  <2>5. CallsOk(texts, calls)'
    BY <1>2, <2>1, <2>4, SlotSet DEF PullDeletion, Goto, OInv
  <2> QED BY <1>2, <2>1, <2>2, <2>5, ElsewhereKept DEF PullDeletion, OInv, StoreInv
<1>3. CASE SyncEnds(s)
  <2>1. calls[s] \in Call
    BY <1>3, CallAt DEF SyncEnds, Steps
  <2>2. CallOk(texts, On(s, "relist"))
    BY <2>1 DEF On, CallOk, Call, Steps
  <2> QED BY <1>3, <2>2, GoesOn DEF SyncEnds
<1>4. CASE SyncFails(s)
  BY <1>4, GoesOn DEF SyncFails, End
<1>5. CASE Relist(s)
  <2> DEFINE call == [On(s, "readopt") EXCEPT !.listed = docs]
  <2>1. OwnStore(texts, docs) /\ calls[s] \in Call
    BY <1>5, CallAt DEF Relist, Steps, OInv, StoreInv
  <2>2. call \in Call /\ call.step = "readopt" /\ call.listed = docs
    BY <2>1 DEF On, Call, Steps, OwnStore
  <2>3. CallOk(texts, call)
    BY <2>1, <2>2 DEF CallOk
  <2> QED BY <1>5, <2>3, GoesOn DEF Relist
<1>6. ASSUME NEW i \in Ids, Readopt(s, i) PROVE OInv'
  <2> DEFINE listed == calls[s].listed
  <2>1. listed[i] \in Rec /\ Own(texts, i, listed[i].content)
    BY <1>6, CallAt DEF Readopt, Steps, CallOk, OwnStore, Store
  <2>2. RestInv' /\ StoreInv' /\ CallsOk(texts, calls)' /\ texts' = texts
    BY <1>6, Goes DEF Readopt, End, Stays, store
  <2>3. PageInv'
    <3>1. /\ currentId' = i /\ docTitle' = listed[i].title /\ draft' = listed[i].content
          /\ UNCHANGED builtIn
          /\ \/ editor' = listed[i].content /\ timer' = TRUE /\ ~builtIn
             \/ /\ UNCHANGED <<editor, timer>>
                /\ editor = None \/ builtIn \/ editor = listed[i].content
      BY <1>6 DEF Readopt
    <3>2. i # None /\ listed[i].title # None /\ listed[i].content # None
      BY <2>1, TextsDiffer DEF Rec, Titles, Shown
    <3>3. listed[i].title \in Titles /\ listed[i].content \in Shown
      BY <2>1 DEF Rec
    <3>4. /\ editor' \in {None, Guide, listed[i].content} /\ editor' \in Shown \cup {None}
          /\ timer' \in BOOLEAN /\ (builtIn' => editor' \in {None, Guide})
      BY <3>1, <3>3 DEF OInv, PageInv, Shown
    <3> QED BY <2>1, <2>2, <3>1, <3>2, <3>3, <3>4 DEF OInv, PageInv, Own
  <2> QED BY <2>2, <2>3 DEF OInv
<1>7. CASE ReadoptNothing(s)
  <2> DEFINE call == [NewCall("survivors", None) EXCEPT !.text = Sample]
  <2>1. call \in Call /\ call.step = "survivors" /\ call.text \in Texts
    BY TextsDiffer, SessionBounds DEF NewCall, Call, Titles, Shown, Steps
  <2>2. CallOk(texts, call)
    BY <2>1 DEF CallOk
  <2> QED BY <1>7, <2>2, GoesOn DEF ReadoptNothing
<1> QED BY <1>1, <1>2, <1>3, <1>4, <1>5, <1>6, <1>7 DEF Sync
-----------------------------------------------------------------------------
LEMMA StepInv == OInv /\ [Next]_vars => OInv'
<1> SUFFICES ASSUME OInv, [Next]_vars PROVE OInv'
  OBVIOUS
<1>1. CASE Next
  <2>1. ASSUME NEW s \in Slots, Answer(s) PROVE OInv'
    BY <2>1, SaveSteps, CreateSteps, SwitchSteps, DeleteSteps, RewriteSteps DEF Answer
  <2> QED BY <1>1, <2>1, PageSteps, StartSteps, SyncSteps DEF Next
<1>2. CASE UNCHANGED vars
  <2>1. UNCHANGED <<manner, acts, calls, docs, latest, texts, page>>
    BY <1>2 DEF vars, store
  <2> QED BY <2>1, Same, AllKept, PageKept DEF OInv, RestInv, StoreInv, HistoryInv
<1> QED BY <1>1, <1>2

LEMMA Invariant == Spec => []OInv
BY InitInv, StepInv, PTL DEF Spec

\* Type correctness of the page, the controller, storage and every operation
\* under way; a save is pending only while a document is open.
THEOREM SessionTyped == Spec => []TypeOK
BY Invariant, InvImplies, PTL

\* No document is ever stored with a text that is neither its own nor the
\* guide's, however many operations overlap, in whatever order storage answers.
THEOREM OwnTextKept == Spec => []OwnText
BY Invariant, InvImplies, PTL
-----------------------------------------------------------------------------
(* A calm user *)

\* The record of the page's document is there, under the title the page knows.
PageFits == currentId # None => currentId \in Stored /\ docTitle = docs[currentId].title
\* Storage holds what was last put into each document, but for some.
SettledBut(I) == \A i \in Ids \ I : latest[i] = IF i \in Stored THEN docs[i].content ELSE None
\* A text that is not yet saved is in the editor or the draft.
Awaited == IF timer THEN {currentId} ELSE {}
Held == timer => latest[currentId] = Content
Rest == PageFits /\ SettledBut(Awaited) /\ Held

\* Steps after which the page will have adopted a record, and those at which
\* every text is stored.
Leaving == {"make", "lists", "reopen", "survivors", "welcome", "prune", "relist", "readopt"}
Saved == Leaving \cup {"open", "name", "network"}
CalmCall(c) ==
    /\ c.step \notin Leaving => PageFits
    /\ c.step \in Saved => ~timer /\ SettledBut({})
    /\ c.step \in {"refresh", "fetch", "unique", "replace"} => SettledBut(Awaited) /\ Held
    /\ c.step \in {"query", "write"} =>
          /\ ~timer /\ SettledBut({c.id}) /\ c.id \in Stored
          /\ c.title = docs[c.id].title /\ c.text = latest[c.id]
          /\ c.then \in {"done", "open", "name", "network"} /\ (c.then = "open" => c.goal \in Stored)
    /\ c.step = "erase" =>
          /\ SettledBut(Awaited \cup {c.id}) /\ Held /\ c.id \in Stored
          /\ \/ c.then = "survivors" /\ c.id = currentId /\ ~timer
             \/ c.then = "refresh" /\ c.id # currentId
    /\ c.step = "open" => c.id \in Stored
    /\ c.step \in {"lists", "reopen", "unique", "replace"} => c.id \in Stored /\ c.found = docs[c.id]
    /\ c.step = "make" => ~isTitleTaken(c.title, None)
    /\ c.step = "welcome" => Stored = {}
    /\ c.step = "fetch" => c.id \in Stored
    /\ c.step = "unique" => c.then = "unique"
    /\ c.step = "replace" => IF c.then = "replace" THEN c.title = docs[c.id].title
                             ELSE ~isTitleTaken(c.title, c.id)
    /\ c.step = "readopt" => c.listed = docs

CalmDocs == \A i \in Stored : texts[i] # {}
OneAtATime == \A r, s \in Slots : calls[r] # None /\ calls[s] # None => r = s
CalmInv == manner = "calm" =>
    /\ CalmDocs /\ OneAtATime /\ ~builtIn
    /\ \A s \in Slots : calls[s] # None => CalmCall(calls[s])
    /\ Idle => Rest

LEMMA CalmImplies == CalmInv => KeptTyping
BY DEF CalmInv, Rest, SettledBut, Awaited, KeptTyping

LEMMA InitCalm == Init => CalmInv
<1> SUFFICES ASSUME Init PROVE CalmInv
  OBVIOUS
<1>1. PICK s \in Slots : calls = [r \in Slots |->
        IF r = s THEN [NewCall("survivors", None) EXCEPT !.text = Sample] ELSE None]
  BY DEF Init
<1> DEFINE call == [NewCall("survivors", None) EXCEPT !.text = Sample]
<1>2. call \in Call /\ call.step = "survivors" /\ call # None
  <2>1. call \in Call /\ call.step = "survivors"
    BY TextsDiffer, SessionBounds DEF NewCall, Call, Titles, Shown, Steps
  <2> QED BY <2>1, NoneIsNoCall
<1>3. CalmDocs /\ SettledBut({}) /\ ~timer /\ ~builtIn
  BY DEF Init, CalmDocs, SettledBut, Stored, NoRec
<1>4. \A r \in Slots : calls[r] # None => r = s /\ calls[r] = call
  BY <1>1
<1> HIDE DEF call
<1>5. CalmCall(call)
  BY <1>2, <1>3 DEF CalmCall, Leaving, Saved
<1>6. ~Idle
  BY <1>1, <1>2, <1>4 DEF Idle, call
<1> QED BY <1>3, <1>4, <1>5, <1>6 DEF CalmInv, OneAtATime

\* What is known of the operation under way, and that it is the only one.
LEMMA CalmAt ==
    ASSUME OInv, CalmInv, manner = "calm", NEW s \in Slots, calls[s] # None
    PROVE  /\ CalmCall(calls[s]) /\ CallOk(texts, calls[s]) /\ calls[s] \in Call
           /\ CalmDocs /\ ~builtIn
           /\ \A r \in Slots \ {s} : calls[r] = None
BY DEF CalmInv, OneAtATime, OInv, CallsOk, CallOk

\* A step of that operation.
LEMMA CalmGoes ==
    ASSUME OInv, CalmInv, manner = "calm", manner' = manner, NEW s \in Slots, NEW call,
           calls' = [calls EXCEPT ![s] = call], \A r \in Slots \ {s} : calls[r] = None,
           CalmDocs', ~builtIn', call = None => Rest', call # None => CalmCall(calls[s])'
    PROVE  CalmInv'
<1>1. calls' \in [Slots -> {call, None}] /\ calls'[s] = call /\ \A r \in Slots \ {s} : calls'[r] = None
  BY DEF OInv, CallsOk
<1>2. OneAtATime'
  BY <1>1 DEF OneAtATime
<1>3. ASSUME NEW r \in Slots, calls'[r] # None PROVE CalmCall(calls[r])'
  <2>1. r = s /\ call # None
    BY <1>1, <1>3
  <2> QED BY <2>1
<1>4. Idle' => Rest'
  BY <1>1 DEF Idle
<1> QED BY <1>2, <1>3, <1>4 DEF CalmInv

\* An operation begins when nothing else is under way.
LEMMA CalmBegins ==
    ASSUME OInv, CalmInv, manner = "calm", Idle
    PROVE  Rest /\ CalmDocs /\ ~builtIn /\ \A r \in Slots : calls[r] = None
BY DEF CalmInv, Idle

\* Mounting the editor shows what the draft holds; typing and settings wait for
\* a calm user's operation to end.
LEMMA CalmPageSteps ==
    ASSUME OInv, CalmInv, manner = "calm",
           mountEditor \/ applySetting \/ openBuiltin \/ closeBuiltin
           \/ \E t \in Texts : Type(t)
    PROVE  CalmInv'
<1> USE DEF CalmInv
<1>1. ~openBuiltin /\ ~closeBuiltin
  BY DEF openBuiltin, closeBuiltin
<1>2. CASE mountEditor
  <2>1. /\ UNCHANGED <<manner, calls, docs, latest, texts, currentId, docTitle, draft, timer, builtIn>>
        /\ editor = None /\ editor' = Draft
    BY <1>2 DEF mountEditor, store
  <2>2. CalmDocs' /\ OneAtATime' /\ (Idle' = Idle)
    BY <2>1 DEF CalmDocs, OneAtATime, Stored, Idle
  <2>3. Held => Held'
    <3>1. timer => draft # None
      BY DEF OInv, PageInv
    <3>2. timer => Content' = Content
      BY <2>1, <3>1, TextsDiffer DEF Content, Draft, OInv, PageInv, Shown
    <3> QED BY <2>1, <3>2 DEF Held
  <2>4. \A I : SettledBut(I) => SettledBut(I)'
    BY <2>1 DEF SettledBut, Stored
  <2>5. PageFits' = PageFits /\ Awaited' = Awaited
    BY <2>1 DEF PageFits, Stored, Awaited
  <2>6. ASSUME NEW s \in Slots, CalmCall(calls[s]) PROVE CalmCall(calls[s])'
    BY <2>1, <2>3, <2>5, <2>6 DEF CalmCall, SettledBut, Stored, isTitleTaken, Awaited
  <2>7. Rest => Rest'
    BY <2>1, <2>3, <2>4, <2>5 DEF Rest, SettledBut, Stored
  <2> QED BY <2>1, <2>2, <2>6, <2>7
<1>3. CASE applySetting
  <2>1. /\ Idle /\ UNCHANGED <<manner, calls, docs, latest, texts, currentId, docTitle, timer, builtIn>>
        /\ editor # None /\ draft' = editor /\ editor' = None
    BY <1>3 DEF applySetting, OnPage, UserMay, requestEditor
  <2>2. Rest /\ CalmDocs /\ \A r \in Slots : calls[r] = None
    BY <2>1, CalmBegins
  <2>3. Rest'
    BY <2>1, <2>2 DEF Rest, PageFits, SettledBut, Awaited, Held, Content, Stored
  <2>4. CalmDocs' /\ OneAtATime'
    BY <2>1, <2>2 DEF CalmDocs, OneAtATime, Stored
  <2> QED BY <2>1, <2>2, <2>3, <2>4
<1>4. ASSUME NEW t \in Texts, Type(t) PROVE CalmInv'
  <2>1. /\ Idle /\ UNCHANGED <<manner, calls, docs, currentId, docTitle, builtIn>>
        /\ editor' = t /\ timer' = (timer \/ currentId # None)
        /\ IF currentId = None THEN UNCHANGED <<latest, texts>>
           ELSE /\ latest' = [latest EXCEPT ![currentId] = t]
                /\ texts' = [texts EXCEPT ![currentId] = @ \cup {t}]
    BY <1>4 DEF Type, OnPage, UserMay, scheduleSave
  <2>2. Rest /\ CalmDocs /\ \A r \in Slots : calls[r] = None
    BY <2>1, CalmBegins
  <2>3. /\ latest \in [Ids -> Shown \cup {None}] /\ texts \in [Ids -> SUBSET Texts]
        /\ currentId \in Ids \cup {None} /\ t # None /\ (timer => currentId # None)
    BY TextsDiffer DEF OInv, StoreInv, HistoryInv, Histories, PageInv
  <2>4. Rest'
    BY <2>1, <2>2, <2>3 DEF Rest, PageFits, SettledBut, Awaited, Held, Content, Stored
  <2>5. CalmDocs' /\ OneAtATime'
    BY <2>1, <2>2, <2>3 DEF CalmDocs, OneAtATime, Stored
  <2> QED BY <2>1, <2>2, <2>4, <2>5
<1> QED BY <1>1, <1>2, <1>3, <1>4

\* The call a save or flush puts into its slot.
LEMMA SaveNowIs ==
    ASSUME OInv, timer, NEW step \in {"done", "open", "name", "network"},
           NEW i \in Ids \cup {None}
    PROVE  /\ saveNow(step, i) \in Call
           /\ saveNow(step, i).step = "query" /\ saveNow(step, i).id = currentId
           /\ saveNow(step, i).title = docTitle /\ saveNow(step, i).text = Content
           /\ saveNow(step, i).then = step /\ saveNow(step, i).goal = i
<1>1. currentId \in Ids /\ docTitle \in Titles /\ Content \in Shown
  BY TextsDiffer DEF OInv, PageInv, Content, Shown
<1> QED BY <1>1, TextsDiffer, SessionBounds DEF saveNow, NewCall, Call, Steps, Titles, Shown

LEMMA CalmStartSteps ==
    ASSUME OInv, CalmInv, manner = "calm", NEW s \in Slots, Starts(s)
    PROVE  CalmInv'
<1>1. /\ Idle /\ calls[s] = None
      /\ UNCHANGED <<manner, docs, latest, texts, currentId, docTitle, draft, editor, builtIn>>
  BY DEF Starts, FireTimer, createDocument, runNow, switchDocument, confirmDelete, Rewrite,
         renameDocument, OnStore, UserMay, flushSave, Start, store
<1>2. Rest /\ CalmDocs /\ ~builtIn /\ \A r \in Slots : calls[r] = None
  BY <1>1, CalmBegins
<1>3. CalmDocs' /\ ~builtIn' /\ PageFits'
  BY <1>1, <1>2 DEF CalmDocs, Stored, Rest, PageFits
<1>4. ASSUME NEW call, Start(s, call), call # None => CalmCall(calls[s])', call = None => Rest'
      PROVE  CalmInv'
  BY <1>1, <1>2, <1>3, <1>4, CalmGoes DEF Start
<1>5. ASSUME NEW step \in {"done", "open", "name", "network"}, NEW i \in Ids \cup {None},
             timer, timer' = FALSE, step = "open" => i \in Stored, Start(s, saveNow(step, i))
      PROVE  CalmInv'
  <2> DEFINE call == saveNow(step, i)
  <2>1. /\ call \in Call /\ call.step = "query" /\ call.id = currentId /\ call.title = docTitle
        /\ call.text = Content /\ call.then = step /\ call.goal = i
    BY <1>5, SaveNowIs
  <2> HIDE DEF call
  <2>2. currentId \in Stored /\ docTitle = docs[currentId].title /\ latest[currentId] = Content
        /\ SettledBut({currentId})
    BY <1>2, <1>5 DEF Rest, PageFits, Held, Awaited, OInv, PageInv
  <2>3. calls'[s] = call
    BY <1>5 DEF Start, OInv, CallsOk, call
  <2>4. CalmCall(calls[s])'
    BY <1>1, <1>3, <1>5, <2>1, <2>2, <2>3 DEF CalmCall, Leaving, Saved, SettledBut, Stored
  <2>5. call # None
    BY <2>1, NoneIsNoCall
  <2> QED BY <1>4, <1>5, <2>4, <2>5 DEF call
<1>6. ASSUME NEW step \in {"open", "name", "network"}, NEW i \in Ids \cup {None},
             step = "open" => i \in Stored, flushSave(s, step, i)
      PROVE  CalmInv'
  <2>1. CASE timer
    BY <1>5, <1>6, <2>1 DEF flushSave
  <2>2. CASE ~timer
    <3>1. /\ NewCall(step, i) \in Call /\ NewCall(step, i).step = step /\ NewCall(step, i).id = i
          /\ Start(s, NewCall(step, i)) /\ timer' = FALSE
      BY <1>6, <2>2, NewCallTyped DEF flushSave, Steps
    <3>2. calls'[s] = NewCall(step, i)
      BY <3>1 DEF Start, OInv, CallsOk
    <3>3. SettledBut({})
      BY <1>2, <2>2 DEF Rest, Awaited
    <3>4. CalmCall(calls[s])'
      BY <1>1, <1>3, <1>6, <3>1, <3>2, <3>3 DEF CalmCall, Leaving, Saved, SettledBut, Stored
    <3>5. NewCall(step, i) # None
      BY <3>1, NoneIsNoCall
    <3> QED BY <1>4, <3>1, <3>4, <3>5
  <2> QED BY <2>1, <2>2
<1>7. CASE FireTimer(s)
  BY <1>5, <1>7 DEF FireTimer
<1>8. CASE createDocument(s) \/ runNow(s)
  BY <1>6, <1>8 DEF createDocument, runNow
<1>9. ASSUME NEW i \in Ids, switchDocument(s, i) PROVE CalmInv'
  BY <1>6, <1>9 DEF switchDocument
<1>10. ASSUME NEW i \in Ids, confirmDelete(s, i) PROVE CalmInv'
  <2> DEFINE call == [NewCall("erase", i) EXCEPT
                         !.then = IF i = currentId THEN "survivors" ELSE "refresh"]
  <2>1. /\ call \in Call /\ call.step = "erase" /\ call.id = i
        /\ call.then = IF i = currentId THEN "survivors" ELSE "refresh"
    BY TextsDiffer, SessionBounds DEF NewCall, Call, Steps, Titles, Shown
  <2>2. Start(s, call) /\ i \in Stored /\ timer' = (timer /\ i # currentId)
    BY <1>10 DEF confirmDelete
  <2> HIDE DEF call
  <2>3. calls'[s] = call
    BY <2>2 DEF Start, OInv, CallsOk
  <2>4. SettledBut(Awaited' \cup {i}) /\ Held'
    BY <1>1, <1>2, <2>2 DEF Rest, SettledBut, Awaited, Held, Content
  <2>5. CalmCall(calls[s])'
    BY <1>1, <1>3, <2>1, <2>2, <2>3, <2>4 DEF CalmCall, Leaving, Saved, SettledBut, Stored, Awaited
  <2>6. call # None
    BY <2>1, NoneIsNoCall
  <2> QED BY <1>4, <2>2, <2>5, <2>6
<1>11. ASSUME NEW i \in Ids, NEW call \in Call, i \in Stored, Start(s, call), timer' = timer,
              call.step = "fetch", call.id = i
       PROVE  CalmInv'
  <2>1. calls'[s] = call
    BY <1>11 DEF Start, OInv, CallsOk
  <2>2. SettledBut(Awaited)' /\ Held'
    BY <1>1, <1>2, <1>11 DEF Rest, SettledBut, Awaited, Held, Content, Stored
  <2>3. CalmCall(calls[s])'
    BY <1>1, <1>3, <1>11, <2>1, <2>2 DEF CalmCall, Leaving, Saved, Stored
  <2>4. call # None
    BY <1>11, NoneIsNoCall
  <2> QED BY <1>4, <1>11, <2>3, <2>4
<1>12. ASSUME NEW i \in Ids, Rewrite(s, i) PROVE CalmInv'
  <2> DEFINE call == [NewCall("fetch", i) EXCEPT !.then = "replace"]
  <2>1. call \in Call /\ call.step = "fetch" /\ call.id = i
    BY TextsDiffer, SessionBounds DEF NewCall, Call, Steps, Titles, Shown
  <2> QED BY <1>11, <1>12, <2>1 DEF Rewrite
<1>13. ASSUME NEW i \in Ids, NEW title \in Titles, renameDocument(s, i, title) PROVE CalmInv'
  <2> DEFINE call == [NewCall("fetch", i) EXCEPT !.then = "unique", !.title = title]
  <2>1. call \in Call /\ call.step = "fetch" /\ call.id = i
    BY TextsDiffer, SessionBounds DEF NewCall, Call, Steps, Titles, Shown
  <2> QED BY <1>11, <1>13, <2>1 DEF renameDocument
<1> QED BY <1>7, <1>8, <1>9, <1>10, <1>12, <1>13 DEF Starts

\* The operation goes on, or ends, having only read.
LEMMA CalmReads ==
    ASSUME OInv, CalmInv, manner = "calm", NEW s \in Slots, calls[s] # None,
           NEW call, Goto(s, call), Stays, UNCHANGED page
    PROVE  /\ CalmCall(calls[s]) /\ CallOk(texts, calls[s]) /\ calls[s] \in Call /\ CalmDocs
           /\ UNCHANGED <<docs, latest, texts, currentId, docTitle, draft, timer, editor, builtIn>>
           /\ calls'[s] = call
           /\ (call = None => Rest') /\ (call # None => CalmCall(calls[s])') => CalmInv'
<1>1. UNCHANGED <<manner, docs, latest, texts, currentId, docTitle, draft, timer, editor, builtIn>>
  BY DEF Stays, Served, store, page
<1>2. /\ CalmCall(calls[s]) /\ CallOk(texts, calls[s]) /\ calls[s] \in Call /\ CalmDocs /\ ~builtIn
      /\ \A r \in Slots \ {s} : calls[r] = None
  BY CalmAt
<1>3. calls' = [calls EXCEPT ![s] = call] /\ calls'[s] = call
  BY DEF Goto, OInv, CallsOk
<1>4. CalmDocs' /\ ~builtIn'
  BY <1>1, <1>2 DEF CalmDocs, Stored
<1>5. (call = None => Rest') /\ (call # None => CalmCall(calls[s])') => CalmInv'
  BY <1>1, <1>2, <1>3, <1>4, CalmGoes
<1> QED BY <1>1, <1>2, <1>3, <1>5

\* Once a save is made or refused, what waited for it goes on.
LEMMA CalmProceeds ==
    ASSUME NEW c \in Call, c.then \in {"done", "open", "name", "network"},
           c.then = "open" => c.goal \in Stored',
           PageFits', ~timer', SettledBut({})',
           NEW s \in Slots, calls'[s] = IF c.then = "done" THEN None ELSE NewCall(c.then, c.goal)
    PROVE  /\ calls'[s] = None => Rest'
           /\ calls'[s] # None => CalmCall(calls[s])'
<1>1. Rest'
  BY DEF Rest, Awaited, Held
<1>2. CASE c.then = "done"
  BY <1>1, <1>2
<1>3. CASE c.then # "done"
  <2> DEFINE call == NewCall(c.then, c.goal)
  <2>1. c.goal \in Ids \cup {None}
    BY DEF Call
  <2>2. call \in Call /\ call.step = c.then /\ call.id = c.goal
    BY <1>3, <2>1, NewCallTyped DEF Steps
  <2>3. calls'[s] = call
    BY <1>3
  <2> HIDE DEF call
  <2> QED BY <1>1, <1>3, <2>2, <2>3 DEF CalmCall, Leaving, Saved
<1> QED BY <1>2, <1>3

LEMMA CalmSaveSteps ==
    ASSUME OInv, CalmInv, manner = "calm", NEW s \in Slots,
           SaveTitleTaken(s) \/ SaveTitleFree(s) \/ SaveWrite(s)
    PROVE  CalmInv'
<1> DEFINE c == calls[s]
<1>1. /\ CalmCall(c) /\ CallOk(texts, c) /\ c \in Call /\ c # None /\ CalmDocs /\ ~builtIn
      /\ c.step \in {"query", "write"} /\ \A r \in Slots \ {s} : calls[r] = None
  BY CalmAt DEF SaveTitleTaken, SaveTitleFree, SaveWrite, At
<1>2. /\ ~timer /\ PageFits /\ SettledBut({c.id}) /\ c.id \in Stored
      /\ c.title = docs[c.id].title /\ c.text = latest[c.id]
      /\ c.then \in {"done", "open", "name", "network"} /\ (c.then = "open" => c.goal \in Stored)
  BY <1>1 DEF CalmCall, Leaving
\* Only a namesake can have a save refused: its title is its document's own.
<1>4. CASE SaveTitleTaken(s)
  <2> DEFINE call == IF c.then = "done" THEN None ELSE NewCall(c.then, c.goal)
  <2>1. Namesakes(c.id) # {}
    BY <1>2, <1>4 DEF SaveTitleTaken, isTitleTaken, Namesakes, Stored
  <2>2. /\ latest' = [latest EXCEPT ![c.id] = docs[c.id].content]
        /\ calls' = [calls EXCEPT ![s] = call]
        /\ UNCHANGED <<manner, docs, texts, currentId, docTitle, draft, timer, editor, builtIn>>
    BY <1>4, <2>1 DEF SaveTitleTaken, Refused, Proceed, End, Goto, Served, page
  <2>3. calls'[s] = call
    BY <2>2 DEF OInv, CallsOk
  <2> HIDE DEF call
  <2>4. Stored' = Stored /\ CalmDocs' /\ PageFits' /\ ~timer' /\ ~builtIn'
    BY <1>1, <1>2, <2>2 DEF CalmDocs, PageFits, Stored
  <2>5. SettledBut({})'
    BY <1>2, <2>2, <2>4 DEF SettledBut, OInv, StoreInv, HistoryInv
  <2>6. (calls'[s] = None => Rest') /\ (calls'[s] # None => CalmCall(calls[s])')
    BY <1>1, <1>2, <2>3, <2>4, <2>5, CalmProceeds DEF call
  <2> QED BY <1>1, <2>2, <2>3, <2>4, <2>6, CalmGoes
<1>5. CASE SaveTitleFree(s)
  <2> DEFINE call == On(s, "write")
  <2>1. call \in Call /\ call = [c EXCEPT !.step = "write"] /\ call # None
    <3>1. call \in Call
      BY <1>1 DEF On, Call, Steps
    <3> QED BY <3>1, NoneIsNoCall DEF On
  <2>2. Goto(s, call) /\ Stays /\ UNCHANGED page
    BY <1>5 DEF SaveTitleFree
  <2>3. /\ UNCHANGED <<docs, latest, texts, currentId, docTitle, draft, timer, editor, builtIn>>
        /\ calls'[s] = call
    BY <1>1, <2>2, CalmReads
  <2>4. /\ call.step = "write" /\ call.id = c.id /\ call.title = c.title /\ call.text = c.text
        /\ call.then = c.then /\ call.goal = c.goal
    BY <1>1, <2>1 DEF Call
  <2> HIDE DEF call
  <2>5. CalmCall(calls[s])'
    BY <1>2, <2>3, <2>4 DEF CalmCall, Leaving, Saved, SettledBut, Stored, PageFits
  <2> QED BY <1>1, <2>1, <2>2, <2>5, CalmReads
<1>6. CASE SaveWrite(s)
  <2> DEFINE record == [title |-> c.title, content |-> c.text]
             call == IF c.then = "done" THEN None ELSE NewCall(c.then, c.goal)
  <2>1. /\ docs' = [docs EXCEPT ![c.id] = record] /\ calls' = [calls EXCEPT ![s] = call]
        /\ UNCHANGED <<manner, latest, texts, currentId, docTitle, draft, timer, editor, builtIn>>
    BY <1>6 DEF SaveWrite, Writes, Proceed, End, Goto, Served, page
  <2>2. /\ record # NoRec /\ docs \in Store /\ c.id \in Ids /\ record.title = docs[c.id].title
        /\ record.content = latest[c.id]
    <3>1. record \in Rec
      BY <1>1 DEF Call, Rec
    <3> QED BY <1>2, <3>1, NoneIsNoRecord DEF Rec, NoRec, Titles, Shown, OInv, StoreInv, OwnStore, Stored
  <2>3. calls'[s] = call
    BY <2>1 DEF OInv, CallsOk
  <2> HIDE DEF record, call
  <2>4. Stored' = Stored /\ docs'[c.id] = record /\ \A i \in Ids \ {c.id} : docs'[i] = docs[i]
    BY <1>2, <2>1, <2>2 DEF Stored, Store
  <2>5. \A i \in Ids : i \in Stored => docs'[i].title = docs[i].title
    BY <2>2, <2>4
  <2>6. CalmDocs'
    BY <1>1, <2>1, <2>4, <2>5 DEF CalmDocs, Stored
  <2>7. PageFits' /\ ~timer'
    BY <1>2, <2>1, <2>4, <2>5 DEF PageFits, Stored
  <2>8. SettledBut({})'
    BY <1>2, <2>1, <2>2, <2>4 DEF SettledBut
  <2>9. (calls'[s] = None => Rest') /\ (calls'[s] # None => CalmCall(calls[s])')
    BY <1>1, <1>2, <2>3, <2>4, <2>7, <2>8, CalmProceeds DEF call
  <2> QED BY <1>1, <2>1, <2>3, <2>6, <2>9, CalmGoes
<1> QED BY <1>4, <1>5, <1>6

\* The page adopts a stored record.
LEMMA CalmOpens ==
    ASSUME OInv, CalmInv, manner = "calm", manner' = manner, NEW s \in Slots, calls[s] # None,
           End(s), NEW i \in Ids, NEW record, record # NoRec, applyResult(i, record), docs'[i] = record,
           ~timer, SettledBut({})', CalmDocs'
    PROVE  CalmInv'
<1>1. ~builtIn' /\ timer' = timer /\ currentId' = i /\ docTitle' = record.title
  BY DEF applyResult
<1>2. Rest'
  BY <1>1 DEF Rest, PageFits, Awaited, Held, Stored
<1>3. calls' = [calls EXCEPT ![s] = None] /\ \A r \in Slots \ {s} : calls[r] = None
  BY CalmAt DEF End, Goto
<1> QED BY <1>1, <1>2, <1>3, CalmGoes

LEMMA CalmCreateSteps ==
    ASSUME OInv, CalmInv, manner = "calm", NEW s \in Slots,
           NameTaken(s) \/ NameFree(s) \/ \E i \in Ids : Make(s, i)
    PROVE  CalmInv'
<1> DEFINE c == calls[s]
<1>1. /\ CalmCall(c) /\ CallOk(texts, c) /\ c \in Call /\ c # None /\ CalmDocs /\ ~builtIn
      /\ c.step \in {"name", "welcome", "make"} /\ \A r \in Slots \ {s} : calls[r] = None
  BY CalmAt DEF NameTaken, NameFree, Make, At
<1>2. ~timer /\ SettledBut({}) /\ (c.step = "name" => PageFits)
  BY <1>1 DEF CalmCall, Leaving, Saved
<1>3. c.step = "welcome" => ~isTitleTaken(c.title, None)
  BY <1>1 DEF CalmCall, isTitleTaken
<1>4. CASE NameTaken(s)
  <2>1. c.step = "name" /\ Stays /\ UNCHANGED page
    BY <1>1, <1>3, <1>4 DEF NameTaken, At
  <2>2. CASE c.title < MaxTitle
    <3> DEFINE call == [c EXCEPT !.title = @ + 1]
    <3>1. Goto(s, call)
      BY <1>1, <1>4, <2>1, <2>2 DEF NameTaken, At
    <3>2. call \in Call /\ call.step = "name" /\ call # None
      <4>1. call \in Call /\ call.step = "name"
        BY <1>1, <2>1, <2>2, SessionBounds DEF Call, Titles
      <4> QED BY <4>1, NoneIsNoCall
    <3> HIDE DEF call
    <3>3. /\ UNCHANGED <<docs, latest, texts, currentId, docTitle, draft, timer, editor, builtIn>>
          /\ calls'[s] = call
      BY <1>1, <2>1, <3>1, CalmReads
    <3>4. CalmCall(calls[s])'
      BY <1>2, <2>1, <3>2, <3>3 DEF CalmCall, Leaving, Saved, SettledBut, Stored, PageFits
    <3> QED BY <1>1, <2>1, <3>1, <3>2, <3>4, CalmReads
  <2>3. CASE ~(c.title < MaxTitle)
    <3>1. Goto(s, None)
      BY <1>4, <2>3 DEF NameTaken, End
    <3>2. UNCHANGED <<docs, latest, texts, currentId, docTitle, draft, timer, editor, builtIn>>
      BY <1>1, <2>1, <3>1, CalmReads
    <3>3. Rest'
      BY <1>2, <2>1, <3>2 DEF Rest, PageFits, SettledBut, Awaited, Held, Stored
    <3> QED BY <1>1, <2>1, <3>1, <3>3, CalmReads
  <2> QED BY <2>2, <2>3
<1>5. CASE NameFree(s)
  <2> DEFINE call == [On(s, "make") EXCEPT !.then = IF At(s, "name") THEN "lists" ELSE "done"]
  <2>1. Goto(s, call) /\ Stays /\ UNCHANGED page /\ ~isTitleTaken(c.title, None)
    BY <1>5 DEF NameFree
  <2>2. call \in Call /\ call.step = "make" /\ call.title = c.title /\ call # None
    <3>1. call \in Call /\ call.step = "make" /\ call.title = c.title
      BY <1>1 DEF On, Call, Steps
    <3> QED BY <3>1, NoneIsNoCall
  <2> HIDE DEF call
  <2>3. /\ UNCHANGED <<docs, latest, texts, currentId, docTitle, draft, timer, editor, builtIn>>
        /\ calls'[s] = call
    BY <1>1, <2>1, CalmReads
  <2>4. CalmCall(calls[s])'
    BY <1>2, <2>1, <2>2, <2>3 DEF CalmCall, Leaving, Saved, SettledBut, Stored, isTitleTaken
  <2> QED BY <1>1, <2>1, <2>2, <2>4, CalmReads
<1>6. ASSUME NEW i \in Ids, Make(s, i) PROVE CalmInv'
  <2> DEFINE record == [title |-> c.title, content |-> c.text]
  <2>1. /\ c.step = "make" /\ docs' = [docs EXCEPT ![i] = record] /\ i \in Unused
        /\ latest' = [latest EXCEPT ![i] = c.text] /\ texts' = [texts EXCEPT ![i] = {c.text}]
        /\ manner' = manner
    BY <1>6 DEF Make, At, Writes, Served
  <2>3. docs \in Store /\ latest \in [Ids -> Shown \cup {None}] /\ texts \in [Ids -> SUBSET Texts]
    BY DEF OInv, StoreInv, OwnStore, HistoryInv, Histories
  <2>4. record # NoRec /\ record \in Rec
    <3>1. record \in Rec
      BY <1>1 DEF Call, Rec
    <3> QED BY <3>1, NoneIsNoRecord DEF Rec, NoRec, Titles, Shown
  <2>5. /\ docs'[i] = record /\ \A j \in Ids \ {i} : docs'[j] = docs[j]
        /\ Stored' = Stored \cup {i} /\ i \notin Stored
    BY <1>1, <2>1, <2>3, <2>4 DEF Stored, Store, Unused, CalmDocs
  <2>6. CalmDocs'
    BY <1>1, <2>1, <2>3, <2>5 DEF CalmDocs, Stored
  <2>7. SettledBut({})'
    BY <1>2, <2>1, <2>3, <2>5 DEF SettledBut
  <2>8. CASE c.then = "lists"
    <3> DEFINE call == [On(s, "lists") EXCEPT !.id = i, !.found = record]
    <3>1. calls' = [calls EXCEPT ![s] = call] /\ UNCHANGED page
      BY <1>6, <2>8 DEF Make, Goto
    <3>2. call \in Call /\ call.step = "lists" /\ call.id = i /\ call.found = record /\ call # None
      <4>1. call \in Call /\ call.step = "lists" /\ call.id = i /\ call.found = record
        BY <1>1, <2>4 DEF On, Call, Steps
      <4> QED BY <4>1, NoneIsNoCall
    <3> HIDE DEF call
    <3>3. calls'[s] = call
      BY <3>1 DEF OInv, CallsOk
    <3>4. CalmCall(calls[s])'
      BY <1>2, <2>5, <2>7, <3>1, <3>2, <3>3 DEF CalmCall, Leaving, Saved, page
    <3> QED BY <1>1, <2>1, <2>6, <3>1, <3>2, <3>4, CalmGoes DEF page
  <2>9. CASE c.then # "lists"
    <3>1. End(s) /\ applyResult(i, record)
      BY <1>6, <2>9 DEF Make
    <3> QED BY <1>1, <1>2, <2>1, <2>4, <2>5, <2>6, <2>7, <3>1, CalmOpens
  <2> QED BY <2>8, <2>9
<1> QED BY <1>4, <1>5, <1>6

LEMMA CalmOpenSteps ==
    ASSUME OInv, CalmInv, manner = "calm", NEW s \in Slots,
           Open(s) \/ Lists(s) \/ Survivors(s) \/ Reopen(s)
    PROVE  CalmInv'
<1> DEFINE c == calls[s]
<1>1. /\ CalmCall(c) /\ CallOk(texts, c) /\ c \in Call /\ c # None /\ CalmDocs /\ ~builtIn
      /\ c.step \in {"open", "lists", "survivors", "reopen"}
      /\ \A r \in Slots \ {s} : calls[r] = None
  BY CalmAt DEF Open, Lists, Survivors, Reopen, At
<1>2. /\ ~timer /\ SettledBut({})
      /\ c.step = "open" => c.id \in Stored
      /\ c.step \in {"lists", "reopen"} => c.id \in Stored /\ c.found = docs[c.id]
  BY <1>1 DEF CalmCall, Leaving, Saved
<1>3. \A i \in Stored : i \in Ids /\ docs[i] \in Rec /\ docs[i] # NoRec
  BY DEF Stored, OInv, StoreInv, OwnStore, Store
\* On to adopting a record that is there.
<1>4. ASSUME NEW step \in {"lists", "reopen"}, NEW i \in Stored, NEW call, call \in Call,
             call.step = step, call.id = i, call.found = docs[i],
             Goto(s, call), Stays, UNCHANGED page
      PROVE  CalmInv'
  <2>1. /\ UNCHANGED <<docs, latest, texts, currentId, docTitle, draft, timer, editor, builtIn>>
        /\ calls'[s] = call
    BY <1>1, <1>4, CalmReads
  <2>2. CalmCall(calls[s])'
    BY <1>2, <1>4, <2>1 DEF CalmCall, Leaving, Saved, SettledBut, Stored
  <2>3. call # None
    BY <1>4, NoneIsNoCall
  <2> QED BY <1>1, <1>4, <2>2, <2>3, CalmReads
<1>5. CASE Open(s)
  <2> DEFINE call == [On(s, "lists") EXCEPT !.found = docs[c.id]]
  <2>1. c.id \in Stored
    BY <1>2, <1>5 DEF Open, At
  <2>2. call \in Call /\ call.step = "lists" /\ call.id = c.id /\ call.found = docs[c.id]
    BY <1>1, <1>3, <2>1 DEF On, Call, Steps
  <2>3. Goto(s, call) /\ Stays /\ UNCHANGED page
    BY <1>5, <2>1 DEF Open
  <2> HIDE DEF call
  <2> QED BY <1>4, <2>1, <2>2, <2>3
<1>6. CASE Lists(s) \/ Reopen(s)
  <2>1. /\ c.step \in {"lists", "reopen"} /\ End(s) /\ Stays
        /\ applyResult(c.id, docs[c.id])
    BY <1>1, <1>2, <1>6 DEF Lists, Reopen, At
  <2>2. UNCHANGED <<manner, docs, latest, texts>>
    BY <2>1 DEF Stays, Served, store
  <2>3. SettledBut({})' /\ CalmDocs'
    BY <1>1, <1>2, <2>2 DEF SettledBut, CalmDocs, Stored
  <2> QED BY <1>1, <1>2, <1>3, <2>1, <2>2, <2>3, CalmOpens
<1>7. CASE Survivors(s)
  <2>1. Stays /\ UNCHANGED page
    BY <1>7 DEF Survivors
  <2>2. CASE Stored = {}
    <3> DEFINE call == On(s, "welcome")
    <3>1. Goto(s, call)
      BY <1>7, <2>2 DEF Survivors
    <3>2. call \in Call /\ call.step = "welcome" /\ call # None
      <4>1. call \in Call /\ call.step = "welcome"
        BY <1>1 DEF On, Call, Steps
      <4> QED BY <4>1, NoneIsNoCall
    <3> HIDE DEF call
    <3>3. /\ UNCHANGED <<docs, latest, texts, currentId, docTitle, draft, timer, editor, builtIn>>
          /\ calls'[s] = call
      BY <1>1, <2>1, <3>1, CalmReads
    <3>4. CalmCall(calls[s])'
      BY <1>2, <2>2, <3>2, <3>3 DEF CalmCall, Leaving, Saved, SettledBut, Stored
    <3> QED BY <1>1, <2>1, <3>1, <3>2, <3>4, CalmReads
  <2>3. CASE Stored # {}
    <3>1. PICK i \in Stored : Goto(s, [On(s, "reopen") EXCEPT !.id = i, !.found = docs[i]])
      BY <1>7, <2>3 DEF Survivors
    <3> DEFINE call == [On(s, "reopen") EXCEPT !.id = i, !.found = docs[i]]
    <3>2. call \in Call /\ call.step = "reopen" /\ call.id = i /\ call.found = docs[i]
      BY <1>1, <1>3 DEF On, Call, Steps
    <3>3. Goto(s, call)
      BY <3>1
    <3> HIDE DEF call
    <3> QED BY <1>4, <2>1, <3>2, <3>3
  <2> QED BY <2>2, <2>3
<1> QED BY <1>5, <1>6, <1>7

LEMMA CalmDeleteSteps ==
    ASSUME OInv, CalmInv, manner = "calm", NEW s \in Slots, Erase(s) \/ Refresh(s)
    PROVE  CalmInv'
<1> DEFINE c == calls[s]
<1>1. /\ CalmCall(c) /\ CallOk(texts, c) /\ c \in Call /\ c # None /\ CalmDocs /\ ~builtIn
      /\ c.step \in {"erase", "refresh"} /\ \A r \in Slots \ {s} : calls[r] = None
  BY CalmAt DEF Erase, Refresh, At
<1>2. PageFits /\ Held /\ (c.step = "refresh" => SettledBut(Awaited))
  BY <1>1 DEF CalmCall, Leaving
<1>3. CASE Refresh(s)
  <2>1. /\ calls' = [calls EXCEPT ![s] = None] /\ c.step = "refresh"
        /\ UNCHANGED <<manner, docs, latest, texts, currentId, docTitle, timer, builtIn>>
        /\ draft' = (IF editor = None THEN draft ELSE editor) /\ editor' = None
    BY <1>3 DEF Refresh, At, requestEditor, End, Goto, Stays, Served, store
  <2>2. Held'
    <3>1. timer => Content \in Shown /\ (editor = None => draft # None)
      BY TextsDiffer DEF OInv, PageInv, Content, Shown
    <3>2. timer => Content' = Content
      BY <2>1, <3>1, TextsDiffer DEF Content, OInv, PageInv
    <3> QED BY <1>2, <2>1, <3>2 DEF Held
  <2>3. Rest'
    BY <1>2, <2>1, <2>2 DEF Rest, PageFits, SettledBut, Awaited, Stored
  <2>4. CalmDocs' /\ ~builtIn'
    BY <1>1, <2>1 DEF CalmDocs, Stored
  <2> QED BY <1>1, <2>1, <2>3, <2>4, CalmGoes
<1>4. CASE Erase(s)
  <2> DEFINE call == NewCall(c.then, c.goal)
  <2>1. /\ c.step = "erase" /\ docs' = [docs EXCEPT ![c.id] = NoRec]
        /\ latest' = [latest EXCEPT ![c.id] = None]
        /\ UNCHANGED <<manner, texts, currentId, docTitle, draft, timer, editor, builtIn>>
    BY <1>4 DEF Erase, At, Writes, Served, page
  <2>2. /\ SettledBut(Awaited \cup {c.id}) /\ c.id \in Stored
        /\ \/ c.then = "survivors" /\ c.id = currentId /\ ~timer
           \/ c.then = "refresh" /\ c.id # currentId
    BY <1>1, <2>1 DEF CalmCall
  <2>3. /\ docs \in Store /\ latest \in [Ids -> Shown \cup {None}] /\ c.goal \in Ids \cup {None}
    BY <1>1 DEF OInv, StoreInv, OwnStore, HistoryInv, Call
  <2>4. call \in Call /\ call.step = c.then /\ call # None
    <3>1. call \in Call /\ call.step = c.then
      BY <2>2, <2>3, NewCallTyped DEF Steps
    <3> QED BY <3>1, NoneIsNoCall
  <2>5. calls' = [calls EXCEPT ![s] = call]
    BY <1>4, <2>2 DEF Erase, Proceed, Goto
  <2> HIDE DEF call
  <2>6. calls'[s] = call
    BY <2>5 DEF OInv, CallsOk
  <2>7. /\ Stored' = Stored \ {c.id} /\ \A i \in Ids \ {c.id} : docs'[i] = docs[i]
        /\ latest'[c.id] = None /\ \A i \in Ids \ {c.id} : latest'[i] = latest[i]
        /\ c.id \in Ids
    BY <2>1, <2>2, <2>3 DEF Stored, Store
  <2>8. SettledBut(Awaited)' /\ CalmDocs' /\ ~builtIn'
    BY <1>1, <2>1, <2>2, <2>7 DEF SettledBut, Awaited, CalmDocs, Stored
  <2>9. CASE c.then = "refresh"
    <3>1. PageFits' /\ Held'
      <4>1. timer => currentId \in Ids \ {c.id}
        BY <2>2, <2>9 DEF OInv, PageInv
      <4> QED BY <1>2, <2>1, <2>2, <2>7, <2>9, <4>1 DEF PageFits, Held, Content, Stored
    <3>2. CalmCall(calls[s])'
      BY <2>4, <2>6, <2>8, <2>9, <3>1 DEF CalmCall, Leaving, Saved
    <3> QED BY <1>1, <2>1, <2>4, <2>5, <2>8, <3>2, CalmGoes
  <2>10. CASE c.then = "survivors"
    <3>1. CalmCall(calls[s])'
      BY <2>1, <2>2, <2>4, <2>6, <2>8, <2>10 DEF CalmCall, Leaving, Saved, Awaited
    <3> QED BY <1>1, <2>1, <2>4, <2>5, <2>8, <3>1, CalmGoes
  <2> QED BY <2>2, <2>9, <2>10
<1> QED BY <1>1, <1>3, <1>4

LEMMA CalmRewriteSteps ==
    ASSUME OInv, CalmInv, manner = "calm", NEW s \in Slots, Fetch(s) \/ Unique(s) \/ Replace(s)
    PROVE  CalmInv'
<1> DEFINE c == calls[s]
<1>1. /\ CalmCall(c) /\ CallOk(texts, c) /\ c \in Call /\ c # None /\ CalmDocs /\ ~builtIn
      /\ c.step \in {"fetch", "unique", "replace"} /\ \A r \in Slots \ {s} : calls[r] = None
  BY CalmAt DEF Fetch, Unique, Replace, At
<1>2. /\ Rest /\ c.id \in Stored /\ c.id \in Ids /\ docs[c.id] \in Rec
      /\ c.step \in {"unique", "replace"} => c.found = docs[c.id]
      /\ c.step = "fetch" => c.then \in {"unique", "replace"}
  BY <1>1 DEF CalmCall, CallOk, Leaving, Rest, OInv, StoreInv, OwnStore, Stored, Store
<1>3. CASE Fetch(s)
  <2> DEFINE fetched == [On(s, c.then) EXCEPT !.found = docs[c.id]]
             call == IF fetched.step = "unique" THEN fetched
                     ELSE [fetched EXCEPT !.title = docs[c.id].title]
  <2>1. c.step = "fetch" /\ Goto(s, call) /\ Stays /\ UNCHANGED page
    BY <1>2, <1>3 DEF Fetch, At
  <2>2. /\ fetched \in Call /\ fetched.step = c.then /\ fetched.id = c.id /\ fetched.then = c.then
        /\ fetched.found = docs[c.id]
    BY <1>1, <1>2, <2>1 DEF On, Call, Steps
  <2>3. /\ call \in Call /\ call.step = c.then /\ call.id = c.id /\ call.then = c.then
        /\ call.found = docs[c.id]
        /\ call.step = "replace" => call.title = docs[c.id].title
        /\ call # None
    <3>1. /\ call \in Call /\ call.step = c.then /\ call.id = c.id /\ call.then = c.then
          /\ call.found = docs[c.id]
          /\ call.step = "replace" => call.title = docs[c.id].title
      BY <1>2, <2>2 DEF Call, Rec
    <3> QED BY <3>1, NoneIsNoCall
  <2> HIDE DEF call, fetched
  <2>4. /\ UNCHANGED <<docs, latest, texts, currentId, docTitle, draft, timer, editor, builtIn>>
        /\ calls'[s] = call
    BY <1>1, <2>1, CalmReads
  <2>5. Rest' /\ Stored' = Stored
    BY <1>2, <2>4 DEF Rest, PageFits, SettledBut, Awaited, Held, Content, Stored
  <2>6. CalmCall(calls[s])'
    BY <1>2, <2>1, <2>3, <2>4, <2>5 DEF CalmCall, Leaving, Saved, Rest
  <2> QED BY <1>1, <2>1, <2>3, <2>6, CalmReads
<1>4. CASE Unique(s)
  <2>1. c.step = "unique" /\ Stays /\ UNCHANGED page
    BY <1>4 DEF Unique, At
  <2>2. CASE isTitleTaken(c.title, c.id)
    <3>1. Goto(s, None)
      BY <1>4, <2>2 DEF Unique, End
    <3>2. UNCHANGED <<docs, latest, texts, currentId, docTitle, draft, timer, editor, builtIn>>
      BY <1>1, <2>1, <3>1, CalmReads
    <3>3. Rest'
      BY <1>2, <3>2 DEF Rest, PageFits, SettledBut, Awaited, Held, Content, Stored
    <3> QED BY <1>1, <2>1, <3>1, <3>3, CalmReads
  <2>3. CASE ~isTitleTaken(c.title, c.id)
    <3> DEFINE call == On(s, "replace")
    <3>1. Goto(s, call)
      BY <1>4, <2>3 DEF Unique
    <3>2. /\ call \in Call /\ call.step = "replace" /\ call.id = c.id /\ call.then = c.then
          /\ call.found = c.found /\ call.title = c.title /\ call # None
      <4>1. /\ call \in Call /\ call.step = "replace" /\ call.id = c.id /\ call.then = c.then
            /\ call.found = c.found /\ call.title = c.title
        BY <1>1 DEF On, Call, Steps
      <4> QED BY <4>1, NoneIsNoCall
    <3> HIDE DEF call
    <3>3. /\ UNCHANGED <<docs, latest, texts, currentId, docTitle, draft, timer, editor, builtIn>>
          /\ calls'[s] = call
      BY <1>1, <2>1, <3>1, CalmReads
    <3>4. Rest' /\ Stored' = Stored /\ ~isTitleTaken(c.title, c.id)
      BY <1>2, <2>3, <3>3 DEF Rest, PageFits, SettledBut, Awaited, Held, Content, Stored
    <3>5. c.then = "unique"
      BY <1>1, <2>1 DEF CalmCall
    <3>6. CalmCall(calls[s])'
      BY <1>2, <2>1, <3>2, <3>3, <3>4, <3>5 DEF CalmCall, Leaving, Saved, Rest, isTitleTaken
    <3> QED BY <1>1, <2>1, <3>1, <3>2, <3>6, CalmReads
  <2> QED BY <2>2, <2>3
<1>5. CASE Replace(s)
  <2> DEFINE record == [c.found EXCEPT !.title = c.title]
  <2>1. /\ c.step = "replace" /\ docs' = [docs EXCEPT ![c.id] = record]
        /\ UNCHANGED <<manner, latest, texts>>
    BY <1>5 DEF Replace, At, Writes, Served
  <2>2. IF c.then = "replace" THEN c.title = docs[c.id].title ELSE ~isTitleTaken(c.title, c.id)
    BY <1>1, <2>1 DEF CalmCall
  <2>3. record \in Rec /\ record # NoRec /\ record.content = docs[c.id].content /\ record.title = c.title
    <3>1. record \in Rec /\ record.content = docs[c.id].content /\ record.title = c.title
      BY <1>1, <1>2, <2>1 DEF Call, Rec
    <3> QED BY <3>1, NoneIsNoRecord DEF Rec, NoRec, Titles, Shown
  <2> HIDE DEF record
  <2>4. /\ Stored' = Stored /\ docs'[c.id] = record /\ \A i \in Ids \ {c.id} : docs'[i] = docs[i]
    BY <1>2, <2>1, <2>3 DEF Stored, OInv, StoreInv, OwnStore, Store
  <2>5. CalmDocs'
    BY <1>1, <2>1, <2>4 DEF CalmDocs
  <2>6. CASE c.then = "replace"
    <3>1. calls' = [calls EXCEPT ![s] = None]
          /\ UNCHANGED <<currentId, docTitle, draft, timer, editor, builtIn>>
      BY <1>5, <2>6 DEF Replace, End, Goto, page
    <3>2. Rest'
      BY <1>2, <2>1, <2>2, <2>3, <2>4, <2>6, <3>1
         DEF Rest, PageFits, SettledBut, Awaited, Held, Content, Stored
    <3> QED BY <1>1, <2>1, <2>5, <3>1, <3>2, CalmGoes
  <2>7. CASE c.then # "replace"
    <3> DEFINE call == NewCall("refresh", None)
    <3>1. /\ calls' = [calls EXCEPT ![s] = call]
          /\ docTitle' = (IF c.id = currentId THEN c.title ELSE docTitle)
          /\ UNCHANGED <<currentId, draft, timer, editor, builtIn>>
      BY <1>5, <2>7 DEF Replace, Goto
    <3>2. call \in Call /\ call.step = "refresh" /\ call # None
      <4>1. call \in Call /\ call.step = "refresh"
        BY NewCallTyped DEF Steps
      <4> QED BY <4>1, NoneIsNoCall
    <3> HIDE DEF call
    <3>3. calls'[s] = call
      BY <3>1 DEF OInv, CallsOk
    <3>4. Rest'
      BY <1>2, <2>1, <2>3, <2>4, <3>1
         DEF Rest, PageFits, SettledBut, Awaited, Held, Content, Stored
    <3>5. CalmCall(calls[s])'
      BY <3>2, <3>3, <3>4 DEF CalmCall, Leaving, Saved, Rest
    <3> QED BY <1>1, <2>1, <2>5, <3>1, <3>2, <3>5, CalmGoes
  <2> QED BY <2>6, <2>7
<1> QED BY <1>3, <1>4, <1>5

\* A sync run finds every text stored, and the page adopts what it leaves.
LEMMA CalmSyncSteps ==
    ASSUME OInv, CalmInv, manner = "calm", NEW s \in Slots, Sync(s)
    PROVE  CalmInv'
<1> DEFINE c == calls[s]
<1>1. /\ CalmCall(c) /\ CallOk(texts, c) /\ c \in Call /\ c # None /\ CalmDocs /\ ~builtIn
      /\ c.step \in {"network", "prune", "relist", "readopt"}
      /\ \A r \in Slots \ {s} : calls[r] = None
  <2>1. c # None /\ c.step \in {"network", "prune", "relist", "readopt"}
    BY DEF Sync, Pull, PullDeletion, Readopt, SyncEnds, SyncFails, Relist, ReadoptNothing, At
  <2> QED BY <2>1, CalmAt
<1>2. /\ ~timer /\ SettledBut({}) /\ (c.step = "network" => PageFits)
      /\ c.step = "readopt" => c.listed = docs
  BY <1>1 DEF CalmCall, Leaving, Saved
<1>3. /\ docs \in Store /\ latest \in [Ids -> Shown \cup {None}] /\ texts \in [Ids -> SUBSET Texts]
  BY DEF OInv, StoreInv, OwnStore, HistoryInv, Histories
<1>4. ASSUME NEW i \in Ids, NEW t \in Texts, Pull(s, i, t) PROVE CalmInv'
  <2>1. /\ c.step = "network" /\ UNCHANGED <<manner, calls, currentId, docTitle, draft, timer, editor, builtIn>>
        /\ latest' = [latest EXCEPT ![i] = t] /\ texts' = [texts EXCEPT ![i] = @ \cup {t}]
    BY <1>4 DEF Pull, At, Elsewhere, page
  <2>2. PICK record \in Rec :
           /\ docs' = [docs EXCEPT ![i] = record] /\ record.content = t /\ record # NoRec
           /\ i \in Stored => record.title = docs[i].title
    <3>1. CASE i \in Stored
      <4>1. docs[i] \in Rec
        BY <1>3, <3>1 DEF Stored, Store
      <4>2. /\ [docs[i] EXCEPT !.content = t] \in Rec
            /\ [docs[i] EXCEPT !.content = t].content = t
            /\ [docs[i] EXCEPT !.content = t].title = docs[i].title
        BY <4>1 DEF Rec, Shown
      <4>3. docs' = [docs EXCEPT ![i] = [docs[i] EXCEPT !.content = t]]
        BY <1>4, <3>1 DEF Pull, Writes
      <4> QED BY <3>1, <4>2, <4>3, NoneIsNoRecord DEF Rec, NoRec, Titles, Shown
    <3>2. CASE i \notin Stored
      <4>1. PICK title \in Titles : docs' = [docs EXCEPT ![i] = [title |-> title, content |-> t]]
        BY <1>4, <3>2 DEF Pull, Writes
      <4>2. [title |-> title, content |-> t] \in Rec
        BY DEF Rec, Shown
      <4> QED BY <3>2, <4>1, <4>2, NoneIsNoRecord DEF Rec, NoRec, Titles, Shown
    <3> QED BY <3>1, <3>2
  <2>3. /\ docs'[i] = record /\ \A j \in Ids \ {i} : docs'[j] = docs[j]
        /\ Stored' = Stored \cup {i}
    BY <1>3, <2>2 DEF Stored, Store
  <2>4. CalmDocs'
    BY <1>1, <1>3, <2>1, <2>3 DEF CalmDocs, Stored
  <2>5. SettledBut({})'
    BY <1>2, <1>3, <2>1, <2>2, <2>3 DEF SettledBut
  <2>6. PageFits'
    BY <1>2, <2>1, <2>2, <2>3 DEF PageFits, Stored
  <2>7. calls' = [calls EXCEPT ![s] = c] /\ calls'[s] = c
    BY <2>1 DEF OInv, CallsOk
  <2>8. CalmCall(calls[s])'
    BY <1>2, <2>1, <2>5, <2>6, <2>7 DEF CalmCall, Leaving, Saved
  <2> QED BY <1>1, <2>1, <2>4, <2>7, <2>8, CalmGoes
<1>5. ASSUME NEW i \in Ids, PullDeletion(s, i) PROVE CalmInv'
  <2> DEFINE call == On(s, "prune")
  <2>1. /\ calls' = [calls EXCEPT ![s] = call] /\ docs' = [docs EXCEPT ![i] = NoRec]
        /\ latest' = [latest EXCEPT ![i] = None]
        /\ UNCHANGED <<manner, texts, currentId, docTitle, draft, timer, editor, builtIn>>
    BY <1>5 DEF PullDeletion, Goto, Writes, Elsewhere, page
  <2>2. call \in Call /\ call.step = "prune" /\ call # None
    <3>1. call \in Call /\ call.step = "prune"
      BY <1>1 DEF On, Call, Steps
    <3> QED BY <3>1, NoneIsNoCall
  <2> HIDE DEF call
  <2>3. calls'[s] = call
    BY <2>1 DEF OInv, CallsOk
  <2>4. Stored' = Stored \ {i} /\ \A j \in Ids \ {i} : docs'[j] = docs[j]
    BY <1>3, <2>1 DEF Stored, Store
  <2>5. CalmDocs' /\ SettledBut({})'
    BY <1>1, <1>2, <1>3, <2>1, <2>4 DEF CalmDocs, SettledBut, Stored
  <2>6. CalmCall(calls[s])'
    BY <1>2, <2>1, <2>2, <2>3, <2>5 DEF CalmCall, Leaving, Saved
  <2> QED BY <1>1, <2>1, <2>2, <2>5, <2>6, CalmGoes
<1>6. CASE SyncEnds(s) \/ Relist(s)
  <2> DEFINE call == IF Relist(s) THEN [On(s, "readopt") EXCEPT !.listed = docs] ELSE On(s, "relist")
  <2>1. Goto(s, call) /\ Stays /\ UNCHANGED page
    BY <1>6 DEF SyncEnds, Relist
  <2>2. /\ call \in Call /\ call.step \in {"relist", "readopt"} /\ call # None
        /\ call.step = "readopt" => call.listed = docs
    <3>1. /\ call \in Call /\ call.step \in {"relist", "readopt"}
          /\ call.step = "readopt" => call.listed = docs
      BY <1>1, <1>3 DEF On, Call, Steps
    <3> QED BY <3>1, NoneIsNoCall
  <2> HIDE DEF call
  <2>3. /\ UNCHANGED <<docs, latest, texts, currentId, docTitle, draft, timer, editor, builtIn>>
        /\ calls'[s] = call
    BY <1>1, <2>1, CalmReads
  <2>4. CalmCall(calls[s])'
    BY <1>2, <2>2, <2>3 DEF CalmCall, Leaving, Saved, SettledBut, Stored
  <2> QED BY <1>1, <2>1, <2>2, <2>4, CalmReads
<1>7. CASE SyncFails(s)
  <2>1. c.step = "network" /\ Goto(s, None) /\ Stays /\ UNCHANGED page
    BY <1>7 DEF SyncFails, End, At
  <2>2. UNCHANGED <<docs, latest, texts, currentId, docTitle, draft, timer, editor, builtIn>>
    BY <1>1, <2>1, CalmReads
  <2>3. Rest'
    BY <1>2, <2>1, <2>2 DEF Rest, PageFits, SettledBut, Awaited, Held, Stored
  <2> QED BY <1>1, <2>1, <2>3, CalmReads
<1>8. ASSUME NEW i \in Ids, Readopt(s, i) PROVE CalmInv'
  <2>1. /\ c.step = "readopt" /\ docs[i] # NoRec /\ calls' = [calls EXCEPT ![s] = None]
        /\ currentId' = i /\ docTitle' = docs[i].title /\ draft' = docs[i].content
        /\ UNCHANGED <<manner, docs, latest, texts, builtIn>>
        /\ \/ editor' = docs[i].content
           \/ UNCHANGED timer
    BY <1>2, <1>8 DEF Readopt, At, End, Goto, Stays, Served, store
  <2>2. timer' => editor' = docs[i].content
    BY <1>2, <2>1
  <2>3. Held'
    <3>1. docs[i] \in Rec
      BY <1>3, <2>1 DEF Store
    <3>2. docs[i].content # None
      BY <3>1, TextsDiffer DEF Rec, Shown
    <3>3. latest[i] = docs[i].content
      BY <1>2, <2>1 DEF SettledBut, Stored
    <3> QED BY <2>1, <2>2, <3>2, <3>3 DEF Held, Content
  <2>4. Rest'
    BY <1>2, <2>1, <2>3 DEF Rest, PageFits, SettledBut, Stored
  <2>5. CalmDocs' /\ ~builtIn'
    BY <1>1, <2>1 DEF CalmDocs, Stored
  <2> QED BY <1>1, <2>1, <2>4, <2>5, CalmGoes
<1>9. CASE ReadoptNothing(s)
  <2> DEFINE call == [NewCall("survivors", None) EXCEPT !.text = Sample]
  <2>1. Goto(s, call) /\ Stays /\ UNCHANGED page
    BY <1>9 DEF ReadoptNothing
  <2>2. call \in Call /\ call.step = "survivors" /\ call # None
    <3>1. call \in Call /\ call.step = "survivors"
      BY TextsDiffer, SessionBounds DEF NewCall, Call, Titles, Shown, Steps
    <3> QED BY <3>1, NoneIsNoCall
  <2> HIDE DEF call
  <2>3. /\ UNCHANGED <<docs, latest, texts, currentId, docTitle, draft, timer, editor, builtIn>>
        /\ calls'[s] = call
    BY <1>1, <2>1, CalmReads
  <2>4. CalmCall(calls[s])'
    BY <1>2, <2>2, <2>3 DEF CalmCall, Leaving, Saved, SettledBut, Stored
  <2> QED BY <1>1, <2>1, <2>2, <2>4, CalmReads
<1> QED BY <1>4, <1>5, <1>6, <1>7, <1>8, <1>9 DEF Sync

LEMMA StepCalm == OInv /\ CalmInv /\ [Next]_vars => CalmInv'
<1> SUFFICES ASSUME OInv, CalmInv, [Next]_vars, manner' = "calm" PROVE CalmInv'
  BY DEF CalmInv
<1>1. manner' = manner
  BY DEF Next, mountEditor, applySetting, openBuiltin, closeBuiltin, Type, OnPage, UserMay, Starts,
         FireTimer, createDocument, runNow, switchDocument, confirmDelete, Rewrite, renameDocument,
         OnStore, Answer, SaveTitleTaken, SaveTitleFree, SaveWrite, NameTaken, NameFree, Make, Open,
         Lists, Erase, Refresh, Survivors, Reopen, Fetch, Unique, Replace, Stays, Served, Sync,
         PullDeletion, Readopt, Pull, SyncEnds, SyncFails, Relist, ReadoptNothing, Elsewhere, vars
<1>2. CASE UNCHANGED vars
  <2>1. UNCHANGED <<manner, calls, docs, latest, texts, currentId, docTitle, draft, timer, editor, builtIn>>
    BY <1>2 DEF vars, store, page
  <2> QED BY <1>1, <2>1 DEF CalmInv, CalmDocs, OneAtATime, Idle, Rest, PageFits, SettledBut, Awaited,
             Held, Content, Stored, CalmCall, isTitleTaken
<1>3. ASSUME NEW s \in Slots, Answer(s) PROVE CalmInv'
  BY <1>1, <1>3, CalmSaveSteps, CalmCreateSteps, CalmOpenSteps, CalmDeleteSteps, CalmRewriteSteps
     DEF Answer
<1> QED BY <1>1, <1>2, <1>3, CalmPageSteps, CalmStartSteps, CalmSyncSteps DEF Next

LEMMA CalmInvariant == Spec => []CalmInv
<1>1. Spec => []OInv
  BY Invariant
<1> QED BY <1>1, InitCalm, StepCalm, PTL DEF Spec

\* What a calm user has typed, made or received is in storage as soon as nothing
\* is under way and no save is pending, and nothing deleted is, but for what was
\* typed into a document whose title another one has.
THEOREM TypingKept == Spec => []KeptTyping
BY CalmInvariant, CalmImplies, PTL
-----------------------------------------------------------------------------
(* Titles *)

Apart == \A i \in Stored' : \A j \in Namesakes(i)' : j \in Namesakes(i)

\* A write makes no namesakes if it leaves the document's title or takes a free
\* one.
LEMMA WritesApart ==
    ASSUME docs \in Store, NEW i \in Ids, NEW record, Writes(i, record),
           \/ record = NoRec
           \/ i \in Stored /\ record.title = docs[i].title
           \/ ~isTitleTaken(record.title, i)
    PROVE  Apart
<1> SUFFICES ASSUME NEW j \in Stored', NEW k \in Namesakes(j)' PROVE k \in Namesakes(j)
  BY DEF Apart
<1>1. /\ j \in Ids /\ k \in Ids /\ j # k /\ docs'[j] # NoRec /\ docs'[k] # NoRec
      /\ docs'[j].title = docs'[k].title
  BY DEF Stored, Namesakes
<1>2. docs'[i] = record /\ \A h \in Ids \ {i} : docs'[h] = docs[h]
  BY DEF Writes, Store
<1>3. CASE j # i /\ k # i
  BY <1>1, <1>2, <1>3 DEF Namesakes, Stored
<1>4. CASE j = i \/ k = i
  <2>1. record # NoRec
    BY <1>1, <1>2, <1>4
  <2>2. CASE i \in Stored /\ record.title = docs[i].title
    BY <1>1, <1>2, <1>4, <2>2 DEF Namesakes, Stored
  <2>3. CASE ~isTitleTaken(record.title, i)
    BY <1>1, <1>2, <1>4, <2>3 DEF isTitleTaken, Stored
  <2> QED BY <2>1, <2>2, <2>3
<1> QED BY <1>3, <1>4

LEMMA StepTitles ==
    ASSUME OInv, CalmInv, manner = "calm", Next
    PROVE  \A i \in Stored' : \A j \in Namesakes(i)' :
               \/ j \in Namesakes(i)
               \/ {i, j} \cap Stored # {i, j} /\ \E s \in Slots : At(s, "network")
<1>1. docs \in Store
  BY DEF OInv, StoreInv, OwnStore
<1>2. CASE UNCHANGED docs
  BY <1>2 DEF Namesakes, Stored
<1>3. ASSUME NEW s \in Slots, SaveWrite(s) PROVE Apart
  <2>1. CalmCall(calls[s]) /\ calls[s].step = "write"
    BY <1>3, CalmAt DEF SaveWrite, At
  <2>2. calls[s].id \in Stored /\ calls[s].title = docs[calls[s].id].title /\ calls[s].id \in Ids
    BY <2>1 DEF CalmCall, Stored
  <2> QED BY <1>1, <1>3, <2>2, WritesApart DEF SaveWrite
<1>4. ASSUME NEW s \in Slots, NEW i \in Ids, Make(s, i) PROVE Apart
  <2>1. CalmCall(calls[s]) /\ calls[s].step = "make" /\ CalmDocs
    BY <1>4, CalmAt DEF Make, At
  <2>2. ~isTitleTaken(calls[s].title, i)
    BY <2>1, TextsDiffer DEF CalmCall, isTitleTaken, Stored
  <2> QED BY <1>1, <1>4, <2>2, WritesApart DEF Make
<1>5. ASSUME NEW s \in Slots, Erase(s) PROVE Apart
  <2>1. calls[s].id \in Ids
    BY <1>5, CallAt DEF Erase, Steps, CallOk
  <2> QED BY <1>1, <1>5, <2>1, WritesApart DEF Erase
<1>6. ASSUME NEW s \in Slots, Replace(s) PROVE Apart
  <2> DEFINE c == calls[s]
             record == [c.found EXCEPT !.title = c.title]
  <2>1. CalmCall(c) /\ CallOk(texts, c) /\ c \in Call /\ c.step = "replace"
    BY <1>6, CalmAt DEF Replace, At
  <2>2. /\ c.id \in Stored /\ c.id \in Ids
        /\ c.title = docs[c.id].title \/ ~isTitleTaken(c.title, c.id)
    BY <2>1 DEF CalmCall, Stored
  <2>3. record.title = c.title
    BY <2>1 DEF CallOk, Call, Rec
  <2>4. Writes(c.id, record)
    BY <1>6 DEF Replace
  <2> HIDE DEF record
  <2> QED BY <1>1, <2>2, <2>3, <2>4, WritesApart
<1>7. ASSUME NEW s \in Slots, NEW i \in Ids, PullDeletion(s, i) PROVE Apart
  BY <1>1, <1>7, WritesApart DEF PullDeletion
<1>8. ASSUME NEW s \in Slots, NEW i \in Ids, NEW t \in Texts, Pull(s, i, t), i \in Stored
      PROVE  Apart
  <2>1. docs[i] \in Rec /\ Writes(i, [docs[i] EXCEPT !.content = t])
    BY <1>1, <1>8 DEF Pull, Store, Stored
  <2>2. [docs[i] EXCEPT !.content = t].title = docs[i].title
    BY <2>1 DEF Rec
  <2> QED BY <1>1, <1>8, <2>1, <2>2, WritesApart
<1>9. ASSUME NEW s \in Slots, NEW i \in Ids, NEW t \in Texts, Pull(s, i, t), i \notin Stored,
             NEW j \in Stored', NEW k \in Namesakes(j)'
      PROVE  \/ k \in Namesakes(j)
             \/ {j, k} \cap Stored # {j, k} /\ At(s, "network")
  <2>1. \A h \in Ids \ {i} : docs'[h] = docs[h]
    BY <1>1, <1>9 DEF Pull, Writes, Store
  <2>2. At(s, "network")
    BY <1>9 DEF Pull
  <2> QED BY <1>9, <2>1, <2>2 DEF Namesakes, Stored
<1>10. \/ UNCHANGED docs
       \/ \E s \in Slots :
             \/ SaveWrite(s) \/ Erase(s) \/ Replace(s)
             \/ \E i \in Ids : \/ Make(s, i) \/ PullDeletion(s, i)
                               \/ \E t \in Texts : Pull(s, i, t)
  <2>1. CASE mountEditor \/ applySetting \/ openBuiltin \/ closeBuiltin \/ \E t \in Texts : Type(t)
    BY <2>1 DEF mountEditor, store, applySetting, openBuiltin, closeBuiltin, Type, OnPage
  <2>2. ASSUME NEW s \in Slots, Starts(s) PROVE UNCHANGED docs
    BY <2>2 DEF Starts, FireTimer, createDocument, runNow, switchDocument, confirmDelete, Rewrite,
                renameDocument, OnStore, store
  <2>3. ASSUME NEW s \in Slots,
               \/ SaveTitleTaken(s) \/ SaveTitleFree(s) \/ NameTaken(s) \/ NameFree(s)
               \/ Open(s) \/ Lists(s) \/ Refresh(s) \/ Survivors(s) \/ Reopen(s)
               \/ Fetch(s) \/ Unique(s) \/ SyncEnds(s) \/ SyncFails(s) \/ Relist(s)
               \/ ReadoptNothing(s) \/ \E i \in Ids : Readopt(s, i)
        PROVE  UNCHANGED docs
    BY <2>3 DEF SaveTitleTaken, SaveTitleFree, NameTaken, NameFree, Open, Lists, Refresh, Survivors,
                Reopen, Fetch, Unique, SyncEnds, SyncFails, Relist, ReadoptNothing, Readopt, Stays,
                store
  <2> QED BY <2>1, <2>2, <2>3 DEF Next, Answer, Sync
<1> QED BY <1>2, <1>3, <1>4, <1>5, <1>6, <1>7, <1>8, <1>9, <1>10 DEF Apart

\* Creations, copies, renames and saves of a calm user never give a document the
\* title of another one; only a sync run that stores a new document does.
THEOREM TitlesStayUnique == Spec => TitlesUnique
<1>1. OInv /\ CalmInv /\ [Next]_vars =>
        [manner = "calm" =>
           \A i \in Stored' : \A j \in Namesakes(i)' :
               \/ j \in Namesakes(i)
               \/ {i, j} \cap Stored # {i, j} /\ \E s \in Slots : At(s, "network")]_vars
  BY StepTitles
<1> QED BY <1>1, Invariant, CalmInvariant, PTL DEF Spec, TitlesUnique
=============================================================================
