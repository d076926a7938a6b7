------------------------- MODULE FlagEditorProofs -------------------------
(***************************************************************************)
(* Proofs about FlagEditor, for any operators, flags, variants, views and    *)
(* bounds: types, what may break the file, which saves lose an edit, and the  *)
(* spinner.                                                                  *)
(***************************************************************************)
EXTENDS FlagEditor, TLAPS

-----------------------------------------------------------------------------
(* Documents, requests and bags of them.                                    *)

LEMMA PlainType == ASSUME NEW k \in Kind PROVE Plain(k) \in Document /\ Plain(k).kind = k
  BY EditorAssumption DEF Plain, Document

LEMMA NewReadType == NewRead \in Read /\ NewRead.stage = "asked" /\ NewRead.old = FALSE
  BY PlainType DEF NewRead, Read, Kind

LEMMA NewPageType ==
  ASSUME NEW t \in Tab
  PROVE  /\ NewPage(View[t]) \in Page /\ NewPage(View[t]).view = View[t]
         /\ NewPage(View[t]).doc.kind = "null" /\ NewPage(View[t]).base = 0
  BY PlainType, EditorAssumption DEF NewPage, Page, Kind

LEMMA UpdatedType ==
  ASSUME NEW doc \in Document, NEW f \in Flag, NEW v \in Variant
  PROVE  /\ Updated(doc, f, v) \in Document /\ Updated(doc, f, v).kind = doc.kind
         /\ \A g \in Flag \ {f} : Updated(doc, f, v).flags[g] = doc.flags[g]
  BY DEF Updated, Document

\* The requests of a save by its stage.
Sent ==
  [stage : {"sent", "writing"}, tab : Tab, heard : BOOLEAN, doc : Document,
   base : Nat, edited : SUBSET Flag, crossed : BOOLEAN]

Told == [stage : {"ok", "refused", "lost"}, tab : Tab, heard : {TRUE}, version : Nat]

LEMMA SaveStates ==
  ASSUME NEW x \in SaveState
  PROVE  /\ x.stage \in {"idle", "sent", "writing", "ok", "refused", "lost"}
         /\ x.stage \in {"sent", "writing"} => x \in Sent
         /\ x.stage \in {"ok", "refused", "lost"} => x \in Told
  BY DEF SaveState, Sent, Told

LEMMA SaveTypes ==
  /\ [stage |-> "idle"] \in SaveState
  /\ \A x \in Sent \union Told : x \in SaveState
  BY DEF SaveState, Sent, Told

\* What is in a bag after it lost a request, got one, or got two new ones.
LEMMA RemovedFrom ==
  ASSUME NEW b, NEW r
  PROVE  BagToSet(b (-) SetToBag({r})) \subseteq BagToSet(b)
  BY DEF BagToSet, SetToBag, (-)

LEMMA AddedTo ==
  ASSUME NEW b, NEW r
  PROVE  BagToSet(b (+) SetToBag({r})) = BagToSet(b) \union {r}
  BY DEF BagToSet, SetToBag, (+)

LEMMA ReloadedInto ==
  ASSUME NEW b
  PROVE  BagToSet(ReloadData(b)) = BagToSet(b) \union {NewRead}
  BY DEF BagToSet, ReloadData, (+)

LEMMA AgedBag ==
  ASSUME NEW b
  PROVE  BagToSet(BagOfAll(Old, b)) = {Old(r) : r \in BagToSet(b)}
  BY DEF BagToSet, BagOfAll

LEMMA SingleBags == BagToSet(EmptyBag) = {} /\ BagToSet(FirstRead) = {NewRead}
  BY DEF BagToSet, EmptyBag, FirstRead, SetToBag

LEMMA OldFields ==
  ASSUME NEW r \in Read
  PROVE  /\ Old(r) \in Read /\ Old(r).old /\ Old(r).stage = r.stage
         /\ Old(r).doc = r.doc /\ Old(r).version = r.version
  BY DEF Old, Read

-----------------------------------------------------------------------------
(* The steps.                                                               *)

LEMMA Steps ==
  ASSUME [Next]_vars
  PROVE  \/ \E t \in Tab : \/ Load(t)
                          \/ (\E f \in Flag, v \in Variant : SelectVariant(t, f, v)) \/ TypeText(t)
                          \/ SaveBasic(t) \/ SaveAdvanced(t)
                          \/ SchemaAnswers(t, TRUE) \/ SchemaAnswers(t, FALSE)
                          \/ \E r \in BagToSet(reads[t]) :
                               ServeRead(t, r) \/ ReadArrives(t, r) \/ ReadFails(t, r)
         \/ \E s \in Save : \/ BeginWrite(s) \/ EndWrite(s) \/ WriteFails(s) \/ Refuse(s)
                           \/ Answered(s) \/ Unanswered(s)
         \/ UNCHANGED vars
  BY DEF Next, Operator, Reading, Saving

LEMMA PageFacts ==
  ASSUME TypeOK, NEW t \in Tab
  PROVE  /\ page[t] \in Page /\ page[t].doc \in Document
         /\ page[t].base \in Nat /\ page[t].edited \subseteq Flag
         /\ page[t].view \in {"basic", "advanced"}
         /\ own[t] \in Nat /\ loading[t] \in BOOLEAN
  BY DEF TypeOK, Page

LEMMA ReadFacts ==
  ASSUME TypeOK, NEW t \in Tab, NEW r \in BagToSet(reads[t])
  PROVE  /\ r \in Read /\ r.doc \in Document /\ r.version \in Nat /\ r.old \in BOOLEAN
         /\ r.stage \in {"asked", "answered"}
<1>1. r \in Read
  BY DEF TypeOK
<1>2. QED
  BY <1>1 DEF Read

LEMMA SaveFacts ==
  ASSUME TypeOK, NEW s \in Save
  PROVE  /\ saves[s] \in SaveState
         /\ saves[s].stage \in {"idle", "sent", "writing", "ok", "refused", "lost"}
         /\ saves[s].stage \in {"sent", "writing"} => saves[s] \in Sent
         /\ saves[s].stage \in {"ok", "refused", "lost"} => saves[s] \in Told
<1>1. saves[s] \in SaveState
  BY DEF TypeOK
<1>2. QED
  BY <1>1, SaveStates

\* An edit replaces the document of one page; flags it does not count as edited
\* stay, and what was no document of flags before is edited altogether.
EditTo(t, doc, flags) ==
  /\ page' = [page EXCEPT ![t] = [page[t] EXCEPT !.doc = doc, !.edited = @ \union flags]]
  /\ UNCHANGED <<file, version, kept, overwrote, loading, schema, reads, saves, clicks,
                 causes, stuck, own, behind>>
  /\ page[t].doc.kind = "error" => flags = Flag
  /\ \A g \in Flag \ flags : doc.flags[g] = page[t].doc.flags[g]
  /\ page[t].doc.kind # "null" /\ ~Crashed(page[t])
  /\ page[t].view = "basic" => doc.kind = "flags"
  /\ doc.kind \in {"flags", "odd", "broken"}

LEMMA EditStep ==
  ASSUME TypeOK, NEW t \in Tab,
         (\E f \in Flag, v \in Variant : SelectVariant(t, f, v)) \/ TypeText(t)
  PROVE  \E doc \in Document, flags \in SUBSET Flag : EditTo(t, doc, flags)
<1>0. page \in [Tab -> Page] /\ page[t].doc \in Document /\ page[t].view \in {"basic", "advanced"}
  BY PageFacts DEF TypeOK
<1>1. ASSUME NEW doc, NEW flags, Edit(t, doc, flags)
      PROVE  /\ page' = [page EXCEPT ![t] = [page[t] EXCEPT !.doc = doc, !.edited = @ \union flags]]
             /\ UNCHANGED <<file, version, kept, overwrote, loading, schema, reads, saves, clicks,
                            causes, stuck, own, behind>>
             /\ ~Crashed(page[t])
  <2>1. page' = [page EXCEPT ![t].doc = doc, ![t].edited = @ \union flags]
    BY <1>1 DEF Edit
  <2>2. page' = [page EXCEPT ![t] = [page[t] EXCEPT !.doc = doc, !.edited = @ \union flags]]
    BY <1>0, <2>1
  <2>3. QED
    BY <1>1, <2>2 DEF Edit, Usable, fileVars
<1>2. ASSUME NEW f \in Flag, NEW v \in Variant, page[t].doc.kind = "flags",
             Edit(t, Updated(page[t].doc, f, v), {f})
      PROVE  \E doc \in Document, flags \in SUBSET Flag : EditTo(t, doc, flags)
  <2> DEFINE doc == Updated(page[t].doc, f, v)
  <2>1. doc \in Document /\ doc.kind = "flags" /\ \A g \in Flag \ {f} : doc.flags[g] = page[t].doc.flags[g]
    BY <1>0, <1>2, UpdatedType
  <2>2. EditTo(t, doc, {f})
    BY <1>1, <1>2, <2>1 DEF EditTo
  <2> HIDE DEF doc
  <2>3. QED
    BY <2>1, <2>2
<1>3. ASSUME page[t].view = "advanced", page[t].doc.kind # "null",
             NEW k \in {"flags", "odd", "broken"},
             Edit(t, [page[t].doc EXCEPT !.kind = k], IF page[t].doc.kind = "error" THEN Flag ELSE {})
      PROVE  \E doc \in Document, flags \in SUBSET Flag : EditTo(t, doc, flags)
  <2> DEFINE doc == [page[t].doc EXCEPT !.kind = k]
             flags == IF page[t].doc.kind = "error" THEN Flag ELSE {}
  <2>1. doc \in Document /\ doc.kind = k /\ doc.flags = page[t].doc.flags /\ flags \subseteq Flag
    BY <1>0 DEF Document, Kind
  <2>2. /\ page[t].doc.kind = "error" => flags = Flag
        /\ \A g \in Flag \ flags : doc.flags[g] = page[t].doc.flags[g]
    BY <2>1
  <2>3. /\ page' = [page EXCEPT ![t] = [page[t] EXCEPT !.doc = doc, !.edited = @ \union flags]]
        /\ UNCHANGED <<file, version, kept, overwrote, loading, schema, reads, saves, clicks,
                       causes, stuck, own, behind>>
        /\ ~Crashed(page[t])
    BY <1>1, <1>3
  <2> HIDE DEF doc, flags
  <2>4. EditTo(t, doc, flags)
    BY <1>3, <2>1, <2>2, <2>3 DEF EditTo
  <2>5. QED
    BY <2>1, <2>4
<1>4. QED
  BY <1>2, <1>3 DEF SelectVariant, TypeText

\* A click sends one save, with what the page holds.
NewSave(t) ==
  [stage |-> "sent", tab |-> t, heard |-> TRUE, doc |-> page[t].doc,
   base |-> page[t].base, edited |-> page[t].edited, crossed |-> FALSE]

LEMMA ClickStep ==
  ASSUME TypeOK, NEW t \in Tab, Click(t)
  PROVE  /\ UNCHANGED <<file, version, kept, overwrote, page, schema, reads, stuck, own, behind>>
         /\ ~Crashed(page[t]) /\ loading' = [loading EXCEPT ![t] = TRUE]
         /\ clicks' = clicks + 1 /\ clicks' \in Save
         /\ NewSave(t) \in Sent /\ saves' = [saves EXCEPT ![clicks'] = NewSave(t)]
<1>1. clicks' \in Save /\ clicks' = clicks + 1
  BY EditorAssumption DEF TypeOK, Click, Save
<1>2. NewSave(t) \in Sent
  BY PageFacts DEF NewSave, Sent
<1>3. QED
  BY <1>1, <1>2 DEF Click, Usable, NewSave, fileVars, pageVars

\* A save ends: it is told of or forgotten, and writes under way are crossed.
LEMMA CloseStep ==
  ASSUME TypeOK, NEW s \in Save, saves[s].stage \in {"sent", "writing"}, version' \in Nat,
         NEW how \in {"ok", "refused", "lost"}, Close(s, how)
  PROVE  /\ saves' \in [Save -> SaveState]
         /\ \/ saves[s].heard /\ saves'[s] = [stage |-> how, tab |-> saves[s].tab, heard |-> TRUE,
                                           version |-> IF how = "ok" THEN version' ELSE 0]
            \/ ~saves[s].heard /\ saves'[s] = [stage |-> "idle"]
         /\ \A u \in Save \ {s} :
              \/ saves'[u] = saves[u]
              \/ {s, u} \subseteq Writing /\ saves'[u] = [saves[u] EXCEPT !.crossed = TRUE]
<1>1. saves[s] \in Sent
  BY SaveFacts
<1>2. saves[s].heard \in BOOLEAN /\ saves[s].tab \in Tab
  BY <1>1 DEF Sent
<1>3. saves' = [u \in Save |->
        IF u = s THEN IF saves[s].heard
                      THEN [stage |-> how, tab |-> saves[s].tab, heard |-> TRUE,
                            version |-> IF how = "ok" THEN version' ELSE 0]
                      ELSE [stage |-> "idle"]
        ELSE IF {s, u} \subseteq Writing THEN [saves[u] EXCEPT !.crossed = TRUE] ELSE saves[u]]
  BY DEF Close
<1>4. \/ saves[s].heard /\ saves'[s] = [stage |-> how, tab |-> saves[s].tab, heard |-> TRUE,
                                     version |-> IF how = "ok" THEN version' ELSE 0]
      \/ ~saves[s].heard /\ saves'[s] = [stage |-> "idle"]
  BY <1>2, <1>3
<1>5. saves'[s] \in SaveState
  <2>1. [stage |-> how, tab |-> saves[s].tab, heard |-> TRUE,
         version |-> IF how = "ok" THEN version' ELSE 0] \in Told
    BY <1>2 DEF Told
  <2>2. QED
    BY <1>4, <2>1, SaveTypes
<1>6. ASSUME NEW u \in Save \ {s}
      PROVE  /\ saves'[u] \in SaveState
             /\ \/ saves'[u] = saves[u]
                \/ {s, u} \subseteq Writing /\ saves'[u] = [saves[u] EXCEPT !.crossed = TRUE]
  <2>1. CASE {s, u} \subseteq Writing
    <3>1. saves[u] \in Sent /\ saves'[u] = [saves[u] EXCEPT !.crossed = TRUE]
      BY <1>3, <2>1, SaveFacts DEF Writing
    <3>2. [saves[u] EXCEPT !.crossed = TRUE] \in Sent
      BY <3>1 DEF Sent
    <3>3. QED
      BY <2>1, <3>1, <3>2, SaveTypes
  <2>2. CASE ~({s, u} \subseteq Writing)
    BY <1>3, <2>2, SaveFacts
  <2>3. QED
    BY <2>1, <2>2
<1>7. QED
  BY <1>3, <1>4, <1>5, <1>6

\* Every step keeps the types.
LEMMA TypeStep == TypeOK /\ [Next]_vars => TypeOK'
<1> SUFFICES ASSUME TypeOK, [Next]_vars PROVE TypeOK'
  OBVIOUS
<1>0. /\ file \in Document /\ kept \in Document /\ version \in Nat /\ clicks \in 0..MaxSaves
      /\ page \in [Tab -> Page] /\ loading \in [Tab -> BOOLEAN]
      /\ schema \in [Tab -> [pending : Nat, failed : BOOLEAN]]
      /\ DOMAIN reads = Tab /\ \A t \in Tab : BagToSet(reads[t]) \subseteq Read
      /\ saves \in [Save -> SaveState] /\ stuck \subseteq Tab /\ behind \subseteq Tab
      /\ own \in [Tab -> Nat] /\ MaxSaves \in Nat
  BY EditorAssumption DEF TypeOK
<1>1. ASSUME NEW t \in Tab, Load(t) PROVE TypeOK'
  <2>1. page' \in [Tab -> Page] /\ loading' \in [Tab -> BOOLEAN]
        /\ schema' \in [Tab -> [pending : Nat, failed : BOOLEAN]] /\ own' \in [Tab -> Nat]
    BY <1>0, <1>1, NewPageType DEF Load, NewSchema
  <2>2. DOMAIN reads' = Tab /\ \A u \in Tab : BagToSet(reads'[u]) \subseteq Read
    BY <1>0, <1>1, SingleBags, NewReadType DEF Load
  <2>3. saves' \in [Save -> SaveState]
    <3>1. ASSUME NEW s \in Save, saves[s].stage \in {"sent", "writing"}
          PROVE  [saves[s] EXCEPT !.heard = FALSE] \in SaveState
      <4>1. saves[s] \in Sent
        BY <3>1, SaveFacts
      <4>2. [saves[s] EXCEPT !.heard = FALSE] \in Sent
        BY <4>1 DEF Sent
      <4>3. QED
        BY <4>2, SaveTypes
    <3>2. saves' = [s \in Save |->
                      IF saves[s].stage = "idle" \/ saves[s].tab # t THEN saves[s]
                      ELSE IF saves[s].stage \in {"sent", "writing"}
                           THEN [saves[s] EXCEPT !.heard = FALSE] ELSE [stage |-> "idle"]]
      BY <1>1 DEF Load
    <3>3. QED
      BY <1>0, <3>1, <3>2, SaveTypes
  <2>4. UNCHANGED <<file, version, kept, clicks>> /\ stuck' \subseteq Tab /\ behind' \subseteq Tab
    BY <1>0, <1>1 DEF Load, fileVars
  <2>5. QED
    BY <1>0, <2>1, <2>2, <2>3, <2>4 DEF TypeOK
<1>2. ASSUME NEW t \in Tab, NEW doc \in Document, NEW flags \in SUBSET Flag, EditTo(t, doc, flags)
      PROVE  TypeOK'
  <2>1. [page[t] EXCEPT !.doc = doc, !.edited = @ \union flags] \in Page
    BY PageFacts DEF Page
  <2>2. page' \in [Tab -> Page]
    BY <1>0, <1>2, <2>1 DEF EditTo
  <2>3. QED
    BY <1>0, <1>2, <2>2 DEF EditTo, TypeOK
<1>3. ASSUME NEW t \in Tab, Click(t) PROVE TypeOK'
  <2>0. /\ clicks' \in Save /\ loading' = [loading EXCEPT ![t] = TRUE]
        /\ NewSave(t) \in Sent /\ saves' = [saves EXCEPT ![clicks'] = NewSave(t)]
    BY <1>3, ClickStep
  <2>1. clicks' \in 0..MaxSaves /\ loading' \in [Tab -> BOOLEAN]
    BY <1>0, <2>0 DEF Save
  <2>3. saves' \in [Save -> SaveState]
    BY <1>0, <2>0, SaveTypes
  <2>2. UNCHANGED <<file, version, kept, page, schema, reads, stuck, own, behind>>
    BY <1>3, ClickStep
  <2>4. QED
    BY <1>0, <2>1, <2>2, <2>3 DEF TypeOK
<1>4. ASSUME NEW t \in Tab, NEW ok \in BOOLEAN, SchemaAnswers(t, ok) PROVE TypeOK'
  <2>1. schema[t].pending \in Nat /\ schema[t].pending > 0 /\ schema[t].failed \in BOOLEAN
    BY <1>0, <1>4 DEF SchemaAnswers
  <2>2. schema' \in [Tab -> [pending : Nat, failed : BOOLEAN]]
    <3> DEFINE failed == schema[t].failed \/ ~ok
               pending == schema[t].pending - 1
               new == [schema[t] EXCEPT !.pending = pending, !.failed = failed]
    <3>1. failed \in BOOLEAN /\ pending \in Nat /\ schema[t] \in [pending : Nat, failed : BOOLEAN]
      BY <1>0, <2>1
    <3>2. schema' = [schema EXCEPT ![t] = new]
      BY <1>0, <1>4 DEF SchemaAnswers
    <3> HIDE DEF failed, pending
    <3>3. new \in [pending : Nat, failed : BOOLEAN]
      BY <3>1
    <3> HIDE DEF new
    <3>4. QED
      BY <1>0, <3>2, <3>3
  <2>3. loading' \in [Tab -> BOOLEAN] /\ stuck' \subseteq Tab
    BY <1>0, <1>4, PageFacts DEF SchemaAnswers
  <2>4. QED
    BY <1>0, <1>4, <2>2, <2>3 DEF SchemaAnswers, fileVars, TypeOK
<1>5. ASSUME NEW t \in Tab, NEW r \in BagToSet(reads[t]), ServeRead(t, r) PROVE TypeOK'
  <2> DEFINE doc == IF file.kind = "broken" THEN Plain("error") ELSE file
             new == [r EXCEPT !.stage = "answered", !.version = version, !.doc = doc]
  <2>0. doc \in Document /\ r \in Read
    BY <1>0, PlainType, ReadFacts DEF Kind
  <2> HIDE DEF doc
  <2>1. new \in Read
    BY <1>0, <2>0 DEF Read
  <2> USE DEF doc
  <2>2. reads' = [reads EXCEPT ![t] = (@ (-) SetToBag({r})) (+) SetToBag({new})]
    BY <1>5 DEF ServeRead, Replace
  <2> HIDE DEF doc, new
  <2>3. BagToSet(reads'[t]) \subseteq BagToSet(reads[t]) \union {new}
    <3> DEFINE rest == reads[t] (-) SetToBag({r})
    <3>1. reads'[t] = rest (+) SetToBag({new})
      BY <1>0, <2>2
    <3>2. BagToSet(rest) \subseteq BagToSet(reads[t])
      BY RemovedFrom
    <3> HIDE DEF rest
    <3>3. QED
      BY <3>1, <3>2, AddedTo
  <2>4. DOMAIN reads' = Tab /\ \A u \in Tab : BagToSet(reads'[u]) \subseteq Read
    BY <1>0, <2>1, <2>2, <2>3
  <2>5. QED
    BY <1>0, <1>5, <2>4 DEF ServeRead, fileVars, bounds, TypeOK
<1>6. ASSUME NEW t \in Tab, NEW r \in BagToSet(reads[t]), ReadArrives(t, r) PROVE TypeOK'
  <2>1. page' \in [Tab -> Page]
    BY <1>0, <1>6, PageFacts, ReadFacts DEF ReadArrives, TextAfter, Page
  <2>2. DOMAIN reads' = Tab /\ \A u \in Tab : BagToSet(reads'[u]) \subseteq Read
    BY <1>0, <1>6, RemovedFrom, SingleBags DEF ReadArrives
  <2>3. QED
    BY <1>0, <1>6, <2>1, <2>2 DEF ReadArrives, fileVars, bounds, TypeOK
<1>7. ASSUME NEW t \in Tab, NEW r \in BagToSet(reads[t]), ReadFails(t, r) PROVE TypeOK'
  <2>1. DOMAIN reads' = Tab /\ \A u \in Tab : BagToSet(reads'[u]) \subseteq Read
    BY <1>0, <1>7, RemovedFrom DEF ReadFails
  <2>2. QED
    BY <1>0, <1>7, <2>1 DEF ReadFails, fileVars, TypeOK
<1>8. ASSUME NEW s \in Save, BeginWrite(s) PROVE TypeOK'
  <2>1. saves[s] \in Sent
    BY <1>8, SaveFacts DEF BeginWrite
  <2>2. [saves[s] EXCEPT !.stage = "writing"] \in Sent
    BY <2>1 DEF Sent
  <2>3. saves' = [saves EXCEPT ![s] = [saves[s] EXCEPT !.stage = "writing"]]
    BY <1>0, <1>8 DEF BeginWrite
  <2>4. saves' \in [Save -> SaveState]
    BY <1>0, <2>2, <2>3, SaveTypes
  <2>5. file' \in Document
    BY <1>8, PlainType DEF BeginWrite, Kind
  <2>6. QED
    BY <1>0, <1>8, <2>4, <2>5 DEF BeginWrite, pageVars, bounds, TypeOK
<1>9. ASSUME NEW s \in Save, EndWrite(s) PROVE TypeOK'
  <2>1. saves[s] \in Sent /\ saves[s].doc \in Document /\ saves[s].stage = "writing"
    BY <1>9, SaveFacts DEF EndWrite, Sent
  <2>2. version' \in Nat /\ file' \in Document /\ kept' \in Document
    BY <1>0, <1>9, <2>1, PlainType DEF EndWrite, Kind
  <2>3. saves' \in [Save -> SaveState]
    BY <1>9, <2>1, <2>2, CloseStep DEF EndWrite
  <2>4. QED
    BY <1>0, <1>9, <2>2, <2>3 DEF EndWrite, pageVars, TypeOK
<1>10. ASSUME NEW s \in Save, WriteFails(s) \/ Refuse(s) PROVE TypeOK'
  <2>1. saves' \in [Save -> SaveState]
    BY <1>0, <1>10, CloseStep DEF WriteFails, Refuse, fileVars
  <2>2. QED
    BY <1>0, <1>10, <2>1 DEF WriteFails, Refuse, fileVars, pageVars, TypeOK
<1>11. ASSUME NEW s \in Save, Answered(s) PROVE TypeOK'
  <2> DEFINE t == saves[s].tab
  <2>1. saves[s] \in Told /\ t \in Tab /\ saves[s].version \in Nat
    BY <1>11, SaveFacts DEF Answered, Told
  <2>2. reads' = [reads EXCEPT ![t] = IF Crashed(page[t]) THEN EmptyBag
                                                          ELSE ReloadData(BagOfAll(Old, @))]
    BY <1>11 DEF Answered
  <2>3. BagToSet(ReloadData(BagOfAll(Old, reads[t]))) = {Old(r) : r \in BagToSet(reads[t])} \union {NewRead}
    BY ReloadedInto, AgedBag
  <2>4. BagToSet(ReloadData(BagOfAll(Old, reads[t]))) \subseteq Read
    BY <2>1, <2>3, ReadFacts, OldFields, NewReadType
  <2>5. DOMAIN reads' = Tab /\ \A u \in Tab : BagToSet(reads'[u]) \subseteq Read
    BY <1>0, <2>1, <2>2, <2>4, SingleBags
  <2>6. saves' \in [Save -> SaveState] /\ loading' \in [Tab -> BOOLEAN] /\ own' \in [Tab -> Nat]
    BY <1>0, <1>11, <2>1, SaveTypes DEF Answered
  <2>7. QED
    BY <1>0, <1>11, <2>5, <2>6 DEF Answered, fileVars, bounds, TypeOK
<1>12. ASSUME NEW s \in Save, Unanswered(s) PROVE TypeOK'
  <2>1. saves[s].tab \in Tab
    BY <1>12, SaveFacts DEF Unanswered, Told
  <2>2. saves' \in [Save -> SaveState] /\ loading' \in [Tab -> BOOLEAN] /\ stuck' \subseteq Tab
    BY <1>0, <1>12, <2>1, SaveTypes DEF Unanswered
  <2>3. QED
    BY <1>0, <1>12, <2>2 DEF Unanswered, fileVars, pageVars, bounds, TypeOK
<1>13. CASE UNCHANGED vars
  BY <1>0, <1>13 DEF vars, TypeOK
<1>14. ASSUME NEW t \in Tab, (\E f \in Flag, v \in Variant : SelectVariant(t, f, v)) \/ TypeText(t)
       PROVE  TypeOK'
  BY <1>2, <1>14, EditStep
<1>15. ASSUME NEW t \in Tab, SaveBasic(t) \/ SaveAdvanced(t) PROVE TypeOK'
  BY <1>3, <1>15 DEF SaveBasic, SaveAdvanced
<1>16. QED
  BY <1>1, <1>4, <1>5, <1>6, <1>7, <1>8, <1>9, <1>10, <1>11, <1>12, <1>13, <1>14, <1>15, Steps

LEMMA InitTypes == Init => TypeOK
<1> SUFFICES ASSUME Init PROVE TypeOK
  OBVIOUS
<1>1. file \in Document /\ kept \in Document
  BY PlainType DEF Init, Kind
<1>2. version \in Nat /\ clicks \in 0..MaxSaves /\ own \in [Tab -> Nat]
      /\ stuck \subseteq Tab /\ behind \subseteq Tab
  BY EditorAssumption DEF Init
<1>3. page \in [Tab -> Page] /\ loading \in [Tab -> BOOLEAN]
      /\ schema \in [Tab -> [pending : Nat, failed : BOOLEAN]]
  BY NewPageType DEF Init, NewSchema
<1>4. DOMAIN reads = Tab /\ \A u \in Tab : BagToSet(reads[u]) \subseteq Read
  BY SingleBags, NewReadType DEF Init
<1>5. saves \in [Save -> SaveState]
  BY SaveTypes DEF Init
<1>6. QED
  BY <1>1, <1>2, <1>3, <1>4, <1>5 DEF TypeOK

-----------------------------------------------------------------------------
(* What a step does with a page, a request to read, a save, and the file.   *)

Underway == {"sent", "writing"}

LEMMA FileSteps ==
  ASSUME TypeOK, [Next]_vars
  PROVE  \/ UNCHANGED <<file, version, kept, overwrote>>
         \/ \E s \in Save : BeginWrite(s) \/ EndWrite(s)
<1>1. ASSUME NEW t \in Tab,
             Load(t) \/ SchemaAnswers(t, TRUE) \/ SchemaAnswers(t, FALSE)
      PROVE  UNCHANGED <<file, version, kept, overwrote>>
  BY <1>1 DEF Load, SchemaAnswers, fileVars
<1>2. ASSUME NEW t \in Tab, (\E f \in Flag, v \in Variant : SelectVariant(t, f, v)) \/ TypeText(t)
      PROVE  UNCHANGED <<file, version, kept, overwrote>>
  BY <1>2, EditStep DEF EditTo
<1>3. ASSUME NEW t \in Tab, SaveBasic(t) \/ SaveAdvanced(t)
      PROVE  UNCHANGED <<file, version, kept, overwrote>>
  BY <1>3, ClickStep DEF SaveBasic, SaveAdvanced
<1>4. ASSUME NEW t \in Tab, NEW r, ServeRead(t, r) \/ ReadArrives(t, r) \/ ReadFails(t, r)
      PROVE  UNCHANGED <<file, version, kept, overwrote>>
  BY <1>4 DEF ServeRead, ReadArrives, ReadFails, fileVars
<1>5. ASSUME NEW s \in Save, WriteFails(s) \/ Refuse(s) \/ Answered(s) \/ Unanswered(s)
      PROVE  UNCHANGED <<file, version, kept, overwrote>>
  BY <1>5 DEF WriteFails, Refuse, Answered, Unanswered, fileVars
<1>6. ASSUME UNCHANGED vars PROVE UNCHANGED <<file, version, kept, overwrote>>
  BY <1>6 DEF vars
<1>7. QED
  BY <1>1, <1>2, <1>3, <1>4, <1>5, <1>6, Steps

LEMMA PageSteps ==
  ASSUME TypeOK, [Next]_vars, NEW t \in Tab
  PROVE  \/ page'[t] = page[t]
         \/ Load(t) /\ page'[t] = NewPage(View[t])
         \/ \E doc \in Document, flags \in SUBSET Flag :
              /\ EditTo(t, doc, flags)
              /\ page'[t] = [page[t] EXCEPT !.doc = doc, !.edited = @ \union flags]
         \/ \E r \in BagToSet(reads[t]) :
              /\ ReadArrives(t, r) /\ r.stage = "answered"
              /\ page'[t] = [page[t] EXCEPT !.doc = r.doc, !.base = r.version, !.edited = {}]
<1>0. page \in [Tab -> Page]
  BY DEF TypeOK
<1>1. ASSUME NEW u \in Tab, Load(u) PROVE page'[t] = page[t] \/ (Load(t) /\ page'[t] = NewPage(View[t]))
  BY <1>0, <1>1 DEF Load
<1>2. ASSUME NEW u \in Tab, (\E f \in Flag, v \in Variant : SelectVariant(u, f, v)) \/ TypeText(u)
      PROVE  \/ page'[t] = page[t]
             \/ \E doc \in Document, flags \in SUBSET Flag :
                  /\ EditTo(t, doc, flags)
                  /\ page'[t] = [page[t] EXCEPT !.doc = doc, !.edited = @ \union flags]
  <2>1. PICK doc \in Document, flags \in SUBSET Flag : EditTo(u, doc, flags)
    BY <1>2, EditStep
  <2>2. page' = [page EXCEPT ![u] = [page[u] EXCEPT !.doc = doc, !.edited = @ \union flags]]
    BY <2>1 DEF EditTo
  <2>3. QED
    BY <1>0, <2>1, <2>2
<1>3. ASSUME NEW u \in Tab, NEW r \in BagToSet(reads[u]), ReadArrives(u, r)
      PROVE  \/ page'[t] = page[t]
             \/ /\ ReadArrives(t, r) /\ r.stage = "answered" /\ r \in BagToSet(reads[t])
                /\ page'[t] = [page[t] EXCEPT !.doc = r.doc, !.base = r.version, !.edited = {}]
  BY <1>0, <1>3 DEF ReadArrives, TextAfter
<1>4. ASSUME NEW u \in Tab, \/ SchemaAnswers(u, TRUE) \/ SchemaAnswers(u, FALSE)
                           \/ SaveBasic(u) \/ SaveAdvanced(u)
      PROVE  page' = page
  BY <1>4, ClickStep DEF SchemaAnswers, SaveBasic, SaveAdvanced
<1>5. ASSUME NEW u \in Tab, NEW r, ServeRead(u, r) \/ ReadFails(u, r) PROVE page' = page
  BY <1>5 DEF ServeRead, ReadFails
<1>6. ASSUME NEW s \in Save, \/ BeginWrite(s) \/ EndWrite(s) \/ WriteFails(s)
                            \/ Refuse(s) \/ Answered(s) \/ Unanswered(s)
      PROVE  page' = page
  BY <1>6 DEF BeginWrite, EndWrite, WriteFails, Refuse, Answered, Unanswered, pageVars
<1>7. ASSUME UNCHANGED vars PROVE page' = page
  BY <1>7 DEF vars
<1>8. QED
  BY <1>1, <1>2, <1>3, <1>4, <1>5, <1>6, <1>7, Steps

\* A request that is answered in a step has the file's document, as the route
\* sees it.
Served(r) == [r EXCEPT !.stage = "answered", !.version = version,
                       !.doc = IF file.kind = "broken" THEN Plain("error") ELSE file]

LEMMA ReadSteps ==
  ASSUME TypeOK, [Next]_vars, NEW t \in Tab, NEW q \in BagToSet(reads'[t])
  PROVE  \/ q = NewRead
         \/ q \in BagToSet(reads[t])
         \/ \E r \in BagToSet(reads[t]) : q = Old(r)
         \/ /\ UNCHANGED <<file, version, kept>>
            /\ \E r \in BagToSet(reads[t]) : ServeRead(t, r) /\ q = Served(r)
<1>0. DOMAIN reads = Tab
  BY DEF TypeOK
<1>1. ASSUME NEW u \in Tab, Load(u) PROVE q = NewRead \/ q \in BagToSet(reads[t])
  BY <1>0, <1>1, SingleBags DEF Load
<1>2. ASSUME NEW u \in Tab, \/ SchemaAnswers(u, TRUE) \/ SchemaAnswers(u, FALSE)
                           \/ SaveBasic(u) \/ SaveAdvanced(u)
      PROVE  reads' = reads
  BY <1>2, ClickStep DEF SchemaAnswers, SaveBasic, SaveAdvanced
<1>3. ASSUME NEW u \in Tab, (\E f \in Flag, v \in Variant : SelectVariant(u, f, v)) \/ TypeText(u)
      PROVE  reads' = reads
  BY <1>3, EditStep DEF EditTo
<1>4. ASSUME NEW u \in Tab, NEW r \in BagToSet(reads[u]), ServeRead(u, r)
      PROVE  \/ q \in BagToSet(reads[t])
             \/ /\ UNCHANGED <<file, version, kept>>
                /\ ServeRead(t, r) /\ r \in BagToSet(reads[t]) /\ q = Served(r)
  <2> DEFINE rest == reads[u] (-) SetToBag({r})
  <2>1. reads' = [reads EXCEPT ![u] = rest (+) SetToBag({Served(r)})] /\ UNCHANGED <<file, version, kept>>
    BY <1>4 DEF ServeRead, Replace, Served, fileVars
  <2>2. BagToSet(rest) \subseteq BagToSet(reads[u])
    BY RemovedFrom
  <2>3. BagToSet(rest (+) SetToBag({Served(r)})) = BagToSet(rest) \union {Served(r)}
    BY AddedTo
  <2> HIDE DEF rest
  <2>4. CASE t = u
    BY <1>0, <1>4, <2>1, <2>2, <2>3, <2>4
  <2>5. CASE t # u
    BY <1>0, <2>1, <2>5
  <2>6. QED
    BY <2>4, <2>5
<1>5. ASSUME NEW u \in Tab, NEW r, ReadArrives(u, r) \/ ReadFails(u, r)
      PROVE  q \in BagToSet(reads[t])
  <2>1. \/ reads' = [reads EXCEPT ![u] = reads[u] (-) SetToBag({r})]
        \/ reads' = [reads EXCEPT ![u] = EmptyBag]
    BY <1>5 DEF ReadArrives, ReadFails
  <2>2. BagToSet(reads[u] (-) SetToBag({r})) \subseteq BagToSet(reads[u]) /\ BagToSet(EmptyBag) = {}
    BY RemovedFrom, SingleBags
  <2>3. QED
    BY <1>0, <2>1, <2>2
<1>6. ASSUME NEW s \in Save, BeginWrite(s) \/ EndWrite(s) \/ WriteFails(s) \/ Refuse(s) \/ Unanswered(s)
      PROVE  reads' = reads
  BY <1>6 DEF BeginWrite, EndWrite, WriteFails, Refuse, Unanswered, pageVars
<1>7. ASSUME NEW s \in Save, Answered(s)
      PROVE  \/ q = NewRead \/ q \in BagToSet(reads[t])
             \/ \E r \in BagToSet(reads[t]) : q = Old(r)
  <2> DEFINE u == saves[s].tab
             after == ReloadData(BagOfAll(Old, reads[u]))
  <2>1. reads' = [reads EXCEPT ![u] = IF Crashed(page[u]) THEN EmptyBag ELSE after]
    BY <1>7 DEF Answered
  <2>2. BagToSet(after) = {Old(r) : r \in BagToSet(reads[u])} \union {NewRead}
    BY ReloadedInto, AgedBag
  <2> HIDE DEF after
  <2>3. CASE t = u
    BY <1>0, <2>1, <2>2, <2>3, SingleBags
  <2>4. CASE t # u
    BY <1>0, <2>1, <2>4
  <2>5. QED
    BY <2>3, <2>4
<1>8. ASSUME UNCHANGED vars PROVE reads' = reads
  BY <1>8 DEF vars
<1>9. QED
  BY <1>1, <1>2, <1>3, <1>4, <1>5, <1>6, <1>7, <1>8, Steps

\* A save under way after a step is a click's, or the same save as before.
SameSave(u) ==
  /\ saves[u].stage \in Underway
  /\ saves'[u].doc = saves[u].doc /\ saves'[u].base = saves[u].base
  /\ saves'[u].edited = saves[u].edited
  /\ saves'[u].crossed => saves[u].crossed \/ \E s \in Save \ {u} : {s, u} \subseteq Writing
  /\ saves'[u].stage = "writing" => saves[u].stage = "writing" \/ BeginWrite(u)

LEMMA SaveSteps ==
  ASSUME TypeOK, [Next]_vars, NEW u \in Save, saves'[u].stage \in Underway
  PROVE  \/ SameSave(u)
         \/ \E t \in Tab : (SaveBasic(t) \/ SaveAdvanced(t)) /\ saves'[u] = NewSave(t)
<1>0. saves \in [Save -> SaveState] /\ saves[u] \in SaveState
      /\ (saves[u].stage \in Underway => saves[u] \in Sent)
  BY SaveFacts DEF TypeOK, Underway
<1>1. ASSUME saves'[u] = saves[u] PROVE SameSave(u)
  BY <1>1 DEF SameSave
<1>2. ASSUME NEW t \in Tab, Load(t) PROVE SameSave(u)
  <2>1. saves'[u] = (IF saves[u].stage = "idle" \/ saves[u].tab # t THEN saves[u]
                     ELSE IF saves[u].stage \in {"sent", "writing"}
                          THEN [saves[u] EXCEPT !.heard = FALSE] ELSE [stage |-> "idle"])
    BY <1>2 DEF Load
  <2>2. CASE saves'[u] = saves[u]
    BY <1>1, <2>2
  <2>3. CASE saves[u].stage \in {"sent", "writing"} /\ saves'[u] = [saves[u] EXCEPT !.heard = FALSE]
    BY <1>0, <2>3 DEF SameSave, Sent, Underway
  <2>4. CASE saves'[u] = [stage |-> "idle"]
    BY <2>4 DEF Underway
  <2>5. QED
    BY <2>1, <2>2, <2>3, <2>4
<1>3. ASSUME NEW t \in Tab, SaveBasic(t) \/ SaveAdvanced(t)
      PROVE  SameSave(u) \/ saves'[u] = NewSave(t)
  BY <1>0, <1>1, <1>3, ClickStep DEF SaveBasic, SaveAdvanced
<1>4. ASSUME NEW s \in Save, BeginWrite(s) PROVE SameSave(u)
  <2>1. saves' = [saves EXCEPT ![s].stage = "writing"] /\ saves[s].stage = "sent"
    BY <1>4 DEF BeginWrite
  <2>2. CASE u = s
    BY <1>0, <1>4, <2>1, <2>2 DEF SameSave, Sent, Underway
  <2>3. CASE u # s
    BY <1>0, <1>1, <2>1, <2>3
  <2>4. QED
    BY <2>2, <2>3
<1>5. ASSUME NEW s \in Save, NEW how \in {"ok", "refused", "lost"}, saves[s].stage \in Underway,
             version' \in Nat, Close(s, how)
      PROVE  SameSave(u)
  <2>0. saves'[s] = [stage |-> "idle"]
        \/ saves'[s] = [stage |-> how, tab |-> saves[s].tab, heard |-> TRUE,
                        version |-> IF how = "ok" THEN version' ELSE 0]
    BY <1>5, CloseStep DEF Underway
  <2>1. u # s
    BY <2>0 DEF Underway
  <2>2. \/ saves'[u] = saves[u]
        \/ {s, u} \subseteq Writing /\ saves'[u] = [saves[u] EXCEPT !.crossed = TRUE]
    BY <1>5, <2>1, CloseStep DEF Underway
  <2>3. CASE {s, u} \subseteq Writing /\ saves'[u] = [saves[u] EXCEPT !.crossed = TRUE]
    <3>1. saves[u] \in Sent /\ saves[u].stage = "writing"
      BY <1>0, <2>3 DEF Writing, Underway
    <3>2. QED
      BY <2>1, <2>3, <3>1 DEF SameSave, Sent, Underway
  <2>4. QED
    BY <1>1, <2>2, <2>3
<1>6. ASSUME NEW s \in Save, EndWrite(s) \/ WriteFails(s) \/ Refuse(s) PROVE SameSave(u)
  BY <1>5, <1>6 DEF EndWrite, WriteFails, Refuse, fileVars, TypeOK, Underway
<1>7. ASSUME NEW s \in Save, Answered(s) \/ Unanswered(s) PROVE SameSave(u)
  <2>1. saves' = [saves EXCEPT ![s] = [stage |-> "idle"]]
    BY <1>7 DEF Answered, Unanswered
  <2>2. u # s
    BY <1>0, <2>1 DEF Underway
  <2>3. QED
    BY <1>0, <1>1, <2>1, <2>2
<1>8. ASSUME NEW t \in Tab, (\E f \in Flag, v \in Variant : SelectVariant(t, f, v)) \/ TypeText(t)
      PROVE  saves' = saves
  BY <1>8, EditStep DEF EditTo
<1>9. ASSUME NEW t \in Tab, SchemaAnswers(t, TRUE) \/ SchemaAnswers(t, FALSE) PROVE saves' = saves
  BY <1>9 DEF SchemaAnswers
<1>10. ASSUME NEW t \in Tab, NEW r, ServeRead(t, r) \/ ReadArrives(t, r) \/ ReadFails(t, r)
       PROVE  saves' = saves
  BY <1>10 DEF ServeRead, ReadArrives, ReadFails
<1>11. ASSUME UNCHANGED vars PROVE saves' = saves
  BY <1>11 DEF vars
<1>12. QED
  BY <1>1, <1>2, <1>3, <1>4, <1>6, <1>7, <1>8, <1>9, <1>10, <1>11, Steps

-----------------------------------------------------------------------------
(* Lost edits.                                                              *)

\* What was taken from the file at version base: it has the flags the file had
\* last, but for those edited, if no save was completed since.
Current(doc, base, edited, v, k) ==
  /\ base <= v
  /\ base = v /\ doc.kind \in {"flags", "odd", "broken"} =>
       \A f \in Flag \ edited : doc.flags[f] = k.flags[f]

LostInv ==
  /\ file.kind \in {"flags", "odd"} => file.flags = kept.flags
  /\ \A t \in Tab : Current(page[t].doc, page[t].base, page[t].edited, version, kept)
  /\ \A t \in Tab : \A r \in BagToSet(reads[t]) :
       r.stage = "answered" => Current(r.doc, r.version, {}, version, kept)
  /\ \A s \in Save : saves[s].stage \in Underway =>
       Current(saves[s].doc, saves[s].base, saves[s].edited, version, kept)
  /\ LostUpdateHasACause

LEMMA LostInit == Init => LostInv
<1> SUFFICES ASSUME Init PROVE LostInv
  OBVIOUS
<1>1. /\ file = kept /\ version = 0 /\ overwrote = {}
      /\ \A t \in Tab : page[t] = NewPage(View[t]) /\ BagToSet(reads[t]) = {NewRead}
      /\ \A s \in Save : saves[s].stage = "idle"
  BY SingleBags DEF Init
<1>2. \A t \in Tab : page[t].doc.kind = "null" /\ page[t].base = 0
  BY <1>1, NewPageType
<1>3. \A t \in Tab : \A r \in BagToSet(reads[t]) : r.stage = "asked"
  BY <1>1, NewReadType
<1>4. QED
  BY <1>1, <1>2, <1>3 DEF LostInv, Current, LostUpdateHasACause, Underway

\* Nothing taken earlier counts as current once a save is completed, and
\* nothing else changes what is current.
LEMMA CurrentKept ==
  ASSUME TypeOK, [Next]_vars, NEW doc, NEW base \in Nat, NEW edited,
         Current(doc, base, edited, version, kept)
  PROVE  Current(doc, base, edited, version', kept')
<1>1. version \in Nat
  BY DEF TypeOK
<1>2. CASE UNCHANGED <<version, kept>>
  BY <1>2 DEF Current
<1>3. CASE version' = version + 1
  BY <1>1, <1>3 DEF Current
<1>4. QED
  BY <1>2, <1>3, FileSteps DEF BeginWrite, EndWrite

LEMMA LostStep == TypeOK /\ LostInv /\ [Next]_vars => LostInv'
<1> SUFFICES ASSUME TypeOK, LostInv, [Next]_vars PROVE LostInv'
  OBVIOUS
<1>0. version \in Nat
  BY DEF TypeOK
<1>1. (file.kind \in {"flags", "odd"} => file.flags = kept.flags)' /\ LostUpdateHasACause'
  <2>1. CASE UNCHANGED <<file, version, kept, overwrote>>
    BY <2>1 DEF LostInv, LostUpdateHasACause
  <2>2. ASSUME NEW s \in Save, BeginWrite(s)
        PROVE  (file.kind \in {"flags", "odd"} => file.flags = kept.flags)' /\ LostUpdateHasACause'
    <3>1. file'.kind = "broken" /\ overwrote' = overwrote
      BY <2>2, PlainType DEF BeginWrite, Kind
    <3>2. QED
      BY <3>1 DEF LostInv, LostUpdateHasACause
  <2>3. ASSUME NEW s \in Save, EndWrite(s)
        PROVE  (file.kind \in {"flags", "odd"} => file.flags = kept.flags)' /\ LostUpdateHasACause'
    <3>1. file'.kind \in {"flags", "odd"} => file'.flags = kept'.flags
      BY <2>3 DEF EndWrite
    <3>2. saves[s] \in Sent /\ saves[s].stage \in Underway
      BY <2>3, SaveFacts DEF EndWrite, Underway
    <3>3. saves[s].base \in Nat /\ Current(saves[s].doc, saves[s].base, saves[s].edited, version, kept)
      BY <3>2 DEF LostInv, Sent
    <3>4. Unasked(s) # {} => saves[s].base < version
      BY <1>0, <3>3 DEF Current, Unasked
    <3>5. overwrote' = IF Unasked(s) = {} THEN overwrote
                       ELSE {[base |-> saves[s].base, over |-> version]}
      BY <2>3 DEF EndWrite
    <3>6. LostUpdateHasACause'
      BY <3>4, <3>5 DEF LostInv, LostUpdateHasACause
    <3>7. QED
      BY <3>1, <3>6
  <2>4. QED
    BY <2>1, <2>2, <2>3, FileSteps
<1>2. ASSUME NEW t \in Tab
      PROVE  Current(page'[t].doc, page'[t].base, page'[t].edited, version', kept')
  <2>0. /\ Current(page[t].doc, page[t].base, page[t].edited, version, kept)
        /\ page[t].base \in Nat /\ page[t] \in Page
    BY PageFacts DEF LostInv
  <2>1. Current(page[t].doc, page[t].base, page[t].edited, version', kept')
    BY <2>0, CurrentKept
  <2>2. CASE page'[t] = page[t]
    BY <2>1, <2>2
  <2>3. CASE Load(t) /\ page'[t] = NewPage(View[t])
    BY <1>0, <2>3, NewPageType DEF Current, Load, fileVars
  <2>4. ASSUME NEW doc \in Document, NEW flags \in SUBSET Flag, EditTo(t, doc, flags),
               page'[t] = [page[t] EXCEPT !.doc = doc, !.edited = @ \union flags]
        PROVE  Current(page'[t].doc, page'[t].base, page'[t].edited, version', kept')
    <3>1. page'[t].doc = doc /\ page'[t].base = page[t].base /\ page'[t].edited = page[t].edited \union flags
      BY <2>0, <2>4 DEF Page
    <3>2. /\ page[t].doc.kind = "error" => flags = Flag
          /\ \A g \in Flag \ flags : doc.flags[g] = page[t].doc.flags[g]
          /\ page[t].doc.kind # "null" /\ version' = version /\ kept' = kept
      BY <2>4 DEF EditTo
    <3>3. page[t].doc.kind \in {"flags", "error", "odd", "broken"}
      BY <3>2, PageFacts DEF Document, Kind
    <3>4. QED
      BY <2>0, <3>1, <3>2, <3>3 DEF Current
  <2>5. ASSUME NEW r \in BagToSet(reads[t]), r.stage = "answered",
               page'[t] = [page[t] EXCEPT !.doc = r.doc, !.base = r.version, !.edited = {}]
        PROVE  Current(page'[t].doc, page'[t].base, page'[t].edited, version', kept')
    <3>1. page'[t].doc = r.doc /\ page'[t].base = r.version /\ page'[t].edited = {}
      BY <2>0, <2>5 DEF Page
    <3>2. Current(r.doc, r.version, {}, version, kept) /\ r.version \in Nat
      BY <2>5, ReadFacts DEF LostInv
    <3>3. QED
      BY <3>1, <3>2, CurrentKept
  <2>6. QED
    BY <2>2, <2>3, <2>4, <2>5, PageSteps
<1>3. ASSUME NEW t \in Tab, NEW q \in BagToSet(reads'[t]), q.stage = "answered"
      PROVE  Current(q.doc, q.version, {}, version', kept')
  <2>1. ASSUME NEW r \in BagToSet(reads[t]), r.stage = "answered"
        PROVE  Current(r.doc, r.version, {}, version', kept')
    <3>1. Current(r.doc, r.version, {}, version, kept) /\ r.version \in Nat
      BY <2>1, ReadFacts DEF LostInv
    <3>2. QED
      BY <3>1, CurrentKept
  <2>2. CASE q = NewRead
    BY <1>3, <2>2, NewReadType
  <2>3. CASE q \in BagToSet(reads[t])
    BY <1>3, <2>1, <2>3
  <2>4. CASE \E r \in BagToSet(reads[t]) : q = Old(r)
    BY <1>3, <2>1, <2>4, ReadFacts, OldFields
  <2>5. ASSUME NEW r \in BagToSet(reads[t]), q = Served(r), UNCHANGED <<file, version, kept>>
        PROVE  Current(q.doc, q.version, {}, version', kept')
    <3>1. r \in Read
      BY ReadFacts
    <3>2. q.version = version /\ q.doc = IF file.kind = "broken" THEN Plain("error") ELSE file
      BY <2>5, <3>1 DEF Served, Read
    <3>3. q.doc.kind \in {"flags", "odd", "broken"} => q.doc.flags = kept.flags
      BY <3>2, PlainType DEF LostInv, Kind
    <3>4. QED
      BY <1>0, <2>5, <3>2, <3>3 DEF Current
  <2>6. QED
    BY <2>2, <2>3, <2>4, <2>5, ReadSteps
<1>4. ASSUME NEW s \in Save, saves'[s].stage \in Underway
      PROVE  Current(saves'[s].doc, saves'[s].base, saves'[s].edited, version', kept')
  <2>1. CASE SameSave(s)
    <3>1. saves[s] \in Sent
      BY <2>1, SaveFacts DEF SameSave, Underway
    <3>2. saves[s].base \in Nat /\ Current(saves[s].doc, saves[s].base, saves[s].edited, version, kept)
      BY <2>1, <3>1 DEF LostInv, SameSave, Sent
    <3>3. QED
      BY <2>1, <3>2, CurrentKept DEF SameSave
  <2>2. ASSUME NEW t \in Tab, saves'[s] = NewSave(t)
        PROVE  Current(saves'[s].doc, saves'[s].base, saves'[s].edited, version', kept')
    <3>1. Current(page[t].doc, page[t].base, page[t].edited, version', kept')
      BY PageFacts, CurrentKept DEF LostInv
    <3>2. QED
      BY <2>2, <3>1 DEF NewSave
  <2>3. QED
    BY <1>4, <2>1, <2>2, SaveSteps
<1>5. QED
  BY <1>1, <1>2, <1>3, <1>4 DEF LostInv

-----------------------------------------------------------------------------
(* The causes of a broken file.                                             *)

LEMMA CausesGrow ==
  ASSUME TypeOK, [Next]_vars
  PROVE  causes \subseteq causes'
<1>1. ASSUME NEW t \in Tab, SchemaAnswers(t, TRUE) \/ SchemaAnswers(t, FALSE) \/ Load(t)
      PROVE  causes' = causes
  BY <1>1 DEF SchemaAnswers, Load
<1>2. ASSUME NEW t \in Tab, (\E f \in Flag, v \in Variant : SelectVariant(t, f, v)) \/ TypeText(t)
      PROVE  causes' = causes
  BY <1>2, EditStep DEF EditTo
<1>3. ASSUME NEW t \in Tab, SaveBasic(t) \/ SaveAdvanced(t) PROVE causes \subseteq causes'
  BY <1>3 DEF SaveBasic, SaveAdvanced
<1>4. ASSUME NEW t \in Tab, NEW r, ServeRead(t, r) \/ ReadArrives(t, r) \/ ReadFails(t, r)
      PROVE  causes' = causes
  BY <1>4 DEF ServeRead, ReadArrives, ReadFails
<1>5. ASSUME NEW s \in Save, \/ BeginWrite(s) \/ EndWrite(s) \/ WriteFails(s)
                            \/ Refuse(s) \/ Answered(s) \/ Unanswered(s)
      PROVE  causes \subseteq causes'
  BY <1>5 DEF BeginWrite, EndWrite, WriteFails, Refuse, Answered, Unanswered
<1>6. ASSUME UNCHANGED vars PROVE causes' = causes
  BY <1>6 DEF vars
<1>7. QED
  BY <1>1, <1>2, <1>3, <1>4, <1>5, <1>6, Steps

\* A save is not under way before its click.
FreshSaves == \A s \in Save : s > clicks => saves[s].stage = "idle"

LEMMA FreshInit == Init => FreshSaves
  BY DEF Init, FreshSaves

LEMMA FreshStep == TypeOK /\ FreshSaves /\ [Next]_vars => FreshSaves'
<1> SUFFICES ASSUME TypeOK, FreshSaves, [Next]_vars, NEW s \in Save, s > clicks'
             PROVE  saves'[s].stage = "idle"
  BY DEF FreshSaves
<1>0. /\ saves \in [Save -> SaveState] /\ clicks \in Nat /\ s \in Nat
      /\ s > clicks => saves[s].stage = "idle"
  BY EditorAssumption DEF FreshSaves, TypeOK, Save
<1>1. ASSUME clicks' = clicks, saves' = saves PROVE saves'[s].stage = "idle"
  BY <1>0, <1>1
<1>2. ASSUME NEW t \in Tab, Load(t) PROVE saves'[s].stage = "idle"
  BY <1>0, <1>2 DEF Load
<1>3. ASSUME NEW t \in Tab, SaveBasic(t) \/ SaveAdvanced(t) PROVE saves'[s].stage = "idle"
  <2>1. clicks' = clicks + 1 /\ saves' = [saves EXCEPT ![clicks'] = NewSave(t)]
    BY <1>3, ClickStep DEF SaveBasic, SaveAdvanced
  <2>2. QED
    BY <1>0, <2>1
<1>4. ASSUME NEW u \in Save, BeginWrite(u) PROVE saves'[s].stage = "idle"
  BY <1>0, <1>4 DEF BeginWrite, bounds
<1>5. ASSUME NEW u \in Save, EndWrite(u) \/ WriteFails(u) \/ Refuse(u) PROVE saves'[s].stage = "idle"
  <2>1. /\ version' \in Nat /\ saves[u].stage \in {"sent", "writing"} /\ clicks' = clicks
        /\ \E how \in {"ok", "refused", "lost"} : Close(u, how)
    BY <1>5 DEF EndWrite, WriteFails, Refuse, fileVars, TypeOK
  <2>2. saves[s].stage = "idle" /\ s # u /\ s \notin Writing
    BY <1>0, <2>1 DEF Writing
  <2>3. saves'[s] = saves[s]
    BY <2>1, <2>2, CloseStep
  <2>4. QED
    BY <2>2, <2>3
<1>6. ASSUME NEW u \in Save, Answered(u) \/ Unanswered(u) PROVE saves'[s].stage = "idle"
  BY <1>0, <1>6 DEF Answered, Unanswered, bounds
<1>7. ASSUME NEW t \in Tab, \/ \E f \in Flag, v \in Variant : SelectVariant(t, f, v)
                           \/ TypeText(t) \/ SchemaAnswers(t, TRUE) \/ SchemaAnswers(t, FALSE)
      PROVE  clicks' = clicks /\ saves' = saves
  BY <1>7, EditStep DEF EditTo, SchemaAnswers
<1>8. ASSUME NEW t \in Tab, NEW r, ServeRead(t, r) \/ ReadArrives(t, r) \/ ReadFails(t, r)
      PROVE  clicks' = clicks /\ saves' = saves
  BY <1>8 DEF ServeRead, ReadArrives, ReadFails, bounds
<1>9. ASSUME UNCHANGED vars PROVE clicks' = clicks /\ saves' = saves
  BY <1>9 DEF vars
<1>10. QED
  BY <1>1, <1>2, <1>3, <1>4, <1>5, <1>6, <1>7, <1>8, <1>9, Steps

\* A write goes on until it ends or fails.
LEMMA WritingStays ==
  ASSUME TypeOK, FreshSaves, [Next]_vars, NEW s \in Writing
  PROVE  s \in Writing' \/ EndWrite(s) \/ WriteFails(s)
<1>0. /\ saves \in [Save -> SaveState] /\ s \in Save /\ saves[s].stage = "writing"
      /\ saves[s] \in Sent
  BY SaveFacts DEF Writing, TypeOK
<1>1. ASSUME saves'[s] = saves[s] PROVE s \in Writing'
  BY <1>0, <1>1 DEF Writing
<1>2. ASSUME NEW t \in Tab, Load(t) PROVE s \in Writing'
  <2>1. saves'[s] = saves[s] \/ saves'[s] = [saves[s] EXCEPT !.heard = FALSE]
    BY <1>0, <1>2 DEF Load
  <2>2. QED
    BY <1>0, <2>1 DEF Writing, Sent
<1>3. ASSUME NEW t \in Tab, SaveBasic(t) \/ SaveAdvanced(t) PROVE s \in Writing'
  <2>1. clicks' = clicks + 1 /\ saves' = [saves EXCEPT ![clicks'] = NewSave(t)] /\ clicks \in Nat
    BY <1>3, ClickStep, EditorAssumption DEF SaveBasic, SaveAdvanced, TypeOK
  <2>2. s # clicks'
    BY <1>0, <2>1, EditorAssumption DEF FreshSaves, Save
  <2>3. QED
    BY <1>0, <1>1, <2>1, <2>2
<1>4. ASSUME NEW u \in Save, BeginWrite(u) PROVE s \in Writing'
  BY <1>0, <1>1, <1>4 DEF BeginWrite
<1>5. ASSUME NEW u \in Save, u # s, EndWrite(u) \/ WriteFails(u) \/ Refuse(u) PROVE s \in Writing'
  <2>1. /\ version' \in Nat /\ saves[u].stage \in {"sent", "writing"}
        /\ \E how \in {"ok", "refused", "lost"} : Close(u, how)
    BY <1>5 DEF EndWrite, WriteFails, Refuse, fileVars, TypeOK
  <2>2. saves'[s] = saves[s] \/ saves'[s] = [saves[s] EXCEPT !.crossed = TRUE]
    BY <1>0, <1>5, <2>1, CloseStep
  <2>3. QED
    BY <1>0, <2>2 DEF Writing, Sent
<1>6. ASSUME Refuse(s) PROVE FALSE
  BY <1>0, <1>6 DEF Refuse
<1>7. ASSUME NEW u \in Save, Answered(u) \/ Unanswered(u) PROVE s \in Writing'
  BY <1>0, <1>1, <1>7 DEF Answered, Unanswered
<1>8. ASSUME NEW t \in Tab, \/ \E f \in Flag, v \in Variant : SelectVariant(t, f, v)
                           \/ TypeText(t) \/ SchemaAnswers(t, TRUE) \/ SchemaAnswers(t, FALSE)
      PROVE  saves' = saves
  BY <1>8, EditStep DEF EditTo, SchemaAnswers
<1>9. ASSUME NEW t \in Tab, NEW r, ServeRead(t, r) \/ ReadArrives(t, r) \/ ReadFails(t, r)
      PROVE  saves' = saves
  BY <1>9 DEF ServeRead, ReadArrives, ReadFails
<1>10. ASSUME UNCHANGED vars PROVE saves' = saves
  BY <1>10 DEF vars
<1>11. QED
  BY <1>1, <1>2, <1>3, <1>4, <1>5, <1>6, <1>7, <1>8, <1>9, <1>10, Steps

\* What a document may be, for the causes there were.
Explained(doc, cs) ==
  /\ doc.kind = "null" => "early" \in cs
  /\ doc.kind \in {"error", "odd"} => "lax" \in cs

BrokenInv ==
  /\ Explained(file, causes)
  /\ file.kind = "broken" /\ Writing = {} => causes \intersect {"overlap", "failed"} # {}
  /\ \A s, u \in Writing : s = u \/ "overlap" \in causes
  /\ \A s \in Save : saves[s].stage \in Underway =>
       /\ Explained(saves[s].doc, causes) /\ saves[s].doc.kind # "broken"
       /\ saves[s].crossed => "overlap" \in causes
  /\ \A t \in Tab : page[t].view = "basic" => page[t].doc.kind # "broken"
  /\ \A t \in Tab : \A r \in BagToSet(reads[t]) : r.stage = "answered" => r.doc.kind # "broken"

LEMMA BrokenInit == Init => BrokenInv
<1> SUFFICES ASSUME Init PROVE BrokenInv
  OBVIOUS
<1>1. /\ file.kind = "flags" /\ Writing = {}
      /\ \A t \in Tab : page[t] = NewPage(View[t]) /\ BagToSet(reads[t]) = {NewRead}
      /\ \A s \in Save : saves[s].stage = "idle"
  BY SingleBags, PlainType DEF Init, Writing, Kind
<1>2. \A t \in Tab : page[t].doc.kind = "null"
  BY <1>1, NewPageType
<1>3. \A t \in Tab : \A r \in BagToSet(reads[t]) : r.stage = "asked"
  BY <1>1, NewReadType
<1>4. QED
  BY <1>1, <1>2, <1>3 DEF BrokenInv, Explained, Underway

LEMMA BrokenStep == TypeOK /\ FreshSaves /\ BrokenInv /\ [Next]_vars => BrokenInv'
<1> SUFFICES ASSUME TypeOK, FreshSaves, BrokenInv, [Next]_vars PROVE BrokenInv'
  OBVIOUS
<1>0. causes \subseteq causes'
  BY CausesGrow
<1>1. ASSUME NEW t \in Tab, page'[t].view = "basic" PROVE page'[t].doc.kind # "broken"
  <2>0. page[t] \in Page /\ (page[t].view = "basic" => page[t].doc.kind # "broken")
    BY PageFacts DEF BrokenInv
  <2>1. CASE page'[t] = NewPage(View[t])
    BY <2>1, NewPageType
  <2>2. ASSUME NEW doc \in Document, NEW flags \in SUBSET Flag, EditTo(t, doc, flags),
               page'[t] = [page[t] EXCEPT !.doc = doc, !.edited = @ \union flags]
        PROVE  page'[t].doc.kind # "broken"
    BY <1>1, <2>0, <2>2 DEF EditTo, Page
  <2>3. ASSUME NEW r \in BagToSet(reads[t]), r.stage = "answered",
               page'[t] = [page[t] EXCEPT !.doc = r.doc, !.base = r.version, !.edited = {}]
        PROVE  page'[t].doc.kind # "broken"
    BY <2>0, <2>3 DEF BrokenInv, Page
  <2>4. QED
    BY <1>1, <2>0, <2>1, <2>2, <2>3, PageSteps
<1>2. ASSUME NEW t \in Tab, NEW q \in BagToSet(reads'[t]), q.stage = "answered"
      PROVE  q.doc.kind # "broken"
  <2>1. \A r \in BagToSet(reads[t]) : r.stage = "answered" => r.doc.kind # "broken"
    BY DEF BrokenInv
  <2>2. CASE q = NewRead
    BY <1>2, <2>2, NewReadType
  <2>3. CASE \E r \in BagToSet(reads[t]) : q = Old(r)
    BY <1>2, <2>1, <2>3, ReadFacts, OldFields
  <2>4. ASSUME NEW r \in BagToSet(reads[t]), q = Served(r) PROVE q.doc.kind # "broken"
    <3>1. r \in Read
      BY ReadFacts
    <3>2. q.doc = IF file.kind = "broken" THEN Plain("error") ELSE file
      BY <2>4, <3>1 DEF Served, Read
    <3>3. QED
      BY <3>2, PlainType DEF Kind
  <2>5. QED
    BY <1>2, <2>1, <2>2, <2>3, <2>4, ReadSteps
<1>3. ASSUME NEW s \in Save, saves'[s].stage \in Underway
      PROVE  /\ Explained(saves'[s].doc, causes') /\ saves'[s].doc.kind # "broken"
             /\ saves'[s].crossed => "overlap" \in causes'
  <2>1. CASE SameSave(s)
    <3>1. /\ Explained(saves[s].doc, causes) /\ saves[s].doc.kind # "broken"
          /\ saves[s].crossed => "overlap" \in causes
      BY <2>1 DEF BrokenInv, SameSave
    <3>2. (\E u \in Save \ {s} : {u, s} \subseteq Writing) => "overlap" \in causes
      BY DEF BrokenInv
    <3>3. QED
      BY <1>0, <2>1, <3>1, <3>2 DEF SameSave, Explained
  <2>2. ASSUME NEW t \in Tab, SaveBasic(t) \/ SaveAdvanced(t), saves'[s] = NewSave(t)
        PROVE  /\ Explained(saves'[s].doc, causes') /\ saves'[s].doc.kind # "broken"
               /\ saves'[s].crossed => "overlap" \in causes'
    <3>1. saves'[s].doc = page[t].doc /\ ~saves'[s].crossed
      BY <2>2 DEF NewSave
    <3>2. page[t].doc.kind \in Kind /\ (page[t].view = "basic" => page[t].doc.kind # "broken")
      BY PageFacts DEF BrokenInv, Document
    <3>3. CASE SaveBasic(t)
      <4>1. page[t].view = "basic" /\ ~Crashed(page[t])
            /\ (page[t].doc.kind = "null" => "early" \in causes')
        BY <3>3, ClickStep DEF SaveBasic
      <4>2. QED
        BY <3>1, <3>2, <4>1 DEF Crashed, Explained
    <3>4. CASE SaveAdvanced(t)
      BY <3>1, <3>4 DEF SaveAdvanced, Explained
    <3>5. QED
      BY <2>2, <3>3, <3>4
  <2>3. QED
    BY <1>3, <2>1, <2>2, SaveSteps
<1>4. ASSUME NEW s \in Writing', NEW u \in Writing', s # u PROVE "overlap" \in causes'
  <2>1. s \in Save /\ u \in Save /\ saves'[s].stage = "writing" /\ saves'[u].stage = "writing"
    BY <1>4 DEF Writing
  <2>2. ASSUME NEW x \in Save, saves'[x].stage = "writing"
        PROVE  saves[x].stage = "writing" \/ BeginWrite(x)
    <3>1. ASSUME NEW t \in Tab, saves'[x] = NewSave(t) PROVE FALSE
      BY <2>2, <3>1 DEF NewSave
    <3>2. QED
      BY <2>2, <3>1, SaveSteps DEF SameSave, Underway
  <2>3. CASE saves[s].stage = "writing" /\ saves[u].stage = "writing"
    BY <1>0, <1>4, <2>1, <2>3 DEF BrokenInv, Writing
  <2>4. ASSUME NEW x \in Save, NEW y \in Save, x # y, BeginWrite(x), saves'[y].stage = "writing"
        PROVE  "overlap" \in causes'
    <3>1. saves[y].stage = "writing"
      BY <2>4 DEF BeginWrite, TypeOK
    <3>2. Writing # {}
      BY <3>1 DEF Writing
    <3>3. QED
      BY <2>4, <3>2 DEF BeginWrite
  <2>5. QED
    BY <1>4, <2>1, <2>2, <2>3, <2>4
<1>5. /\ Explained(file', causes')
      /\ file'.kind = "broken" /\ Writing' = {} => causes' \intersect {"overlap", "failed"} # {}
  <2>1. ASSUME NEW s \in Save, EndWrite(s)
        PROVE  /\ Explained(file', causes')
               /\ file'.kind = "broken" => causes' \intersect {"overlap", "failed"} # {}
    <3>1. /\ Explained(saves[s].doc, causes) /\ saves[s].doc.kind # "broken"
          /\ saves[s].crossed => "overlap" \in causes
      BY <2>1 DEF BrokenInv, EndWrite, Underway
    <3>2. file' = saves[s].doc \/ (saves[s].crossed /\ file' = Plain("broken"))
      BY <2>1 DEF EndWrite
    <3>3. Plain("broken").kind = "broken"
      BY PlainType DEF Kind
    <3>4. QED
      BY <1>0, <3>1, <3>2, <3>3 DEF Explained
  <2>2. ASSUME NEW s \in Save, BeginWrite(s)
        PROVE  Explained(file', causes') /\ Writing' # {}
    <3>1. file'.kind = "broken"
      BY <2>2, PlainType DEF BeginWrite, Kind
    <3>2. saves[s] \in Sent
      BY <2>2, SaveFacts DEF BeginWrite
    <3>3. saves'[s].stage = "writing"
      BY <2>2, <3>2 DEF BeginWrite, TypeOK, Sent
    <3>4. QED
      BY <3>1, <3>3 DEF Explained, Writing
  <2>3. ASSUME file' = file, NEW s \in Writing, Writing' = {}
        PROVE  causes' \intersect {"overlap", "failed"} # {} \/ EndWrite(s)
    BY <2>3, WritingStays DEF WriteFails
  <2>4. CASE file' = file
    <3>1. Explained(file', causes')
      BY <1>0, <2>4 DEF BrokenInv, Explained
    <3>2. ASSUME file'.kind = "broken", Writing' = {}
          PROVE  causes' \intersect {"overlap", "failed"} # {}
      <4>1. CASE Writing = {}
        BY <1>0, <2>4, <3>2, <4>1 DEF BrokenInv
      <4>2. ASSUME NEW s \in Writing PROVE causes' \intersect {"overlap", "failed"} # {}
        <5>1. s \in Save
          BY DEF Writing
        <5>2. QED
          BY <2>1, <2>3, <2>4, <3>2, <5>1
      <4>3. QED
        BY <4>1, <4>2
    <3>3. QED
      BY <3>1, <3>2
  <2>5. QED
    BY <2>1, <2>2, <2>4, FileSteps
<1>6. QED
  BY <1>1, <1>2, <1>3, <1>4, <1>5 DEF BrokenInv

-----------------------------------------------------------------------------
(* The spinner.                                                             *)

\* Some save of the tab will end and end the spinner with it.
Awaits(t) == \E s \in Save : saves[s].stage # "idle" /\ saves[s].heard /\ saves[s].tab = t

\* The tabs a step of save s leaves waiting: all, but the tab of an answer.
LEMMA AwaitsClosed ==
  ASSUME TypeOK, NEW s \in Save, saves[s].stage \in {"sent", "writing"}, version' \in Nat,
         NEW how \in {"ok", "refused", "lost"}, Close(s, how), NEW t \in Tab, Awaits(t)
  PROVE  Awaits(t)'
<1>1. PICK u \in Save : saves[u].stage # "idle" /\ saves[u].heard /\ saves[u].tab = t
  BY DEF Awaits
<1>2. CASE u = s
  <2>1. saves'[s] = [stage |-> how, tab |-> saves[s].tab, heard |-> TRUE,
                     version |-> IF how = "ok" THEN version' ELSE 0]
    BY <1>1, <1>2, CloseStep
  <2>2. QED
    BY <1>1, <1>2, <2>1 DEF Awaits
<1>3. CASE saves'[u] = saves[u]
  BY <1>1, <1>3 DEF Awaits
<1>4. CASE u \in Writing /\ saves'[u] = [saves[u] EXCEPT !.crossed = TRUE]
  <2>1. saves[u] \in Sent
    BY <1>4, SaveFacts DEF Writing
  <2>2. QED
    BY <1>1, <1>4, <2>1 DEF Awaits, Sent
<1>5. QED
  BY <1>2, <1>3, <1>4, CloseStep

SpinnerInv ==
  \A t \in Tab : loading[t] => schema[t].pending # 0 \/ Awaits(t) \/ t \in stuck

LEMMA SchemaOfAdvanced == NewSchema("advanced").pending # 0
  BY DEF NewSchema

LEMMA SpinnerInit == Init => SpinnerInv
<1> SUFFICES ASSUME Init, NEW t \in Tab, loading[t] PROVE schema[t].pending # 0
  BY DEF SpinnerInv
<1>1. View[t] = "advanced"
  BY DEF Init
<1>2. schema[t] = NewSchema("advanced")
  BY <1>1 DEF Init
<1>3. QED
  BY <1>2, SchemaOfAdvanced

LEMMA SpinnerStep == TypeOK /\ FreshSaves /\ SpinnerInv /\ [Next]_vars => SpinnerInv'
<1> SUFFICES ASSUME TypeOK, FreshSaves, SpinnerInv, [Next]_vars, NEW t \in Tab, loading'[t]
             PROVE  schema'[t].pending # 0 \/ Awaits(t)' \/ t \in stuck'
  BY DEF SpinnerInv
<1> DEFINE Goal == schema'[t].pending # 0 \/ Awaits(t)' \/ t \in stuck'
<1>0. /\ saves \in [Save -> SaveState] /\ loading \in [Tab -> BOOLEAN] /\ schema \in [Tab -> [pending : Nat, failed : BOOLEAN]]
      /\ loading[t] => schema[t].pending # 0 \/ Awaits(t) \/ t \in stuck
  BY DEF SpinnerInv, TypeOK
<1>1. ASSUME UNCHANGED <<loading, schema, saves, stuck>> PROVE Goal
  BY <1>0, <1>1 DEF Awaits
<1>2. ASSUME NEW u \in Tab, Load(u) PROVE Goal
  <2>1. CASE u = t
    <3>1. View[t] = "advanced"
      BY <1>0, <1>2, <2>1 DEF Load
    <3>2. schema'[t] = NewSchema("advanced")
      BY <1>0, <1>2, <2>1, <3>1 DEF Load
    <3>3. QED
      BY <3>2, SchemaOfAdvanced
  <2>2. CASE u # t
    <3>1. loading'[t] = loading[t] /\ schema'[t] = schema[t] /\ (t \in stuck => t \in stuck')
      BY <1>0, <1>2, <2>2 DEF Load
    <3>2. ASSUME NEW s \in Save, saves[s].stage # "idle", saves[s].heard, saves[s].tab = t
          PROVE  Awaits(t)'
      <4>1. saves'[s] = saves[s]
        BY <1>2, <2>2, <3>2 DEF Load
      <4>2. QED
        BY <3>2, <4>1 DEF Awaits
    <3>3. QED
      BY <1>0, <3>1, <3>2 DEF Awaits
  <2>3. QED
    BY <2>1, <2>2
<1>3. ASSUME NEW u \in Tab, SaveBasic(u) \/ SaveAdvanced(u) PROVE Goal
  <2>1. /\ loading' = [loading EXCEPT ![u] = TRUE] /\ UNCHANGED <<schema, stuck>>
        /\ clicks' = clicks + 1 /\ clicks' \in Save /\ clicks \in Nat
        /\ saves' = [saves EXCEPT ![clicks'] = NewSave(u)]
    BY <1>3, ClickStep, EditorAssumption DEF SaveBasic, SaveAdvanced, TypeOK
  <2>2. CASE u = t
    <3>1. saves'[clicks'] = NewSave(t)
      BY <1>0, <2>1, <2>2
    <3>2. QED
      BY <2>1, <3>1 DEF Awaits, NewSave
  <2>3. CASE u # t
    <3>1. saves[clicks'].stage = "idle"
      BY <2>1 DEF FreshSaves
    <3>2. Awaits(t) => Awaits(t)'
      BY <1>0, <2>1, <3>1 DEF Awaits
    <3>3. QED
      BY <1>0, <2>1, <2>3, <3>2
  <2>4. QED
    BY <2>2, <2>3
<1>4. ASSUME NEW u \in Tab, NEW ok \in BOOLEAN, SchemaAnswers(u, ok) PROVE Goal
  <2>1. /\ saves' = saves /\ loading' = [loading EXCEPT ![u] = @ /\ ~ok]
        /\ stuck' = IF ok THEN stuck ELSE stuck \union {u}
        /\ \A w \in Tab \ {u} : schema'[w] = schema[w]
    BY <1>0, <1>4 DEF SchemaAnswers
  <2>2. CASE u = t
    BY <1>0, <2>1, <2>2
  <2>3. CASE u # t
    BY <1>0, <2>1, <2>3 DEF Awaits
  <2>4. QED
    BY <2>2, <2>3
<1>5. ASSUME NEW s \in Save, BeginWrite(s) PROVE Goal
  <2>1. /\ saves[s] \in Sent /\ saves' = [saves EXCEPT ![s] = [saves[s] EXCEPT !.stage = "writing"]]
        /\ UNCHANGED <<loading, schema, stuck>>
    BY <1>0, <1>5, SaveFacts DEF BeginWrite, pageVars
  <2>2. Awaits(t) => Awaits(t)'
    BY <1>0, <2>1 DEF Awaits, Sent
  <2>3. QED
    BY <1>0, <2>1, <2>2
<1>6. ASSUME NEW s \in Save, EndWrite(s) \/ WriteFails(s) \/ Refuse(s) PROVE Goal
  <2>1. /\ version' \in Nat /\ saves[s].stage \in {"sent", "writing"}
        /\ UNCHANGED <<loading, schema, stuck>>
        /\ \E how \in {"ok", "refused", "lost"} : Close(s, how)
    BY <1>6 DEF EndWrite, WriteFails, Refuse, fileVars, pageVars, TypeOK
  <2>2. Awaits(t) => Awaits(t)'
    BY <2>1, AwaitsClosed
  <2>3. QED
    BY <1>0, <2>1, <2>2
<1>7. ASSUME NEW s \in Save, Answered(s) \/ Unanswered(s) PROVE Goal
  <2> DEFINE u == saves[s].tab
  <2>1. /\ saves' = [saves EXCEPT ![s] = [stage |-> "idle"]] /\ u \in Tab /\ UNCHANGED schema
        /\ \/ loading' = [loading EXCEPT ![u] = FALSE] /\ stuck' = stuck
           \/ loading' = loading /\ stuck' = stuck \union {u}
    BY <1>7, SaveFacts DEF Answered, Unanswered, Told, pageVars
  <2>2. CASE u = t
    BY <1>0, <2>1, <2>2
  <2>3. CASE u # t
    <3>1. Awaits(t) => Awaits(t)'
      BY <1>0, <2>1, <2>3 DEF Awaits
    <3>2. QED
      BY <1>0, <2>1, <2>3, <3>1
  <2>4. QED
    BY <2>2, <2>3
<1>8. ASSUME NEW u \in Tab, (\E f \in Flag, v \in Variant : SelectVariant(u, f, v)) \/ TypeText(u)
      PROVE  UNCHANGED <<loading, schema, saves, stuck>>
  BY <1>8, EditStep DEF EditTo
<1>9. ASSUME NEW u \in Tab, NEW r, ServeRead(u, r) \/ ReadArrives(u, r) \/ ReadFails(u, r)
      PROVE  UNCHANGED <<loading, schema, saves, stuck>>
  BY <1>9 DEF ServeRead, ReadArrives, ReadFails
<1>10. ASSUME UNCHANGED vars PROVE UNCHANGED <<loading, schema, saves, stuck>>
  BY <1>10 DEF vars
<1>11. QED
  BY <1>1, <1>2, <1>3, <1>4, <1>5, <1>6, <1>7, <1>8, <1>9, <1>10, Steps

-----------------------------------------------------------------------------
(* A page and its own save.                                                 *)

\* The bag holds the requests that are not old as often as they were made.
Counted(bag) == \A r \in BagToSet(bag) : ~r.old => bag[r] \in Nat \ {0}

LEMMA CountedRemoved ==
  ASSUME NEW b, NEW r, Counted(b)
  PROVE  /\ Counted(b (-) SetToBag({r}))
         /\ \A q \in BagToSet(b) : ~q.old /\ q # r => q \in BagToSet(b (-) SetToBag({r}))
  BY DEF Counted, BagToSet, SetToBag, (-)

LEMMA CountedAdded ==
  ASSUME NEW b, NEW r, Counted(b)
  PROVE  Counted(b (+) SetToBag({r}))
  BY DEF Counted, BagToSet, SetToBag, (+)

LEMMA CountedNew ==
  /\ Counted(FirstRead) /\ Counted(EmptyBag)
  /\ \A b : (\A r \in BagToSet(b) : r.old) => Counted(ReloadData(b))
<1>1. Counted(FirstRead) /\ Counted(EmptyBag)
  BY DEF Counted, BagToSet, EmptyBag, FirstRead, SetToBag
<1>2. ASSUME NEW b, \A r \in BagToSet(b) : r.old PROVE Counted(ReloadData(b))
  BY <1>2, NewReadType DEF Counted, BagToSet, ReloadData, (+)
<1>3. QED
  BY <1>1, <1>2

\* An acknowledged save is a version of the file.  A read that was asked for
\* since the tab's last save was answered brings that save or a newer version,
\* and as long as the page does not show it, such a read is under way.
Shows(t) ==
  /\ own[t] <= version
  /\ Counted(reads[t])
  /\ \A r \in BagToSet(reads[t]) : r.stage = "answered" /\ ~r.old => own[t] <= r.version
  /\ page[t].view = "basic" /\ ~Crashed(page[t]) /\ t \notin behind =>
       own[t] <= page[t].base \/ \E r \in BagToSet(reads[t]) : ~r.old

ShowInv ==
  /\ \A s \in Save : saves[s].stage = "ok" => saves[s].version <= version
  /\ \A t \in Tab : Shows(t)

LEMMA ShowInit == Init => ShowInv
<1> SUFFICES ASSUME Init PROVE ShowInv
  OBVIOUS
<1>1. \A s \in Save : saves[s].stage = "idle"
  BY DEF Init
<1>2. ASSUME NEW t \in Tab PROVE Shows(t)
  <2>1. own[t] = 0 /\ version = 0 /\ reads[t] = FirstRead
    BY DEF Init
  <2>2. BagToSet(reads[t]) = {NewRead} /\ Counted(reads[t])
    BY <2>1, SingleBags, CountedNew
  <2>3. QED
    BY <2>1, <2>2, NewReadType DEF Shows
<1>3. QED
  BY <1>1, <1>2 DEF ShowInv

\* A write adds a version, and what it answers is that version.
LEMMA AckSteps ==
  ASSUME TypeOK, ShowInv, [Next]_vars
  PROVE  /\ version <= version'
         /\ \A u \in Save : saves'[u].stage = "ok" => saves'[u].version <= version'
<1>0. version \in Nat /\ version' \in Nat /\ saves \in [Save -> SaveState]
  BY TypeStep DEF TypeOK
<1>1. version <= version'
  BY <1>0, FileSteps DEF EndWrite, BeginWrite
<1>2. ASSUME NEW u \in Save, saves'[u].stage = "ok", saves'[u] # saves[u]
      PROVE  saves'[u].version = version'
  <2>1. ASSUME NEW t \in Tab, Load(t) PROVE FALSE
    <3>1. saves'[u] = (IF saves[u].stage = "idle" \/ saves[u].tab # t THEN saves[u]
                       ELSE IF saves[u].stage \in {"sent", "writing"}
                            THEN [saves[u] EXCEPT !.heard = FALSE] ELSE [stage |-> "idle"])
      BY <2>1 DEF Load
    <3>2. CASE saves[u].stage \in {"sent", "writing"} /\ saves'[u] = [saves[u] EXCEPT !.heard = FALSE]
      <4>1. saves'[u].stage = saves[u].stage
        BY <3>2, SaveFacts DEF Sent
      <4>2. QED
        BY <1>2, <3>2, <4>1
    <3>3. QED
      BY <1>2, <3>1, <3>2
  <2>2. ASSUME NEW t \in Tab, SaveBasic(t) \/ SaveAdvanced(t) PROVE FALSE
    <3>1. saves'[u] = NewSave(t)
      BY <1>0, <1>2, <2>2, ClickStep DEF SaveBasic, SaveAdvanced
    <3>2. QED
      BY <1>2, <3>1 DEF NewSave
  <2>3. ASSUME NEW s \in Save, BeginWrite(s) PROVE FALSE
    <3>1. saves' = [saves EXCEPT ![s].stage = "writing"] /\ saves[s] \in Sent
      BY <2>3, SaveFacts DEF BeginWrite
    <3>2. QED
      BY <1>0, <1>2, <3>1 DEF Sent
  <2>4. ASSUME NEW s \in Save, NEW how \in {"ok", "refused", "lost"},
               saves[s].stage \in {"sent", "writing"}, Close(s, how)
        PROVE  saves'[u].version = version'
    <3>1. CASE u = s
      <4>1. \/ saves'[s] = [stage |-> how, tab |-> saves[s].tab, heard |-> TRUE,
                           version |-> IF how = "ok" THEN version' ELSE 0]
            \/ saves'[s] = [stage |-> "idle"]
        BY <1>0, <2>4, CloseStep
      <4>2. QED
        BY <1>2, <3>1, <4>1
    <3>2. CASE u # s
      <4>1. {s, u} \subseteq Writing /\ saves'[u] = [saves[u] EXCEPT !.crossed = TRUE]
        BY <1>0, <1>2, <2>4, <3>2, CloseStep
      <4>2. saves[u].stage = "writing" /\ saves[u] \in Sent
        BY <4>1, SaveFacts DEF Writing
      <4>3. QED
        BY <1>2, <4>1, <4>2 DEF Sent
    <3>3. QED
      BY <3>1, <3>2
  <2>5. ASSUME NEW s \in Save, EndWrite(s) \/ WriteFails(s) \/ Refuse(s)
        PROVE  saves'[u].version = version'
    BY <2>4, <2>5 DEF EndWrite, WriteFails, Refuse
  <2>6. ASSUME NEW s \in Save, Answered(s) \/ Unanswered(s) PROVE FALSE
    BY <1>0, <1>2, <2>6 DEF Answered, Unanswered
  <2>7. ASSUME NEW t \in Tab, (\E f \in Flag, v \in Variant : SelectVariant(t, f, v)) \/ TypeText(t)
        PROVE  saves' = saves
    BY <2>7, EditStep DEF EditTo
  <2>8. ASSUME NEW t \in Tab, SchemaAnswers(t, TRUE) \/ SchemaAnswers(t, FALSE) PROVE saves' = saves
    BY <2>8 DEF SchemaAnswers
  <2>9. ASSUME NEW t \in Tab, NEW r, ServeRead(t, r) \/ ReadArrives(t, r) \/ ReadFails(t, r)
        PROVE  saves' = saves
    BY <2>9 DEF ServeRead, ReadArrives, ReadFails
  <2>10. ASSUME UNCHANGED vars PROVE saves' = saves
    BY <2>10 DEF vars
  <2>11. QED
    BY <1>2, <2>1, <2>2, <2>3, <2>5, <2>6, <2>7, <2>8, <2>9, <2>10, Steps
<1>3. ASSUME NEW u \in Save, saves'[u].stage = "ok", saves'[u] = saves[u]
      PROVE  saves'[u].version <= version'
  <2>1. saves[u].version <= version /\ saves[u].version \in Nat
    BY <1>3, SaveFacts DEF ShowInv, Told
  <2>2. QED
    BY <1>0, <1>1, <1>3, <2>1
<1>4. QED
  BY <1>0, <1>1, <1>2, <1>3

\* A tab that a step leaves alone.
LEMMA ShowsStays ==
  ASSUME TypeOK, NEW t \in Tab, Shows(t), version' \in Nat, version <= version',
         page'[t].view = page[t].view, page'[t].base = page[t].base,
         Crashed(page'[t]) = Crashed(page[t]), reads'[t] = reads[t], own'[t] = own[t],
         t \in behind' <=> t \in behind
  PROVE  Shows(t)'
<1>1. own[t] \in Nat /\ version \in Nat
  BY PageFacts DEF TypeOK
<1>2. own'[t] <= version'
  BY <1>1 DEF Shows
<1>3. Counted(reads'[t])
  BY DEF Shows
<1>4. QED
  BY <1>2, <1>3 DEF Shows

LEMMA ShowStep == TypeOK /\ ShowInv /\ [Next]_vars => ShowInv'
<1> SUFFICES ASSUME TypeOK, ShowInv, [Next]_vars, NEW t \in Tab PROVE Shows(t)'
  BY AckSteps DEF ShowInv
<1>0. /\ version \in Nat /\ version' \in Nat /\ version <= version' /\ Shows(t)
      /\ page \in [Tab -> Page] /\ DOMAIN reads = Tab /\ own \in [Tab -> Nat]
      /\ BagToSet(reads[t]) \subseteq Read
  BY TypeStep, AckSteps DEF ShowInv, TypeOK
<1>1. ASSUME page'[t] = page[t], reads'[t] = reads[t], own'[t] = own[t],
             t \in behind' <=> t \in behind
      PROVE  Shows(t)'
  BY <1>0, <1>1, ShowsStays
<1>2. ASSUME NEW u \in Tab, Load(u) PROVE Shows(t)'
  <2>1. CASE u = t
    <3>1. own'[t] = 0 /\ reads'[t] = FirstRead
      BY <1>0, <1>2, <2>1 DEF Load
    <3>2. BagToSet(reads'[t]) = {NewRead} /\ Counted(reads'[t])
      BY <3>1, SingleBags, CountedNew
    <3>3. QED
      BY <1>0, <3>1, <3>2, NewReadType DEF Shows
  <2>2. CASE u # t
    BY <1>0, <1>1, <1>2, <2>2 DEF Load
  <2>3. QED
    BY <2>1, <2>2
<1>3. ASSUME NEW u \in Tab, (\E f \in Flag, v \in Variant : SelectVariant(u, f, v)) \/ TypeText(u)
      PROVE  Shows(t)'
  <2>1. PICK doc \in Document, flags \in SUBSET Flag : EditTo(u, doc, flags)
    BY <1>3, EditStep
  <2>2. /\ page' = [page EXCEPT ![u] = [page[u] EXCEPT !.doc = doc, !.edited = @ \union flags]]
        /\ UNCHANGED <<reads, own, behind>> /\ ~Crashed(page[u])
        /\ page[u].view = "basic" => doc.kind = "flags"
    BY <2>1 DEF EditTo
  <2>3. CASE u = t
    <3>1. page'[t] = [page[t] EXCEPT !.doc = doc, !.edited = @ \union flags]
      BY <1>0, <2>2, <2>3
    <3>2. page'[t].view = page[t].view /\ page'[t].base = page[t].base /\ page'[t].doc = doc
      BY <1>0, <3>1 DEF Page
    <3>3. Crashed(page'[t]) = FALSE /\ Crashed(page[t]) = FALSE
      BY <2>2, <2>3, <3>2 DEF Crashed
    <3>4. QED
      BY <1>0, <2>2, <3>2, <3>3, ShowsStays
  <2>4. CASE u # t
    BY <1>0, <1>1, <2>2, <2>4
  <2>5. QED
    BY <2>3, <2>4
<1>4. ASSUME NEW u \in Tab, SaveBasic(u) \/ SaveAdvanced(u) PROVE Shows(t)'
  BY <1>1, <1>4, ClickStep DEF SaveBasic, SaveAdvanced
<1>5. ASSUME NEW u \in Tab, SchemaAnswers(u, TRUE) \/ SchemaAnswers(u, FALSE) PROVE Shows(t)'
  BY <1>1, <1>5 DEF SchemaAnswers
<1>6. ASSUME NEW u \in Tab, NEW r \in BagToSet(reads[u]), ServeRead(u, r) PROVE Shows(t)'
  <2> DEFINE rest == reads[u] (-) SetToBag({r})
  <2>1. /\ reads' = [reads EXCEPT ![u] = rest (+) SetToBag({Served(r)})] /\ version' = version
        /\ UNCHANGED <<page, own, behind>>
    BY <1>6 DEF ServeRead, Replace, Served, fileVars
  <2>2. CASE u = t
    <3>1. r \in Read /\ reads'[t] = rest (+) SetToBag({Served(r)})
      BY <1>0, <1>6, <2>1, <2>2
    <3>2. Served(r).old = r.old /\ Served(r).version = version
      BY <3>1 DEF Served, Read
    <3>3. /\ Counted(rest) /\ BagToSet(rest) \subseteq BagToSet(reads[t])
          /\ \A q \in BagToSet(reads[t]) : ~q.old /\ q # r => q \in BagToSet(rest)
      BY <1>0, <2>2, RemovedFrom, CountedRemoved DEF Shows
    <3>4. /\ Counted(reads'[t])
          /\ BagToSet(reads'[t]) = BagToSet(rest) \union {Served(r)}
      <4> HIDE DEF rest
      <4>1. /\ Counted(rest (+) SetToBag({Served(r)}))
            /\ BagToSet(rest (+) SetToBag({Served(r)})) = BagToSet(rest) \union {Served(r)}
        BY <3>3, AddedTo, CountedAdded
      <4>2. QED
        BY <3>1, <4>1
    <3> HIDE DEF rest
    <3>5. \A q \in BagToSet(reads'[t]) : q.stage = "answered" /\ ~q.old => own'[t] <= q.version
      BY <1>0, <2>1, <3>2, <3>3, <3>4 DEF Shows
    <3>6. (\E q \in BagToSet(reads[t]) : ~q.old) => \E q \in BagToSet(reads'[t]) : ~q.old
      BY <3>2, <3>3, <3>4
    <3>7. QED
      BY <1>0, <2>1, <3>4, <3>5, <3>6 DEF Shows
  <2>3. CASE u # t
    BY <1>0, <1>1, <2>1, <2>3
  <2>4. QED
    BY <2>2, <2>3
<1>7. ASSUME NEW u \in Tab, NEW r \in BagToSet(reads[u]), ReadArrives(u, r) PROVE Shows(t)'
  <2>1. /\ page' = [page EXCEPT ![u] =
                      IF @.view = "advanced" THEN TextAfter(@, r)
                      ELSE [@ EXCEPT !.doc = r.doc, !.base = r.version, !.edited = {}]]
        /\ reads' = [reads EXCEPT ![u] = IF Crashed(page'[u]) THEN EmptyBag
                                         ELSE @ (-) SetToBag({r})]
        /\ behind' = IF r.old THEN behind \union {u} ELSE behind \ {u}
        /\ UNCHANGED own /\ r.stage = "answered"
    BY <1>7 DEF ReadArrives
  <2>2. CASE u = t
    <3>1. r \in Read /\ page[t] \in Page
      BY <1>0, <1>7, <2>2
    <3>2. \/ reads'[t] = EmptyBag
          \/ reads'[t] = reads[t] (-) SetToBag({r})
      BY <1>0, <2>1, <2>2
    <3>3. Counted(reads'[t]) /\ BagToSet(reads'[t]) \subseteq BagToSet(reads[t])
      <4>1. Counted(EmptyBag) /\ BagToSet(EmptyBag) = {}
        BY SingleBags, CountedNew
      <4>2. /\ Counted(reads[t] (-) SetToBag({r}))
            /\ BagToSet(reads[t] (-) SetToBag({r})) \subseteq BagToSet(reads[t])
        BY <1>0, RemovedFrom, CountedRemoved DEF Shows
      <4>3. QED
        BY <3>2, <4>1, <4>2
    <3>4. page'[t].view = "basic" /\ ~r.old => own'[t] <= page'[t].base
      <4>1. page'[t].view = "basic" => page'[t].base = r.version
        <5>1. CASE page[t].view = "advanced"
          BY <1>0, <2>1, <2>2, <3>1, <5>1 DEF TextAfter, Page
        <5>2. CASE page[t].view # "advanced"
          BY <1>0, <2>1, <2>2, <3>1, <5>2 DEF Page
        <5>3. QED
          BY <5>1, <5>2
      <4>2. ~r.old => own[t] <= r.version
        BY <1>0, <1>7, <2>1, <2>2 DEF Shows
      <4>3. QED
        BY <2>1, <4>1, <4>2
    <3>5. r.old => t \in behind'
      BY <2>1, <2>2
    <3>6. own'[t] <= version'
      BY <1>0, <2>1 DEF Shows
    <3>7. QED
      BY <1>0, <2>1, <3>3, <3>4, <3>5, <3>6 DEF Shows
  <2>3. CASE u # t
    BY <1>0, <1>1, <2>1, <2>3
  <2>4. QED
    BY <2>2, <2>3
<1>8. ASSUME NEW u \in Tab, NEW r \in BagToSet(reads[u]), ReadFails(u, r) PROVE Shows(t)'
  <2>1. /\ reads' = [reads EXCEPT ![u] = @ (-) SetToBag({r})] /\ behind' = behind \union {u}
        /\ UNCHANGED <<page, own>>
    BY <1>8 DEF ReadFails
  <2>2. CASE u = t
    <3>1. t \in behind' /\ reads'[t] = reads[t] (-) SetToBag({r})
      BY <1>0, <2>1, <2>2
    <3>2. Counted(reads'[t]) /\ BagToSet(reads'[t]) \subseteq BagToSet(reads[t])
      BY <1>0, <3>1, RemovedFrom, CountedRemoved DEF Shows
    <3>3. own'[t] <= version'
      BY <1>0, <2>1 DEF Shows
    <3>4. QED
      BY <1>0, <2>1, <3>1, <3>2, <3>3 DEF Shows
  <2>3. CASE u # t
    BY <1>0, <1>1, <2>1, <2>3
  <2>4. QED
    BY <2>2, <2>3
<1>9. ASSUME NEW s \in Save, BeginWrite(s) \/ EndWrite(s) \/ WriteFails(s) \/ Refuse(s) \/ Unanswered(s)
      PROVE  Shows(t)'
  BY <1>1, <1>9 DEF BeginWrite, EndWrite, WriteFails, Refuse, Unanswered, pageVars
<1>10. ASSUME NEW s \in Save, Answered(s) PROVE Shows(t)'
  <2> DEFINE u == saves[s].tab
             aged == BagOfAll(Old, reads[u])
  <2>1. /\ reads' = [reads EXCEPT ![u] = IF Crashed(page[u]) THEN EmptyBag ELSE ReloadData(aged)]
        /\ own' = IF saves[s].stage = "ok" THEN [own EXCEPT ![u] = saves[s].version] ELSE own
        /\ UNCHANGED <<page, behind, version>>
    BY <1>10 DEF Answered, fileVars
  <2>2. CASE u = t
    <3>1. own'[t] <= version'
      BY <1>0, <2>1, <2>2 DEF ShowInv, Shows
    <3>2. CASE Crashed(page[t])
      <4>1. reads'[t] = EmptyBag /\ Crashed(page'[t])
        BY <1>0, <2>1, <2>2, <3>2
      <4>2. BagToSet(reads'[t]) = {} /\ Counted(reads'[t])
        BY <4>1, SingleBags, CountedNew
      <4>3. QED
        BY <3>1, <4>1, <4>2 DEF Shows
    <3>3. CASE ~Crashed(page[t])
      <4>1. reads'[t] = ReloadData(aged)
        BY <1>0, <2>1, <2>2, <3>3
      <4>2. BagToSet(aged) = {Old(r) : r \in BagToSet(reads[t])}
        BY <2>2, AgedBag
      <4> HIDE DEF aged
      <4>3. \A r \in BagToSet(aged) : r.old
        BY <1>0, <4>2, OldFields
      <4>4. Counted(reads'[t]) /\ BagToSet(reads'[t]) = BagToSet(aged) \union {NewRead}
        BY <4>1, <4>3, CountedNew, ReloadedInto
      <4>5. \A r \in BagToSet(reads'[t]) : r.stage = "answered" => r.old
        BY <4>3, <4>4, NewReadType
      <4>6. \E r \in BagToSet(reads'[t]) : ~r.old
        BY <4>4, NewReadType
      <4>7. QED
        BY <3>1, <4>4, <4>5, <4>6 DEF Shows
    <3>4. QED
      BY <3>2, <3>3
  <2>3. CASE u # t
    BY <1>0, <1>1, <2>1, <2>3
  <2>4. QED
    BY <2>2, <2>3
<1>11. ASSUME UNCHANGED vars PROVE Shows(t)'
  BY <1>1, <1>11 DEF vars
<1>12. QED
  BY <1>2, <1>3, <1>4, <1>5, <1>6, <1>7, <1>8, <1>9, <1>10, <1>11, Steps

-----------------------------------------------------------------------------
(* The theorems.                                                            *)

Inv == TypeOK /\ FreshSaves /\ LostInv /\ BrokenInv /\ SpinnerInv /\ ShowInv

THEOREM Invariance == Spec => []Inv
<1>1. Init => Inv
  BY InitTypes, FreshInit, LostInit, BrokenInit, SpinnerInit, ShowInit DEF Inv
<1>2. Inv /\ [Next]_vars => Inv'
  BY TypeStep, FreshStep, LostStep, BrokenStep, SpinnerStep, ShowStep DEF Inv
<1>3. QED
  BY <1>1, <1>2, PTL DEF Spec

\* The files, pages, requests and histories keep their types.
THEOREM TypeCorrect == Spec => []TypeOK
<1>1. Inv => TypeOK
  BY DEF Inv
<1>2. QED
  BY <1>1, Invariance, PTL

\* A save that undoes a flag its operator did not edit comes from a page that
\* was read before another save ended.
THEOREM LostUpdates == Spec => []LostUpdateHasACause
<1>1. Inv => LostUpdateHasACause
  BY DEF Inv, LostInv, LostUpdateHasACause
<1>2. QED
  BY <1>1, Invariance, PTL

\* A file without flags, with no write under way, has one of the four causes.
THEOREM BrokenFiles == Spec => []BrokenFileHasACause
<1>1. ASSUME Inv PROVE BrokenFileHasACause
  <2>1. /\ Explained(file, causes) /\ file.kind \in Kind
        /\ file.kind = "broken" /\ Writing = {} => causes \intersect {"overlap", "failed"} # {}
    BY <1>1 DEF Inv, TypeOK, BrokenInv, Document
  <2>2. CASE file.kind = "flags"
    BY <2>2 DEF BrokenFileHasACause
  <2>3. CASE file.kind = "null"
    BY <2>1, <2>3 DEF BrokenFileHasACause, Explained
  <2>4. CASE file.kind = "broken"
    BY <2>1, <2>4 DEF BrokenFileHasACause
  <2>5. CASE file.kind \in {"error", "odd"}
    BY <2>1, <2>5 DEF BrokenFileHasACause, Explained
  <2>6. QED
    BY <2>1, <2>2, <2>3, <2>4, <2>5 DEF Kind
<1>2. QED
  BY <1>1, Invariance, PTL

\* A spinner nothing under way will end is over a tab in which a request failed.
THEOREM StuckSpinners == Spec => []StuckSpinnerHasACause
<1>1. ASSUME Inv PROVE StuckSpinnerHasACause
  BY <1>1 DEF Inv, SpinnerInv, Awaits, StuckSpinnerHasACause
<1>2. QED
  BY <1>1, Invariance, PTL

\* PageShowsOwnSave: once no read of the page is under way, it shows its own save
\* or a newer one, unless its last read failed or was an older one.
THEOREM OwnSaveShown == Spec => []PageShowsOwnSave
<1>1. ASSUME Inv, NEW t \in Tab, page[t].view = "basic", ~Crashed(page[t]),
             reads[t] = EmptyBag, t \notin behind
      PROVE  page[t].base >= own[t]
  <2>1. TypeOK /\ Shows(t)
    BY <1>1 DEF Inv, ShowInv
  <2>2. BagToSet(reads[t]) = {} /\ page[t].base \in Nat /\ own[t] \in Nat
    BY <1>1, <2>1, SingleBags, PageFacts
  <2>3. QED
    BY <1>1, <2>1, <2>2 DEF Shows
<1>2. Inv => PageShowsOwnSave
  BY <1>1 DEF PageShowsOwnSave
<1>3. QED
  BY <1>2, Invariance, PTL
=============================================================================
