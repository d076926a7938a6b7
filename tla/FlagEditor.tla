----------------------------- MODULE FlagEditor -----------------------------
(***************************************************************************)
(* The flag editor (src/src/flagd-ui): browser tabs, each with the Basic or  *)
(* the Advanced view, and the API routes that read and write the one file    *)
(* flagd serves its flags from.                                              *)
(*                                                                           *)
(* A document is what a file, a response, a page or a text area holds: the   *)
(* flags with their default variants, or something else.  What else a flag   *)
(* has never changes.  A tab keeps to its view: the NavBar's other page is    *)
(* another tab.                                                              *)
(***************************************************************************)
EXTENDS Naturals, FiniteSets, Bags, TLC

CONSTANTS
  Tab, Flag, Variant,   \* model values
  Default,              \* the variant every flag has at first
  View,                 \* Tab -> "basic" or "advanced", the page it shows
  MaxEdits,             \* bound: edits
  MaxSaves,             \* bound: saves
  MaxTroubles           \* bound: loads of a page, and requests that fail

ASSUME EditorAssumption ==
  /\ Default \in Variant
  /\ View \in [Tab -> {"basic", "advanced"}]
  /\ MaxSaves \in Nat

Save == 1..MaxSaves

\* "null" is JSON's null, which is also a page that has no data yet; "error" the
\* read route's {error: ...}; "odd" JSON of another shape; "broken" no JSON.
Kind == {"flags", "null", "error", "odd", "broken"}

Document == [kind : Kind, flags : [Flag -> Variant]]

Plain(k) == [kind |-> k, flags |-> [f \in Flag |-> Default]]

VARIABLES
  file,       \* demo.flagd.json
  version,    \* how many writes have been completed
  page,       \* Tab -> the view, its document and the version it was read at
  loading,    \* Tab -> Layout: isLoading, the spinner over the whole page
  schema,     \* Tab -> AdvancedView: schema requests under way, any failed
  reads,      \* Tab -> bag of the requests to read the file
  saves,      \* Save -> the requests to write the file
  edits, clicks, troubles,    \* bounds used
  kept,       \* history: the last document of flags, well formed or odd, that was
              \* written completely
  overwrote,  \* history: the last write that changed a flag nobody edited for it
  causes,     \* history: what may have left the file without flags
  stuck,      \* history: the tabs in which a request failed under the spinner
  own,        \* history: Tab -> the version of its last acknowledged save
  behind      \* history: the tabs whose last read failed, or came out of order

fileVars == <<file, version, kept, overwrote>>
pageVars == <<page, schema, reads>>
bounds == <<edits, clicks, troubles>>
vars == <<file, version, page, loading, schema, reads, saves, edits, clicks, troubles,
          kept, overwrote, causes, stuck, own, behind>>

-----------------------------------------------------------------------------
(* Pages.                                                                   *)

NewPage(view) ==
  [view |-> view, doc |-> Plain("null"), base |-> 0, edited |-> {}]

\* A request to the read route: "old" if a save was acknowledged meanwhile.
NewRead == [stage |-> "asked", doc |-> Plain("null"), version |-> 0, old |-> FALSE]

\* Mutant: a document without flags is listed as one with none.
NeverCrashed(p) == FALSE

\* BasicView lists the flags of its document, and throws if there are none:
\* the page is gone until it is loaded again.
Crashed(p) == p.view = "basic" /\ p.doc.kind \in {"error", "odd"}

\* The spinner covers the page, with the NavBar and every button.
Usable(t) == ~loading[t] /\ ~Crashed(page[t])

\* useEffect of both views: the first read of a page.
FirstRead == SetToBag({NewRead})

\* setReloadData(true): the effect reads the file and sets reloadData back to
\* false, which is a change again: the file is read a second time.
ReloadData(bag) == bag (+) [r \in {NewRead} |-> 2]

Old(r) == [r EXCEPT !.old = TRUE]

\* loadSchema of AdvancedView: two requests, each of which starts the spinner.
NewSchema(view) == [pending |-> IF view = "advanced" THEN 2 ELSE 0, failed |-> view = "basic"]

Ready(t) == schema[t].pending = 0 /\ ~schema[t].failed

Init ==
  /\ file = Plain("flags") /\ kept = file
  /\ version = 0
  /\ page = [t \in Tab |-> NewPage(View[t])]
  /\ loading = [t \in Tab |-> View[t] = "advanced"]
  /\ schema = [t \in Tab |-> NewSchema(View[t])]
  /\ reads = [t \in Tab |-> FirstRead]
  /\ saves = [s \in Save |-> [stage |-> "idle"]]
  /\ edits = 0 /\ clicks = 0 /\ troubles = 0
  /\ overwrote = {} /\ causes = {} /\ stuck = {} /\ behind = {}
  /\ own = [t \in Tab |-> 0]

Trouble == troubles < MaxTroubles /\ troubles' = troubles + 1

TroubleUnless(ok) == IF ok THEN UNCHANGED troubles ELSE Trouble

\* A page is loaded: its requests are no longer listened to.
Load(t) ==
  /\ Trouble
  /\ page' = [page EXCEPT ![t] = NewPage(View[t])]
  /\ loading' = [loading EXCEPT ![t] = View[t] = "advanced"]
  /\ schema' = [schema EXCEPT ![t] = NewSchema(View[t])]
  /\ reads' = [reads EXCEPT ![t] = FirstRead]
  /\ saves' = [s \in Save |->
                 IF saves[s].stage = "idle" \/ saves[s].tab # t THEN saves[s]
                 ELSE IF saves[s].stage \in {"sent", "writing"}
                      THEN [saves[s] EXCEPT !.heard = FALSE] ELSE [stage |-> "idle"]]
  /\ stuck' = stuck \ {t}
  /\ own' = [own EXCEPT ![t] = 0]
  /\ behind' = behind \ {t}
  /\ UNCHANGED <<fileVars, edits, clicks, causes>>

\* requestSchemas: only success ends the spinner, and either of the two does.
SchemaAnswers(t, ok) ==
  /\ schema[t].pending > 0
  /\ schema' = [schema EXCEPT ![t].pending = @ - 1, ![t].failed = @ \/ ~ok]
  /\ loading' = [loading EXCEPT ![t] = @ /\ ~ok]
  /\ stuck' = IF ok THEN stuck ELSE stuck \union {t}
  /\ TroubleUnless(ok)
  /\ UNCHANGED <<fileVars, page, reads, saves, edits, clicks, causes, own, behind>>

-----------------------------------------------------------------------------
(* Reading.                                                                 *)

Replace(t, r, new) == reads' = [reads EXCEPT ![t] = (@ (-) SetToBag({r})) (+) SetToBag({new})]

\* Mutant: the route answers from a cache it filled at its start.
ServeReadCached(t, r) ==
  /\ BagIn(r, reads[t]) /\ r.stage = "asked"
  /\ Replace(t, r, [r EXCEPT !.stage = "answered", !.version = version, !.doc = Plain("flags")])
  /\ UNCHANGED <<fileVars, page, loading, schema, saves, bounds, causes, stuck, own, behind>>

\* GET: the document as it is now, or {error: ...} for what is no JSON.
ServeRead(t, r) ==
  /\ BagIn(r, reads[t]) /\ r.stage = "asked"
  /\ Replace(t, r, [r EXCEPT !.stage = "answered", !.version = version,
                             !.doc = IF file.kind = "broken" THEN Plain("error") ELSE file])
  /\ UNCHANGED <<fileVars, page, loading, schema, saves, bounds, causes, stuck, own, behind>>

\* FileEditor: the text area takes the document when it is mounted, and keeps
\* its text through later reads; it is unmounted when null was read.
TextAfter(p, r) ==
  IF r.doc.kind = "null" \/ p.doc.kind = "null"
  THEN [p EXCEPT !.doc = r.doc, !.base = r.version, !.edited = {}] ELSE p

\* readFile of both views: the response, with no look at its status.  In the
\* Basic view it replaces what the page holds, unsaved edits included.
ReadArrives(t, r) ==
  /\ BagIn(r, reads[t]) /\ r.stage = "answered"
  /\ page' = [page EXCEPT ![t] =
                IF @.view = "advanced" THEN TextAfter(@, r)
                ELSE [@ EXCEPT !.doc = r.doc, !.base = r.version, !.edited = {}]]
  /\ reads' = [reads EXCEPT ![t] = IF Crashed(page'[t]) THEN EmptyBag
                                    ELSE @ (-) SetToBag({r})]
  /\ behind' = IF r.old THEN behind \union {t} ELSE behind \ {t}
  /\ UNCHANGED <<fileVars, loading, schema, saves, bounds, causes, stuck, own>>

\* No response: an alert.
ReadFails(t, r) ==
  /\ BagIn(r, reads[t]) /\ r.stage = "asked"
  /\ reads' = [reads EXCEPT ![t] = @ (-) SetToBag({r})]
  /\ behind' = behind \union {t}
  /\ Trouble
  /\ UNCHANGED <<fileVars, page, loading, schema, saves, edits, clicks, causes, stuck,
                 own>>

-----------------------------------------------------------------------------
(* Editing.                                                                 *)

Edit(t, doc, flags) ==
  /\ Usable(t)
  /\ edits < MaxEdits
  /\ edits' = edits + 1
  /\ page' = [page EXCEPT ![t].doc = doc, ![t].edited = @ \union flags]
  /\ UNCHANGED <<fileVars, loading, schema, reads, saves, clicks, troubles, causes,
                 stuck, own, behind>>

\* Mutant: the arguments of updateFlagData are taken in the wrong order.
UpdatedSwapped(doc, f, v) == [doc EXCEPT !.flags = @ @@ (v :> f)]

\* The flags of a document with one default variant changed.
Updated(doc, f, v) == [doc EXCEPT !.flags[f] = v]

\* DefaultVariantSelect: an option for every variant of the flag; selecting the
\* one that is selected is no change.
Choices(doc, f) == Variant \ {doc.flags[f]}

\* FeatureFlag: another variant is selected.
SelectVariant(t, f, v) ==
  /\ page[t].view = "basic" /\ page[t].doc.kind = "flags"
  /\ v \in Choices(page[t].doc, f)
  /\ Edit(t, Updated(page[t].doc, f, v), {f})

\* handleTextAreaChange, once there is a text: a flag is changed, or the text
\* becomes JSON of another shape or no JSON, or flags again; flags written into
\* an error's place are all the operator's own.
TypeText(t) ==
  /\ page[t].view = "advanced"
  /\ page[t].doc.kind # "null"
  /\ \/ \E f \in Flag, v \in Variant :
          page[t].doc.kind = "flags" /\ Edit(t, Updated(page[t].doc, f, v), {f})
     \/ \E k \in {"flags", "odd", "broken"} \ {page[t].doc.kind} :
          Edit(t, [page[t].doc EXCEPT !.kind = k],
               IF page[t].doc.kind = "error" THEN Flag ELSE {})

-----------------------------------------------------------------------------
(* Saving.                                                                  *)

\* A request to the write route with the page's document; "crossed" once another
\* write has ended while this one had the file open.
Click(t) ==
  /\ Usable(t)
  /\ clicks < MaxSaves
  /\ clicks' = clicks + 1
  /\ saves' = [saves EXCEPT ![clicks + 1] =
       [stage |-> "sent", tab |-> t, heard |-> TRUE, doc |-> page[t].doc,
        base |-> page[t].base, edited |-> page[t].edited, crossed |-> FALSE]]
  /\ loading' = [loading EXCEPT ![t] = TRUE]
  /\ UNCHANGED <<fileVars, pageVars, edits, troubles, stuck, own, behind>>

\* save of BasicView: whatever the page holds, null before its first read.
SaveBasic(t) ==
  /\ page[t].view = "basic"
  /\ Click(t)
  /\ causes' = IF page[t].doc.kind = "null" THEN causes \union {"early"} ELSE causes

\* The schema of flagd (external): flags pass, and what has none may.
Valid(doc, lax) == doc.kind = "flags" \/ (doc.kind \in {"error", "odd"} /\ lax)

\* update of AdvancedView: JSON other than null, once the schemas are loaded
\* (before that, validate is undefined and the handler throws), that passes.
SaveAdvanced(t) ==
  /\ page[t].view = "advanced"
  /\ page[t].doc.kind \notin {"null", "broken"}
  /\ Ready(t)
  /\ \E lax \in BOOLEAN : Valid(page[t].doc, lax)
  /\ Click(t)
  /\ causes' = IF page[t].doc.kind = "flags" THEN causes ELSE causes \union {"lax"}

Writing == {s \in Save : saves[s].stage = "writing"}

\* The end of a write request, and what its tab is told.
Close(s, how) ==
  saves' = [u \in Save |->
    IF u = s THEN IF saves[s].heard
                  THEN [stage |-> how, tab |-> saves[s].tab, heard |-> TRUE,
                        version |-> IF how = "ok" THEN version' ELSE 0]
                  ELSE [stage |-> "idle"]
    ELSE IF {s, u} \subseteq Writing THEN [saves[u] EXCEPT !.crossed = TRUE] ELSE saves[u]]

\* fs.writeFile opens the file and with that empties it.
BeginWrite(s) ==
  /\ saves[s].stage = "sent"
  /\ file' = Plain("broken")
  /\ saves' = [saves EXCEPT ![s].stage = "writing"]
  /\ causes' = IF Writing = {} THEN causes ELSE causes \union {"overlap"}
  /\ UNCHANGED <<version, kept, overwrote, pageVars, loading, bounds, stuck, own, behind>>

\* The flags a write changes although its tab has not edited them.
Unasked(s) ==
  IF saves[s].doc.kind # "flags" THEN {}
  ELSE {f \in Flag \ saves[s].edited : saves[s].doc.flags[f] # kept.flags[f]}

\* Then it writes the document.  Over the longer document of another write that
\* ended meanwhile it leaves a tail.
EndWrite(s) ==
  /\ saves[s].stage = "writing"
  /\ version' = version + 1
  /\ \/ file' = saves[s].doc
     \/ saves[s].crossed /\ file' = Plain("broken")
  /\ kept' = IF file'.kind \in {"flags", "odd"} THEN file' ELSE kept
  /\ overwrote' = IF Unasked(s) = {} THEN overwrote
                  ELSE {[base |-> saves[s].base, over |-> version]}
  /\ \E how \in {"ok", "lost"} : Close(s, how) /\ TroubleUnless(how = "ok")
  /\ UNCHANGED <<pageVars, loading, edits, clicks, causes, stuck, own, behind>>

\* An error after the file was opened (a full disk): status 500.
WriteFails(s) ==
  /\ saves[s].stage = "writing"
  /\ UNCHANGED fileVars
  /\ \E how \in {"refused", "lost"} : Close(s, how)
  /\ causes' = causes \union {"failed"}
  /\ Trouble
  /\ UNCHANGED <<pageVars, loading, edits, clicks, stuck, own, behind>>

\* An error before that, or a request that never arrives.
Refuse(s) ==
  /\ saves[s].stage = "sent"
  /\ UNCHANGED fileVars
  /\ \E how \in {"refused", "lost"} : Close(s, how)
  /\ Trouble
  /\ UNCHANGED <<pageVars, loading, edits, clicks, causes, stuck, own, behind>>

\* Mutant: setReloadData is forgotten.
AnsweredNoReload(s) ==
  LET t == saves[s].tab
  IN  /\ saves[s].stage \in {"ok", "refused"}
      /\ loading' = [loading EXCEPT ![t] = FALSE]
      /\ own' = IF saves[s].stage = "ok" THEN [own EXCEPT ![t] = saves[s].version] ELSE own
      /\ saves' = [saves EXCEPT ![s] = [stage |-> "idle"]]
      /\ UNCHANGED <<fileVars, page, schema, reads, bounds, causes, stuck, behind>>

\* An answer, whatever its status, ends the spinner and reads the file again.
Answered(s) ==
  LET t == saves[s].tab
  IN  /\ saves[s].stage \in {"ok", "refused"}
      /\ loading' = [loading EXCEPT ![t] = FALSE]
      /\ reads' = [reads EXCEPT ![t] = IF Crashed(page[t]) THEN EmptyBag
                                        ELSE ReloadData(BagOfAll(Old, @))]
      /\ own' = IF saves[s].stage = "ok" THEN [own EXCEPT ![t] = saves[s].version] ELSE own
      /\ saves' = [saves EXCEPT ![s] = [stage |-> "idle"]]
      /\ UNCHANGED <<fileVars, page, schema, bounds, causes, stuck, behind>>

\* Mutant: AdvancedView does not end the spinner in its catch.
UnansweredStuck(s) ==
  LET t == saves[s].tab
  IN  /\ saves[s].stage = "lost"
      /\ stuck' = IF page[t].view = "advanced" THEN stuck ELSE stuck \union {t}
      /\ saves' = [saves EXCEPT ![s] = [stage |-> "idle"]]
      /\ UNCHANGED <<fileVars, pageVars, loading, bounds, causes, own, behind>>

\* No answer: AdvancedView ends the spinner, BasicView does not.
Unanswered(s) ==
  LET t == saves[s].tab
  IN  /\ saves[s].stage = "lost"
      /\ IF page[t].view = "advanced"
         THEN loading' = [loading EXCEPT ![t] = FALSE] /\ UNCHANGED stuck
         ELSE stuck' = stuck \union {t} /\ UNCHANGED loading
      /\ saves' = [saves EXCEPT ![s] = [stage |-> "idle"]]
      /\ UNCHANGED <<fileVars, pageVars, bounds, causes, own, behind>>

-----------------------------------------------------------------------------
Operator(t) ==
  \/ Load(t)
  \/ \E f \in Flag, v \in Variant : SelectVariant(t, f, v)
  \/ TypeText(t) \/ SaveBasic(t) \/ SaveAdvanced(t)

Reading(t) ==
  \E r \in BagToSet(reads[t]) : ServeRead(t, r) \/ ReadArrives(t, r) \/ ReadFails(t, r)

Saving(s) ==
  \/ BeginWrite(s) \/ EndWrite(s) \/ WriteFails(s) \/ Refuse(s)
  \/ Answered(s) \/ Unanswered(s)

Next ==
  \/ \E t \in Tab : Operator(t) \/ Reading(t) \/ \E ok \in BOOLEAN : SchemaAnswers(t, ok)
  \/ \E s \in Save : Saving(s)

Spec == Init /\ [][Next]_vars

-----------------------------------------------------------------------------
Page == [view : {"basic", "advanced"}, doc : Document, base : Nat, edited : SUBSET Flag]

Read == [stage : {"asked", "answered"}, doc : Document, version : Nat, old : BOOLEAN]

\* A save that is not under way, is under way, or has ended and is heard of.
SaveState ==
  [stage : {"idle"}] \union
  [stage : {"sent", "writing"}, tab : Tab, heard : BOOLEAN, doc : Document,
   base : Nat, edited : SUBSET Flag, crossed : BOOLEAN] \union
  [stage : {"ok", "refused", "lost"}, tab : Tab, heard : {TRUE}, version : Nat]

TypeOK ==
  /\ file \in Document /\ kept \in Document
  /\ version \in Nat /\ clicks \in 0..MaxSaves
  /\ page \in [Tab -> Page]
  /\ loading \in [Tab -> BOOLEAN]
  /\ schema \in [Tab -> [pending : Nat, failed : BOOLEAN]]
  /\ DOMAIN reads = Tab /\ \A t \in Tab : BagToSet(reads[t]) \subseteq Read
  /\ saves \in [Save -> SaveState]
  /\ stuck \subseteq Tab /\ behind \subseteq Tab
  /\ own \in [Tab -> Nat]

\* Write route and views: when no write is under way the file holds flags,
\* unless a page was saved before it had read them, two writes overlapped, a
\* write failed half-way, or the schema let a document without flags pass.
BrokenFileHasACause ==
  Writing = {} =>
    CASE file.kind = "flags"            -> TRUE
      [] file.kind = "null"             -> "early" \in causes
      [] file.kind = "broken"           -> causes \intersect {"overlap", "failed"} # {}
      [] file.kind \in {"error", "odd"} -> "lax" \in causes

\* Both views save the whole file: a save changes a flag its operator has not
\* edited only when another save was completed after its page was read.
LostUpdateHasACause == \A o \in overwrote : o.base < o.over

\* Basic view: once a page has read the file again after its own save, it shows
\* that save or a newer one, unless an older read came in after it or a read
\* failed.
PageShowsOwnSave ==
  \A t \in Tab :
    page[t].view = "basic" /\ ~Crashed(page[t]) /\ reads[t] = EmptyBag /\ t \notin behind
      => page[t].base >= own[t]

\* Layout: a spinner that no request under way will end covers only a tab in
\* which a save had no answer or a schema could not be loaded.
StuckSpinnerHasACause ==
  \A t \in Tab :
    loading[t] /\ schema[t].pending = 0
      /\ (\A s \in Save : saves[s].stage # "idle" /\ saves[s].heard => saves[s].tab # t)
      => t \in stuck
=============================================================================
