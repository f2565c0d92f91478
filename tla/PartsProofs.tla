----------------------------- MODULE PartsProofs -----------------------------
(***************************************************************************)
(* Proofs about the parts.  Each part has an inductive invariant of its    *)
(* own, stated at the end of its module: EditorInv (ResourceManager),      *)
(* ImportInv (CatalogImport), PageInv (BookingPages), RoomsInv             *)
(* (ResourcePage), SessionInv (Session) and DirectoryInv (UserManager).    *)
(*                                                                         *)
(* For each part: lemmas on its operators, one lemma for each action or    *)
(* group of actions, the step of the part, and what follows for the whole, *)
(* of which a step is a step of one part and a stutter of the others.      *)
(***************************************************************************)
EXTENDS Parts, FiniteSetTheorems, TLAPS

----------------------------------------------------------------------------
(* The editor of a resource.                                               *)

\* A page that has just been rendered.
FreshEditor ==
  /\ RM_editing = None /\ RM_form = "invalid" /\ RM_list = RM!NoItems /\ RM_loading = FALSE
  /\ RM_load = [l \in Loads |-> RM!NoLoad]
  /\ RM_request = [k \in RM!Kind |-> RM!NoRequest]
  /\ RM_conflict = RM!NoConflict
  /\ RM_shown = RM_version
  /\ RM_version \in [Managed -> 0..MaxVersion]
  /\ RM_closed \in [Managed -> SUBSET Closure] /\ RM_unused \subseteq Closure
  /\ \A r \in Managed : \A c \in RM_closed[r] : ClosureOf[c] = r

LEMMA FreshEditorIsFit == FreshEditor => RM!EditorInv
<1> SUFFICES ASSUME FreshEditor PROVE RM!EditorInv
  OBVIOUS
<1>1. \A k \in RM!Kind : /\ RM_request[k] = RM!NoRequest
                         /\ RM_request[k].op = "none" /\ RM_request[k].on = None
                         /\ RM_request[k].answer = "pending"
  BY DEF FreshEditor, RM!NoRequest
<1>2. \A c \in Closure : RM_list[c] = 0
  BY DEF FreshEditor, RM!NoItems
<1>3. \A l \in Loads : RM_load[l] = RM!NoLoad
  BY DEF FreshEditor
<1>4. "save" \in RM!Kind /\ "closure" \in RM!Kind /\ "status" \in RM!Kind
  BY DEF RM!Kind
<1>5. RM!TypeOK
  <2>1. RM_list \in [Closure -> 0..2]
    BY DEF FreshEditor, RM!NoItems
  <2>2. RM_load \in [Loads -> [phase : {"idle", "sent", "read"},
                         of : Managed \cup {None}, live : BOOLEAN, items : SUBSET Closure]]
    <3>1. RM!NoLoad \in [phase : {"idle", "sent", "read"},
                         of : Managed \cup {None}, live : BOOLEAN, items : SUBSET Closure]
      BY DEF RM!NoLoad
    <3>2. QED
      BY <3>1 DEF FreshEditor
  <2>3. RM_request \in [RM!Kind -> [op : RM!Operation, on : Managed \cup {None},
                           item : Closure \cup {None}, answer : RM!Outcome, version : 0..MaxVersion]]
    <3>1. RM!NoRequest \in [op : RM!Operation, on : Managed \cup {None},
                           item : Closure \cup {None}, answer : RM!Outcome, version : 0..MaxVersion]
      BY ManagedAssumption DEF RM!NoRequest, RM!Operation, RM!Outcome
    <3>2. QED
      BY <3>1 DEF FreshEditor
  <2>4. QED
    BY <1>1, <2>1, <2>2, <2>3 DEF FreshEditor, RM!TypeOK, RM!Forms
<1>6. RM!EditorShowsItsResource
  BY <1>2 DEF FreshEditor, RM!EditorShowsItsResource, RM!NoConflict
<1>7. RM!RequestsFit /\ RM!OneRequest
  BY <1>1, <1>4 DEF RM!RequestsFit, RM!OneRequest
<1>8. RM!LoadsFit
  BY <1>3 DEF FreshEditor, RM!LoadsFit, RM!NoLoad
<1>9. RM!AddsFit /\ RM!VersionsFit
  BY <1>1, <1>2, <1>4 DEF FreshEditor, RM!AddsFit, RM!VersionsFit
<1>10. QED
  BY <1>5, <1>6, <1>7, <1>8, <1>9 DEF RM!EditorInv

LEMMA EditorStarts == RM!Init => RM!EditorInv
<1> SUFFICES ASSUME RM!Init PROVE RM!EditorInv
  OBVIOUS
<1>2. RM_version \in [Managed -> 0..MaxVersion]
  BY ManagedAssumption DEF RM!Init
<1>3. /\ RM_closed \in [Managed -> SUBSET Closure] /\ RM_unused \subseteq Closure
      /\ \A r \in Managed : \A c \in RM_closed[r] : ClosureOf[c] = r
  BY DEF RM!Init
<1>4. FreshEditor
  BY <1>2, <1>3 DEF RM!Init, FreshEditor
<1>5. QED
  BY <1>4, FreshEditorIsFit

LEMMA EditorStutters == RM!EditorInv /\ UNCHANGED RMvars => RM!EditorInv'
BY DEF RMvars, RM!EditorInv, RM!TypeOK, RM!EditorShowsItsResource, RM!RequestsFit, RM!OneRequest,
       RM!LoadsFit, RM!AddsFit, RM!VersionsFit

LEMMA EditFieldKeepsEditor == RM!EditorInv /\ RM!EditField => RM!EditorInv'
BY DEF RM!EditField, RM!EditorInv, RM!TypeOK, RM!EditorShowsItsResource, RM!RequestsFit, RM!OneRequest,
       RM!LoadsFit, RM!AddsFit, RM!VersionsFit, 
       RM!Forms, RM!server

\* Without a request, nothing but the closures on their way has to fit.
LEMMA IdleEditor ==
  ASSUME RM!EditorInv, \A k \in RM!Kind : RM_request[k] = RM!NoRequest,
         RM_editing' \in Managed \cup {None}, RM_form' \in RM!Forms,
         RM_list' = RM!NoItems, RM_loading' \in BOOLEAN,
         RM_load' \in [Loads -> [phase : {"idle", "sent", "read"},
                         of : Managed \cup {None}, live : BOOLEAN, items : SUBSET Closure]],
         \A l \in Loads : /\ RM_load'[l].phase # "idle" => RM_load'[l].of \in Managed
                          /\ RM_load'[l].live => RM_load'[l].of = RM_editing'
                          /\ \A c \in RM_load'[l].items : ClosureOf[c] = RM_load'[l].of,
         RM_conflict' = RM!NoConflict,
         UNCHANGED <<RM!server, RM_shown, RM_request>>
  PROVE  RM!EditorInv'
<1>1. \A k \in RM!Kind : /\ RM_request'[k].op = "none" /\ RM_request'[k] = RM!NoRequest
                         /\ RM_request'[k].answer = "pending"
  BY DEF RM!NoRequest
<1>2. "save" \in RM!Kind /\ "closure" \in RM!Kind /\ "status" \in RM!Kind
  BY DEF RM!Kind
<1>3. \A c \in Closure : RM_list'[c] = 0
  BY DEF RM!NoItems
<1>4. RM!TypeOK'
  <2>1. RM_list' \in [Closure -> 0..2]
    BY DEF RM!NoItems
  <2>2. QED
    BY <2>1 DEF RM!EditorInv, RM!TypeOK, RM!server
<1>5. RM!EditorShowsItsResource'
  BY <1>3 DEF RM!EditorShowsItsResource, RM!NoConflict
<1>6. (RM!RequestsFit /\ RM!OneRequest)'
  BY <1>1, <1>2 DEF RM!RequestsFit, RM!OneRequest
<1>7. RM!LoadsFit'
  BY DEF RM!EditorInv, RM!LoadsFit, RM!server
<1>8. (RM!AddsFit /\ RM!VersionsFit)'
  BY <1>1, <1>2, <1>3 DEF RM!EditorInv, RM!AddsFit, RM!VersionsFit, RM!server
<1>9. QED
  BY <1>4, <1>5, <1>6, <1>7, <1>8 DEF RM!EditorInv

LEMMA OpenKeepsEditor == RM!EditorInv /\ RM!Open => RM!EditorInv'
<1> SUFFICES ASSUME RM!EditorInv, RM!Open PROVE RM!EditorInv'
  OBVIOUS
<1>1. FreshEditor'
  BY DEF FreshEditor, RM!Open, RM!EditorInv, RM!TypeOK, RM!LoadsFit, RM!server
<1>2. (FreshEditor => RM!EditorInv)'
  BY FreshEditorIsFit, PTL
<1>3. QED
  BY <1>1, <1>2

LEMMA StartCreateKeepsEditor == RM!EditorInv /\ RM!StartCreate => RM!EditorInv'
<1> SUFFICES ASSUME RM!EditorInv, RM!StartCreate PROVE RM!EditorInv'
  OBVIOUS
<1>1. RM_load' \in [Loads -> [phase : {"idle", "sent", "read"},
                         of : Managed \cup {None}, live : BOOLEAN, items : SUBSET Closure]]
  BY DEF RM!StartCreate, RM!EditorInv, RM!TypeOK
<1>2. \A l \in Loads : /\ RM_load'[l].phase # "idle" => RM_load'[l].of \in Managed
                       /\ RM_load'[l].live => RM_load'[l].of = RM_editing'
                       /\ \A c \in RM_load'[l].items : ClosureOf[c] = RM_load'[l].of
  BY DEF RM!StartCreate, RM!EditorInv, RM!TypeOK, RM!LoadsFit
<1>3. QED
  BY <1>1, <1>2, IdleEditor DEF RM!StartCreate, RM!Idle, RM!Forms

LEMMA EffectTypes ==
  ASSUME RM!TypeOK, NEW r \in Managed, RM!Effect(r)
  PROVE  RM_load' \in [Loads -> [phase : {"idle", "sent", "read"},
                         of : Managed \cup {None}, live : BOOLEAN, items : SUBSET Closure]]
<1> DEFINE T == [phase : {"idle", "sent", "read"},
                 of : Managed \cup {None}, live : BOOLEAN, items : SUBSET Closure]
<1>1. PICK n \in Loads :
        RM_load' = [m \in Loads |->
          IF m = n THEN [phase |-> "sent", of |-> r, live |-> TRUE, items |-> {}]
          ELSE [RM_load[m] EXCEPT !.live = FALSE]]
  BY DEF RM!Effect
<1>2. \A m \in Loads : RM_load[m] \in T
  BY DEF RM!TypeOK
<1>3. [phase |-> "sent", of |-> r, live |-> TRUE, items |-> {}] \in T
  OBVIOUS
<1>4. \A x \in T : [x EXCEPT !.live = FALSE] \in T
  OBVIOUS
<1>5. \A m \in Loads : RM_load'[m] \in T
  BY <1>1, <1>2, <1>3, <1>4
<1>6. QED
  BY <1>1, <1>5

LEMMA StartEditKeepsEditor ==
  ASSUME RM!EditorInv, NEW r \in Managed, RM!StartEdit(r)
  PROVE  RM!EditorInv'
<1>1. RM_load' \in [Loads -> [phase : {"idle", "sent", "read"},
                         of : Managed \cup {None}, live : BOOLEAN, items : SUBSET Closure]]
  <2>1. CASE RM_editing = r
    BY <2>1 DEF RM!StartEdit, RM!EditorInv, RM!TypeOK
  <2>2. CASE RM_editing # r
    BY <2>2, EffectTypes DEF RM!StartEdit, RM!EditorInv, RM!TypeOK
  <2>3. QED
    BY <2>1, <2>2
<1>2. \A l \in Loads : /\ RM_load'[l].phase # "idle" => RM_load'[l].of \in Managed
                       /\ RM_load'[l].live => RM_load'[l].of = RM_editing'
                       /\ \A c \in RM_load'[l].items : ClosureOf[c] = RM_load'[l].of
  BY DEF RM!StartEdit, RM!Effect, RM!EditorInv, RM!TypeOK, RM!LoadsFit
<1>3. QED
  BY <1>1, <1>2, IdleEditor DEF RM!StartEdit, RM!Idle, RM!Forms

LEMMA ServeLoadKeepsEditor ==
  ASSUME RM!EditorInv, NEW l \in Loads, RM!ServeLoad(l)
  PROVE  RM!EditorInv'
<1>1. RM_load[l].of \in Managed /\ RM_closed[RM_load[l].of] \in SUBSET Closure
  BY DEF RM!ServeLoad, RM!EditorInv, RM!TypeOK, RM!LoadsFit
<1>2. RM!TypeOK'
  <2> DEFINE L == [phase : {"idle", "sent", "read"}, of : Managed \cup {None},
                   live : BOOLEAN, items : SUBSET Closure]
  <2>1. RM_load \in [Loads -> L]
    BY DEF RM!EditorInv, RM!TypeOK
  <2>2. \A x \in L, i \in SUBSET Closure :
          [x EXCEPT !.phase = "read", !.items = i] \in L
    OBVIOUS
  <2>3. RM_load' = [RM_load EXCEPT ![l] =
          [RM_load[l] EXCEPT !.phase = "read", !.items = RM_closed[RM_load[l].of]]]
    BY <2>1 DEF RM!ServeLoad
  <2> HIDE DEF L
  <2>4. RM_load[l] \in L
    BY <2>1
  <2>5. RM_load' \in [Loads -> L]
    BY <1>1, <2>1, <2>2, <2>3, <2>4
  <2>6. UNCHANGED <<RM_version, RM_closed, RM_unused, RM_shown, RM_editing, RM_form,
                    RM_list, RM_loading, RM_request, RM_conflict>>
    BY DEF RM!ServeLoad, RM!server
  <2>7. QED
    BY <2>5, <2>6 DEF RM!EditorInv, RM!TypeOK, L
<1>3. RM!LoadsFit'
  BY <1>1 DEF RM!ServeLoad, RM!EditorInv, RM!TypeOK, RM!LoadsFit, RM!server
<1>4. (/\ RM!EditorShowsItsResource /\ RM!RequestsFit /\ RM!OneRequest
       /\ RM!AddsFit /\ RM!VersionsFit)'
  BY DEF RM!ServeLoad, RM!EditorInv, RM!EditorShowsItsResource, RM!RequestsFit, RM!OneRequest,
         RM!AddsFit, RM!VersionsFit, RM!server
<1>5. QED
  BY <1>2, <1>3, <1>4 DEF RM!EditorInv

LEMMA FinishLoadKeepsEditor ==
  ASSUME RM!EditorInv, NEW l \in Loads, RM!FinishLoad(l)
  PROVE  RM!EditorInv'
<1>1. \A c \in Closure :
        \/ RM_list'[c] = RM_list[c]
        \/ RM_list'[c] = 0
        \/ RM_list'[c] = 1 /\ ClosureOf[c] = RM_editing
  BY DEF RM!FinishLoad, RM!EditorInv, RM!LoadsFit
<1>2. RM!TypeOK'
  <2>1. RM_list' \in [Closure -> 0..2]
    BY DEF RM!FinishLoad, RM!EditorInv, RM!TypeOK
  <2>2. RM_load' \in [Loads -> [phase : {"idle", "sent", "read"},
                         of : Managed \cup {None}, live : BOOLEAN, items : SUBSET Closure]]
    BY DEF RM!FinishLoad, RM!EditorInv, RM!TypeOK, RM!NoLoad
  <2>3. RM_loading' \in BOOLEAN
    BY DEF RM!FinishLoad, RM!EditorInv, RM!TypeOK
  <2>4. QED
    BY <2>1, <2>2, <2>3 DEF RM!FinishLoad, RM!EditorInv, RM!TypeOK, RM!server
<1>3. RM!LoadsFit'
  BY DEF RM!FinishLoad, RM!EditorInv, RM!TypeOK, RM!LoadsFit, RM!server, RM!NoLoad
<1>4. (/\ RM!EditorShowsItsResource /\ RM!RequestsFit /\ RM!OneRequest
       /\ RM!AddsFit /\ RM!VersionsFit)'
  BY <1>1 DEF RM!FinishLoad, RM!EditorInv, RM!EditorShowsItsResource, RM!RequestsFit, RM!OneRequest,
         RM!AddsFit, RM!VersionsFit, RM!server
<1>5. QED
  BY <1>2, <1>3, <1>4 DEF RM!EditorInv

LEMMA SendKeepsEditor ==
  ASSUME RM!EditorInv, NEW k \in RM!Kind, NEW op \in RM!Operation, NEW r \in Managed,
         NEW c \in Closure \cup {None}, RM!Send(k, op, r, c),
         \/ k = "save" /\ op = "create" /\ RM_conflict' = RM!NoConflict
         \/ k = "save" /\ op = "update" /\ r = RM_editing
         \/ k = "closure" /\ op \in {"add", "remove"} /\ r = RM_editing /\ c \in Closure
              /\ ClosureOf[c] = r
         \/ k = "status" /\ op = "status",
         RM_form' \in RM!Forms, RM_conflict' \in {RM_conflict, RM!NoConflict}
  PROVE  RM!EditorInv'
<1> DEFINE q == [RM!NoRequest EXCEPT !.op = op, !.on = r, !.item = c]
<1> DEFINE Q == [op : RM!Operation, on : Managed \cup {None}, item : Closure \cup {None},
                 answer : RM!Outcome, version : 0..MaxVersion]
<1>1. q.op = op /\ q.on = r /\ q.item = c /\ q.answer = "pending" /\ q.version = 0
  BY DEF RM!NoRequest
<1>q. q \in Q
  <2>1. RM!NoRequest \in Q
    BY ManagedAssumption DEF RM!NoRequest, RM!Operation, RM!Outcome
  <2>2. \A x \in Q : [x EXCEPT !.op = op, !.on = r, !.item = c] \in Q
    OBVIOUS
  <2>3. QED
    BY <2>1, <2>2
<1> HIDE DEF q
<1>2. /\ RM_request' = [RM_request EXCEPT ![k] = q]
      /\ \A j \in RM!Kind : RM_request[j] = RM!NoRequest
  BY DEF RM!Send, RM!Idle, q
<1>3. /\ RM_request'[k] = q
      /\ \A j \in RM!Kind \ {k} : RM_request'[j] = RM!NoRequest /\ RM_request'[j].op = "none"
                                  /\ RM_request'[j].on = None /\ RM_request'[j].answer = "pending"
  BY <1>2 DEF RM!EditorInv, RM!TypeOK, RM!NoRequest
<1>4. "save" \in RM!Kind /\ "closure" \in RM!Kind /\ "status" \in RM!Kind
  BY DEF RM!Kind
<1>5. op # "none" /\ r # None
  BY ManagedAssumption
<1>6. RM!TypeOK'
  <2>2. RM_request' \in [RM!Kind -> [op : RM!Operation, on : Managed \cup {None},
                           item : Closure \cup {None}, answer : RM!Outcome, version : 0..MaxVersion]]
    BY <1>2, <1>q DEF RM!EditorInv, RM!TypeOK
  <2>3. \A j \in RM!Kind : RM_request'[j].op = "none" <=> RM_request'[j].on = None
    BY <1>1, <1>3, <1>5
  <2>4. QED
    BY <2>2, <2>3 DEF RM!Send, RM!EditorInv, RM!TypeOK, RM!server
<1>7. (RM!EditorShowsItsResource /\ RM!LoadsFit)'
  BY DEF RM!Send, RM!EditorInv, RM!EditorShowsItsResource, RM!LoadsFit, RM!NoConflict, RM!server
<1>8. RM!RequestsFit'
  BY <1>1, <1>3, <1>4, <1>5 DEF RM!Send, RM!RequestsFit
<1>9. RM!OneRequest'
  BY <1>3 DEF RM!OneRequest
<1>10. (RM!AddsFit /\ RM!VersionsFit)'
  BY <1>1, <1>3, <1>4 DEF RM!Send, RM!EditorInv, RM!AddsFit, RM!VersionsFit, RM!server
<1>11. QED
  BY <1>6, <1>7, <1>8, <1>9, <1>10 DEF RM!EditorInv

LEMMA SubmitKeepsEditor ==
  ASSUME RM!EditorInv, NEW r \in Managed, RM!Submit(r)
  PROVE  RM!EditorInv'
<1>1. \/ RM!Send("save", "create", r, None)
      \/ r = RM_editing /\ RM!Send("save", "update", r, None)
  BY DEF RM!Submit
<1>2. QED
  BY <1>1, SendKeepsEditor DEF RM!Submit, RM!Kind, RM!Operation, RM!Forms

LEMMA ClosureRequestKeepsEditor ==
  ASSUME RM!EditorInv, NEW c \in Closure, RM!SubmitClosure(c) \/ RM!DeleteClosure(c)
  PROVE  RM!EditorInv'
<1>1. /\ RM_editing \in Managed /\ ClosureOf[c] = RM_editing
      /\ RM_form' \in RM!Forms /\ RM_conflict' \in {RM_conflict, RM!NoConflict}
      /\ \E op \in {"add", "remove"} : RM!Send("closure", op, RM_editing, c)
  BY DEF RM!SubmitClosure, RM!DeleteClosure, RM!CanRemove, RM!EditorInv, RM!TypeOK,
         RM!EditorShowsItsResource
<1>2. QED
  BY <1>1, SendKeepsEditor DEF RM!Kind, RM!Operation

LEMMA ChangeStatusKeepsEditor ==
  ASSUME RM!EditorInv, NEW r \in Managed, RM!ChangeStatus(r)
  PROVE  RM!EditorInv'
<1>1. RM_form' \in RM!Forms
  BY DEF RM!ChangeStatus, RM!EditorInv, RM!TypeOK
<1>2. QED
  BY <1>1, SendKeepsEditor DEF RM!ChangeStatus, RM!Kind, RM!Operation

LEMMA AnsweredIsTyped ==
  ASSUME RM!EditorInv, NEW k \in RM!Kind, RM_request[k].op # "none",
         NEW answer \in RM!Outcome, NEW v \in 0..MaxVersion, RM!Answered(k, answer, v)
  PROVE  /\ RM_request' \in [RM!Kind -> [op : RM!Operation, on : Managed \cup {None},
                item : Closure \cup {None}, answer : RM!Outcome, version : 0..MaxVersion]]
         /\ RM_request'[k].op = RM_request[k].op /\ RM_request'[k].on = RM_request[k].on
         /\ RM_request'[k].item = RM_request[k].item
         /\ RM_request'[k].answer = answer /\ RM_request'[k].version = v
         /\ \A j \in RM!Kind \ {k} : RM_request'[j] = RM_request[j]
BY DEF RM!Answered, RM!EditorInv, RM!TypeOK

\* An answer other than "ok" gives nothing away.
LEMMA AnswerKeepsEditor ==
  ASSUME RM!EditorInv, NEW k \in RM!Kind, RM_request[k].op # "none",
         NEW answer \in RM!Outcome \ {"ok"}, RM!Answered(k, answer, 0),
         answer = "bookings" => RM_request[k].op # "create",
         UNCHANGED <<RM!server, RM_shown, RM!editor, RM_conflict>>
  PROVE  RM!EditorInv'
<1>1. /\ RM_request' \in [RM!Kind -> [op : RM!Operation, on : Managed \cup {None},
                item : Closure \cup {None}, answer : RM!Outcome, version : 0..MaxVersion]]
      /\ RM_request'[k].op = RM_request[k].op /\ RM_request'[k].on = RM_request[k].on
      /\ RM_request'[k].item = RM_request[k].item
      /\ RM_request'[k].answer = answer
      /\ \A j \in RM!Kind \ {k} : RM_request'[j] = RM_request[j]
  BY AnsweredIsTyped, ManagedAssumption
<1>2. "save" \in RM!Kind /\ "closure" \in RM!Kind /\ "status" \in RM!Kind
  BY DEF RM!Kind
<1>3. RM!TypeOK'
  BY <1>1 DEF RM!EditorInv, RM!TypeOK, RM!server, RM!editor
<1>4. (RM!EditorShowsItsResource /\ RM!LoadsFit)'
  BY DEF RM!EditorInv, RM!EditorShowsItsResource, RM!LoadsFit, RM!server, RM!editor
<1>5. RM!RequestsFit'
  BY <1>1, <1>2 DEF RM!EditorInv, RM!RequestsFit, RM!editor
<1>6. RM!OneRequest'
  BY <1>1 DEF RM!EditorInv, RM!OneRequest
<1>7. (RM!AddsFit /\ RM!VersionsFit)'
  BY <1>1, <1>2 DEF RM!EditorInv, RM!AddsFit, RM!VersionsFit, RM!server, RM!editor
<1>8. QED
  BY <1>3, <1>4, <1>5, <1>6, <1>7 DEF RM!EditorInv

LEMMA RefuseKeepsEditor ==
  ASSUME RM!EditorInv, NEW k \in RM!Kind, RM!Refuse(k) \/ RM!Lose(k)
  PROVE  RM!EditorInv'
<1>1. /\ RM_request[k].op # "none"
      /\ \E answer \in RM!Outcome \ {"ok"} :
            RM!Answered(k, answer, 0) /\ (answer = "bookings" => RM_request[k].op # "create")
      /\ UNCHANGED <<RM!server, RM_shown, RM!editor, RM_conflict>>
  BY DEF RM!Refuse, RM!Lose, RM!Outcome
<1>2. QED
  BY <1>1, AnswerKeepsEditor

LEMMA CommitKeepsEditor ==
  ASSUME RM!EditorInv, NEW k \in RM!Kind, RM!Commit(k)
  PROVE  RM!EditorInv'
<1> DEFINE q == RM_request[k]
<1>1. /\ q.op # "none" /\ q.on \in Managed /\ q.answer = "pending"
      /\ UNCHANGED <<RM_shown, RM!editor, RM_conflict>>
      /\ RM!Answered(k, "ok", RM_version'[q.on])
  BY DEF RM!Commit, RM!EditorInv, RM!TypeOK
<1>2. /\ RM_version' \in [Managed -> 0..MaxVersion]
      /\ \A r \in Managed : RM_version[r] <= RM_version'[r]
  <2>1. RM_version \in [Managed -> 0..MaxVersion] /\ MaxVersion \in Nat
    BY ManagedAssumption DEF RM!EditorInv, RM!TypeOK
  <2>2. \/ RM_version' = RM_version
        \/ \E v \in 0..MaxVersion : /\ RM_version[q.on] <= v
                                    /\ RM_version' = [RM_version EXCEPT ![q.on] = v]
    <3>1. CASE q.op = "create" /\ RM_version[q.on] = 0
      <4>1. 1 \in 0..MaxVersion /\ RM_version[q.on] <= 1
        BY <3>1, ManagedAssumption
      <4>2. RM_version' = [RM_version EXCEPT ![q.on] = 1]
        BY <3>1 DEF RM!Commit
      <4>3. QED
        BY <3>1, <4>1, <4>2
    <3>2. CASE q.op \in {"update", "status"} /\ RM_version[q.on] \in 1..(MaxVersion - 1)
      <4>1. RM_version[q.on] + 1 \in 0..MaxVersion /\ RM_version[q.on] <= RM_version[q.on] + 1
        BY <2>1, <3>2
      <4>2. RM_version' = [RM_version EXCEPT ![q.on] = RM_version[q.on] + 1]
        BY <3>2 DEF RM!Commit
      <4>3. QED
        BY <4>1, <4>2
    <3>3. CASE q.op \in {"add", "remove"}
      BY <3>3 DEF RM!Commit
    <3>4. QED
      BY <3>1, <3>2, <3>3 DEF RM!Commit
  <2> HIDE DEF q
  <2>3. QED
    BY <1>1, <2>1, <2>2
<1>3. /\ RM_closed' \in [Managed -> SUBSET Closure] /\ RM_unused' \subseteq RM_unused
      /\ \A r \in Managed : \A c \in RM_closed'[r] : ClosureOf[c] = r
      /\ q.op = "add" => q.item \notin RM_unused' /\ q.item \in RM_unused
  <2>1. CASE q.op = "add" /\ q.item \in RM_unused
    <3>1. k = "closure" /\ q.item \in Closure /\ ClosureOf[q.item] = q.on
      BY <2>1 DEF RM!Kind, RM!EditorInv, RM!RequestsFit
    <3>2. /\ RM_closed' = [RM_closed EXCEPT ![q.on] = @ \cup {q.item}]
          /\ RM_unused' = RM_unused \ {q.item}
      BY <2>1 DEF RM!Commit
    <3>3. QED
      BY <1>1, <2>1, <3>1, <3>2 DEF RM!EditorInv, RM!TypeOK, RM!LoadsFit
  <2>2. CASE q.op # "add"
    BY <1>1, <2>2 DEF RM!Commit, RM!EditorInv, RM!TypeOK, RM!LoadsFit
  <2>3. QED
    BY <2>1, <2>2 DEF RM!Commit
<1>4. /\ RM_request' \in [RM!Kind -> [op : RM!Operation, on : Managed \cup {None},
                item : Closure \cup {None}, answer : RM!Outcome, version : 0..MaxVersion]]
      /\ RM_request'[k].op = q.op /\ RM_request'[k].on = q.on
      /\ RM_request'[k].item = q.item
      /\ RM_request'[k].answer = "ok" /\ RM_request'[k].version = RM_version'[q.on]
      /\ \A j \in RM!Kind \ {k} : RM_request'[j] = RM_request[j]
  BY <1>1, <1>2, AnsweredIsTyped DEF RM!Outcome
<1> HIDE DEF q
<1>5. "save" \in RM!Kind /\ "closure" \in RM!Kind /\ "status" \in RM!Kind
  BY DEF RM!Kind
<1>6. RM!TypeOK'
  BY <1>1, <1>2, <1>3, <1>4 DEF q, RM!EditorInv, RM!TypeOK, RM!editor
<1>7. (RM!EditorShowsItsResource /\ RM!LoadsFit)'
  BY <1>1, <1>3 DEF RM!EditorInv, RM!EditorShowsItsResource, RM!LoadsFit, RM!editor
<1>8. RM!RequestsFit'
  BY <1>1, <1>4, <1>5 DEF q, RM!EditorInv, RM!RequestsFit, RM!editor
<1>9. RM!OneRequest'
  BY <1>4 DEF q, RM!EditorInv, RM!OneRequest
<1>10. RM!AddsFit'
  <2>1. \A c \in Closure : RM_list[c] \in 0..2 /\ (c \in RM_unused => RM_list[c] <= 1)
    BY DEF RM!EditorInv, RM!TypeOK, RM!AddsFit
  <2>2. \A c \in Closure : RM_list'[c] = 2 => c \notin RM_unused'
    BY <1>1, <1>3 DEF RM!EditorInv, RM!AddsFit, RM!editor
  <2>3. RM_request'["closure"].op = "add" /\ RM_request'["closure"].answer = "ok"
         => RM_request'["closure"].item \notin RM_unused' /\ RM_list'[RM_request'["closure"].item] <= 1
    <3>1. CASE k = "closure"
      <4>1. q.op = "add" => q.item \in Closure /\ q.item \in RM_unused /\ q.item \notin RM_unused'
        BY <1>3, <3>1 DEF q, RM!EditorInv, RM!RequestsFit
      <4>2. QED
        BY <1>1, <1>4, <2>1, <3>1, <4>1 DEF RM!editor
    <3>2. CASE k # "closure"
      BY <1>1, <1>3, <1>4, <1>5, <3>2 DEF RM!EditorInv, RM!AddsFit, RM!editor
    <3>3. QED
      BY <3>1, <3>2
  <2>4. QED
    BY <2>2, <2>3 DEF RM!AddsFit
<1>11. RM!VersionsFit'
  <2>1. \A r \in Managed : /\ RM_shown'[r] <= RM_version'[r]
    BY <1>1, <1>2 DEF RM!EditorInv, RM!TypeOK, RM!VersionsFit
  <2>2. RM_shown'[q.on] <= RM_request'[k].version /\ RM_request'[k].version <= RM_version'[q.on]
    BY <1>1, <1>2, <1>4, <2>1
  <2>3. \A j \in RM!Kind \ {k} : RM_request'[j].op = "none" /\ RM_request'[j].answer = "pending"
    BY <1>1, <1>4 DEF q, RM!EditorInv, RM!OneRequest, RM!RequestsFit, RM!NoRequest
  <2>4. QED
    BY <1>4, <2>1, <2>2, <2>3 DEF RM!VersionsFit
<1>12. QED
  BY <1>6, <1>7, <1>8, <1>9, <1>10, <1>11 DEF RM!EditorInv

\* When its answer is dealt with, there is no request.
LEMMA ReleasedIsIdle ==
  ASSUME RM!EditorInv, NEW k \in RM!Kind, RM_request[k].answer # "pending", RM!Released(k)
  PROVE  /\ RM_request[k].op # "none" /\ RM_request[k].on \in Managed
         /\ RM_request' \in [RM!Kind -> [op : RM!Operation, on : Managed \cup {None},
                item : Closure \cup {None}, answer : RM!Outcome, version : 0..MaxVersion]]
         /\ \A j \in RM!Kind : /\ RM_request'[j] = RM!NoRequest
                               /\ RM_request'[j].op = "none" /\ RM_request'[j].on = None
                               /\ RM_request'[j].answer = "pending"
         /\ (RM!RequestsFit /\ RM!OneRequest)'
<1>1. RM!NoRequest \in [op : RM!Operation, on : Managed \cup {None},
                        item : Closure \cup {None}, answer : RM!Outcome, version : 0..MaxVersion]
  BY ManagedAssumption DEF RM!NoRequest, RM!Operation, RM!Outcome
<1>2. RM!NoRequest.op = "none" /\ RM!NoRequest.answer = "pending" /\ RM!NoRequest.on = None
  BY DEF RM!NoRequest
<1>3. RM_request[k].op # "none"
  BY <1>2 DEF RM!EditorInv, RM!RequestsFit
<1>4. RM_request[k].on \in Managed
  BY <1>3 DEF RM!EditorInv, RM!TypeOK
<1>5. \A j \in RM!Kind \ {k} : RM_request[j] = RM!NoRequest
  BY <1>3 DEF RM!EditorInv, RM!OneRequest, RM!RequestsFit
<1>6. RM_request' = [RM_request EXCEPT ![k] = RM!NoRequest]
  BY DEF RM!Released
<1>7. /\ RM_request' \in [RM!Kind -> [op : RM!Operation, on : Managed \cup {None},
             item : Closure \cup {None}, answer : RM!Outcome, version : 0..MaxVersion]]
      /\ \A j \in RM!Kind : RM_request'[j] = RM!NoRequest
  BY <1>1, <1>5, <1>6 DEF RM!EditorInv, RM!TypeOK
<1>8. "save" \in RM!Kind /\ "closure" \in RM!Kind /\ "status" \in RM!Kind
  BY DEF RM!Kind
<1>9. (RM!RequestsFit /\ RM!OneRequest)'
  BY <1>2, <1>7, <1>8 DEF RM!RequestsFit, RM!OneRequest
<1>10. QED
  BY <1>2, <1>3, <1>4, <1>7, <1>9

LEMMA FailKeepsEditor ==
  ASSUME RM!EditorInv, NEW k \in RM!Kind, RM!Fail(k)
  PROVE  RM!EditorInv'
<1> DEFINE q == RM_request[k]
<1>1. /\ RM_request' \in [RM!Kind -> [op : RM!Operation, on : Managed \cup {None},
             item : Closure \cup {None}, answer : RM!Outcome, version : 0..MaxVersion]]
      /\ \A j \in RM!Kind : /\ RM_request'[j].op = "none" /\ RM_request'[j].on = None
                            /\ RM_request'[j].answer = "pending"
      /\ (RM!RequestsFit /\ RM!OneRequest)'
      /\ q.op # "none" /\ q.on \in Managed
  BY ReleasedIsIdle DEF RM!Fail
<1>2. /\ UNCHANGED <<RM!server, RM_shown, RM_editing, RM_list, RM_loading, RM_load>>
      /\ RM_form' \in RM!Forms
      /\ \/ RM_conflict' = RM_conflict
         \/ /\ q.answer = "bookings"
            /\ RM_conflict' = [kind |-> k, on |-> q.on]
  BY DEF RM!Fail, RM!Forms, RM!EditorInv, RM!TypeOK
<1>3. RM!TypeOK'
  <2>1. RM_conflict' \in [kind : RM!Kind, on : Managed] \cup {RM!NoConflict}
    BY <1>1, <1>2 DEF RM!EditorInv, RM!TypeOK
  <2>2. QED
    BY <1>1, <1>2, <2>1 DEF RM!EditorInv, RM!TypeOK, RM!server
<1>4. RM!EditorShowsItsResource'
  <2>1. q.answer = "bookings" /\ k \in {"save", "closure"} => q.on = RM_editing
    BY <1>1 DEF RM!EditorInv, RM!RequestsFit
  <2>2. QED
    BY <1>2, <2>1 DEF RM!EditorInv, RM!EditorShowsItsResource
<1>5. (RM!LoadsFit /\ RM!AddsFit /\ RM!VersionsFit)'
  BY <1>1, <1>2 DEF RM!EditorInv, RM!LoadsFit, RM!AddsFit, RM!VersionsFit, RM!server, RM!Kind
<1>6. QED
  BY <1>1, <1>3, <1>4, <1>5 DEF RM!EditorInv

\* What every handler that succeeds has to leave behind.
LEMMA SucceedIsFit ==
  ASSUME RM!EditorInv, NEW k \in RM!Kind, RM!Succeed(k),
         RM_shown' = [RM_shown EXCEPT ![RM_request[k].on] = RM_shown'[RM_request[k].on]],
         RM_shown'[RM_request[k].on] \in 0..RM_version[RM_request[k].on],
         RM_editing' \in Managed \cup {None}, RM_form' \in RM!Forms,
         RM_list' \in [Closure -> 0..2], RM_loading' \in BOOLEAN,
         \A c \in Closure : /\ RM_list'[c] > 0 => ClosureOf[c] = RM_editing'
                            /\ RM_list'[c] = 2 => c \notin RM_unused,
         RM_conflict.kind \in {"save", "closure"} => RM_editing' = RM_editing,
         RM_load' \in [Loads -> [phase : {"idle", "sent", "read"},
                         of : Managed \cup {None}, live : BOOLEAN, items : SUBSET Closure]],
         \A l \in Loads : /\ RM_load'[l].phase # "idle" => RM_load'[l].of \in Managed
                          /\ RM_load'[l].live => RM_load'[l].of = RM_editing'
                          /\ \A c \in RM_load'[l].items : ClosureOf[c] = RM_load'[l].of
  PROVE  RM!EditorInv'
<1>1. /\ RM_request' \in [RM!Kind -> [op : RM!Operation, on : Managed \cup {None},
             item : Closure \cup {None}, answer : RM!Outcome, version : 0..MaxVersion]]
      /\ \A j \in RM!Kind : /\ RM_request'[j].op = "none" /\ RM_request'[j].on = None
                            /\ RM_request'[j].answer = "pending"
      /\ (RM!RequestsFit /\ RM!OneRequest)'
      /\ RM_request[k].on \in Managed
  BY ReleasedIsIdle DEF RM!Succeed
<1>2. UNCHANGED <<RM!server, RM_conflict>>
  BY DEF RM!Succeed
<1>3. \A r \in Managed : RM_version[r] \in 0..MaxVersion /\ RM_shown[r] \in 0..RM_version[r]
  BY ManagedAssumption DEF RM!EditorInv, RM!TypeOK, RM!VersionsFit
<1>4. \A r \in Managed : RM_shown'[r] \in 0..RM_version[r] /\ RM_shown'[r] \in 0..MaxVersion
  <2>1. \A r \in Managed : RM_shown'[r] \in 0..RM_version[r]
    BY <1>1, <1>3 DEF RM!EditorInv, RM!TypeOK
  <2>2. QED
    BY <1>3, <2>1, ManagedAssumption
<1>5. RM_shown' \in [Managed -> 0..MaxVersion]
  BY <1>4 DEF RM!EditorInv, RM!TypeOK
<1>6. RM!TypeOK'
  BY <1>1, <1>2, <1>5 DEF RM!EditorInv, RM!TypeOK, RM!server
<1>7. RM!EditorShowsItsResource'
  BY <1>2 DEF RM!EditorInv, RM!EditorShowsItsResource
<1>8. RM!LoadsFit'
  BY <1>2 DEF RM!EditorInv, RM!LoadsFit, RM!server
<1>9. RM!AddsFit'
  BY <1>1, <1>2 DEF RM!AddsFit, RM!Kind, RM!server
<1>10. RM!VersionsFit'
  BY <1>1, <1>2, <1>4 DEF RM!VersionsFit, RM!server
<1>11. QED
  BY <1>1, <1>6, <1>7, <1>8, <1>9, <1>10 DEF RM!EditorInv

LEMMA SucceedKeepsEditor ==
  ASSUME RM!EditorInv, NEW k \in RM!Kind, RM!Succeed(k)
  PROVE  RM!EditorInv'
<1> DEFINE q == RM_request[k]
           LoadType == [Loads -> [phase : {"idle", "sent", "read"},
                          of : Managed \cup {None}, live : BOOLEAN, items : SUBSET Closure]]
<1>1. /\ q.answer = "ok" /\ q.op # "none" /\ q.on \in Managed
      /\ q.version \in 0..RM_version[q.on]
      /\ RM_shown \in [Managed -> 0..MaxVersion]
      /\ RM!Saved(q) \/ RM!StatusChanged(q) \/ RM!ClosureAdded(q) \/ RM!ClosureRemoved(q)
  <2>1. q.answer = "ok" /\ q.op # "none" /\ q.on \in Managed
    BY ReleasedIsIdle DEF RM!Succeed
  <2>2. q.version \in 0..MaxVersion /\ q.version <= RM_version[q.on]
        /\ RM_version[q.on] \in 0..MaxVersion /\ MaxVersion \in Nat
    BY <2>1, ManagedAssumption DEF RM!EditorInv, RM!TypeOK, RM!VersionsFit
  <2>3. QED
    BY <2>1, <2>2 DEF RM!Succeed, RM!EditorInv, RM!TypeOK
<1>2. /\ RM_load \in LoadType /\ RM_list \in [Closure -> 0..2] /\ RM_editing \in Managed \cup {None}
      /\ RM_form \in RM!Forms /\ RM_loading \in BOOLEAN
      /\ \A c \in Closure : /\ RM_list[c] > 0 => ClosureOf[c] = RM_editing
                            /\ RM_list[c] = 2 => c \notin RM_unused
      /\ \A l \in Loads : /\ RM_load[l].phase # "idle" => RM_load[l].of \in Managed
                          /\ RM_load[l].live => RM_load[l].of = RM_editing
                          /\ \A c \in RM_load[l].items : ClosureOf[c] = RM_load[l].of
  BY DEF RM!EditorInv, RM!TypeOK, RM!EditorShowsItsResource, RM!AddsFit, RM!LoadsFit
<1>3. \A r \in Managed : RM_shown[r] \in 0..RM_version[r]
  BY ManagedAssumption DEF RM!EditorInv, RM!TypeOK, RM!VersionsFit
<1>4. CASE RM!Saved(q)
  <2>1. /\ RM_shown' = [RM_shown EXCEPT ![q.on] = q.version]
        /\ RM_form' = "loaded"
    BY <1>4 DEF RM!Saved
  <2>2. RM_shown'[q.on] = q.version
    BY <1>1, <2>1
  <2>3. CASE q.op = "create"
    <3>1. RM_conflict = RM!NoConflict
      BY <2>3 DEF RM!EditorInv, RM!RequestsFit, RM!Kind
    <3>2. /\ RM_editing' = q.on /\ RM_list' = RM!NoItems /\ RM_loading' = TRUE /\ RM!Effect(q.on)
      BY <1>4, <2>3 DEF RM!Saved
    <3>3. RM_load' \in LoadType
      BY <1>1, <3>2, EffectTypes DEF RM!EditorInv
    <3>4. \A l \in Loads : /\ RM_load'[l].phase # "idle" => RM_load'[l].of \in Managed
                           /\ RM_load'[l].live => RM_load'[l].of = RM_editing'
                           /\ \A c \in RM_load'[l].items : ClosureOf[c] = RM_load'[l].of
      BY <1>1, <1>2, <3>2 DEF RM!Effect
    <3>5. \A c \in Closure : RM_list'[c] = 0
      BY <3>2 DEF RM!NoItems
    <3>6. RM_list' \in [Closure -> 0..2]
      BY <3>2 DEF RM!NoItems
    <3>7. /\ \A c \in Closure : /\ RM_list'[c] > 0 => ClosureOf[c] = RM_editing'
                                /\ RM_list'[c] = 2 => c \notin RM_unused
          /\ RM_conflict.kind \in {"save", "closure"} => RM_editing' = RM_editing
          /\ RM_editing' \in Managed \cup {None}
          /\ RM_form' \in RM!Forms /\ RM_loading' \in BOOLEAN
      BY <1>1, <2>1, <3>1, <3>2, <3>5 DEF RM!Forms, RM!NoConflict
    <3>8. RM_shown' = [RM_shown EXCEPT ![q.on] = RM_shown'[q.on]] /\ RM_shown'[q.on] \in 0..RM_version[q.on]
      BY <1>1, <2>1, <2>2
    <3>9. QED
      BY <3>3, <3>4, <3>6, <3>7, <3>8, SucceedIsFit
  <2>4. CASE q.op # "create"
    <3>1. UNCHANGED <<RM_editing, RM_list, RM_loading, RM_load>>
      BY <1>4, <2>4 DEF RM!Saved
    <3>2. QED
      BY <1>1, <1>2, <2>1, <2>2, <3>1, SucceedIsFit DEF RM!Forms
  <2>5. QED
    BY <2>3, <2>4
<1>5. CASE RM!StatusChanged(q)
  <2>1. /\ RM_shown' = [RM_shown EXCEPT ![q.on] = IF RM!Listed(q.on) THEN q.version ELSE 0]
        /\ UNCHANGED RM!editor
    BY <1>5 DEF RM!StatusChanged
  <2>0. RM_version[q.on] \in Nat
    BY <1>1, ManagedAssumption DEF RM!EditorInv, RM!TypeOK
  <2>2. RM_shown'[q.on] \in 0..RM_version[q.on]
    <3>1. RM_shown'[q.on] = q.version \/ RM_shown'[q.on] = 0
      BY <1>1, <2>1
    <3>2. QED
      BY <1>1, <2>0, <3>1
  <2>3. RM_shown' = [RM_shown EXCEPT ![q.on] = RM_shown'[q.on]]
    BY <1>1, <2>1
  <2>4. QED
    BY <1>2, <2>1, <2>2, <2>3, SucceedIsFit DEF RM!editor
<1>6. CASE RM!ClosureAdded(q) \/ RM!ClosureRemoved(q)
  <2>1. UNCHANGED <<RM_shown, RM_editing, RM_form, RM_loading, RM_load>>
    BY <1>6 DEF RM!ClosureAdded, RM!ClosureRemoved
  <2>2. q.item \in Closure /\ ClosureOf[q.item] = RM_editing
    BY <1>6 DEF RM!ClosureAdded, RM!ClosureRemoved, RM!Kind, RM!EditorInv, RM!RequestsFit
  <2>3. /\ RM_list' \in [Closure -> 0..2]
        /\ \A c \in Closure : /\ RM_list'[c] > 0 => ClosureOf[c] = RM_editing
                              /\ RM_list'[c] = 2 => c \notin RM_unused
    <3>1. CASE RM!ClosureAdded(q)
      <4>1. RM_list[q.item] <= 1 /\ q.item \notin RM_unused
        BY <1>1, <3>1 DEF RM!ClosureAdded, RM!Kind, RM!EditorInv, RM!RequestsFit, RM!AddsFit
      <4>2. RM_list' = [RM_list EXCEPT ![q.item] = RM_list[q.item] + 1]
        BY <3>1 DEF RM!ClosureAdded
      <4>3. RM_list[q.item] + 1 \in 0..2
        BY <1>2, <2>2, <4>1
      <4>4. QED
        BY <1>2, <2>2, <4>1, <4>2, <4>3
    <3>2. CASE RM!ClosureRemoved(q)
      BY <1>2, <2>2, <3>2 DEF RM!ClosureRemoved
    <3>3. QED
      BY <1>6, <3>1, <3>2
  <2>4. RM_shown' = [RM_shown EXCEPT ![q.on] = RM_shown'[q.on]] /\ RM_shown'[q.on] \in 0..RM_version[q.on]
    BY <1>1, <1>3, <2>1
  <2>5. QED
    BY <1>2, <2>1, <2>3, <2>4, SucceedIsFit
<1>7. QED
  BY <1>1, <1>4, <1>5, <1>6

LEMMA OthersKeepEditor ==
  ASSUME RM!EditorInv,
         (\E r \in Managed : RM!OthersChange(r)) \/ (\E c \in Closure : RM!OthersClose(c))
  PROVE  RM!EditorInv'
<1>1. UNCHANGED <<RM_shown, RM!editor, RM_request, RM_conflict>>
  BY DEF RM!OthersChange, RM!OthersClose
<1>2. /\ RM_version' \in [Managed -> 0..MaxVersion]
      /\ \A r \in Managed : RM_version[r] <= RM_version'[r]
      /\ RM_closed' \in [Managed -> SUBSET Closure] /\ RM_unused' \subseteq RM_unused
      /\ \A r \in Managed : \A c \in RM_closed'[r] : ClosureOf[c] = r
  <2>1. CASE \E r \in Managed : RM!OthersChange(r)
    <3>1. PICK r \in Managed : RM!OthersChange(r)
      BY <2>1
    <3>2. RM_version[r] + 1 \in 0..MaxVersion /\ RM_version[r] <= RM_version[r] + 1
      BY <3>1, ManagedAssumption DEF RM!OthersChange, RM!EditorInv, RM!TypeOK
    <3>3. RM_version' = [RM_version EXCEPT ![r] = RM_version[r] + 1] /\ UNCHANGED <<RM_closed, RM_unused>>
      BY <3>1 DEF RM!OthersChange
    <3>4. RM_version \in [Managed -> 0..MaxVersion] /\ \A s \in Managed : RM_version[s] <= RM_version[s]
      BY ManagedAssumption DEF RM!EditorInv, RM!TypeOK
    <3>5. QED
      BY <3>2, <3>3, <3>4 DEF RM!EditorInv, RM!TypeOK, RM!LoadsFit
  <2>2. CASE \E c \in Closure : RM!OthersClose(c)
    <3>1. PICK c \in Closure : RM!OthersClose(c)
      BY <2>2
    <3>2. ClosureOf[c] \in Managed
      BY ManagedAssumption
    <3>3. /\ RM_closed' \in [Managed -> SUBSET Closure]
          /\ \A r \in Managed : \A d \in RM_closed'[r] : ClosureOf[d] = r
      BY <3>1, <3>2 DEF RM!OthersClose, RM!EditorInv, RM!TypeOK, RM!LoadsFit
    <3>4. RM_version' = RM_version /\ RM_unused' \subseteq RM_unused
      BY <3>1 DEF RM!OthersClose
    <3>5. RM_version \in [Managed -> 0..MaxVersion] /\ \A r \in Managed : RM_version[r] <= RM_version[r]
      BY ManagedAssumption DEF RM!EditorInv, RM!TypeOK
    <3>6. QED
      BY <3>3, <3>4, <3>5
  <2>3. QED
    BY <2>1, <2>2
<1>3. RM!TypeOK'
  BY <1>1, <1>2 DEF RM!EditorInv, RM!TypeOK, RM!editor
<1>4. (RM!EditorShowsItsResource /\ RM!LoadsFit)'
  BY <1>1, <1>2 DEF RM!EditorInv, RM!EditorShowsItsResource, RM!LoadsFit, RM!editor
<1>5. (RM!RequestsFit /\ RM!OneRequest)'
  BY <1>1 DEF RM!EditorInv, RM!RequestsFit, RM!OneRequest, RM!editor
<1>6. RM!AddsFit'
  BY <1>1, <1>2 DEF RM!EditorInv, RM!AddsFit, RM!editor
<1>7. RM!VersionsFit'
  <2>1. \A r \in Managed : /\ RM_shown'[r] = RM_shown[r] /\ RM_shown[r] \in 0..MaxVersion
                           /\ RM_version[r] \in 0..MaxVersion /\ RM_version'[r] \in 0..MaxVersion
                           /\ RM_version[r] <= RM_version'[r] /\ RM_shown[r] <= RM_version[r]
    BY <1>1, <1>2 DEF RM!EditorInv, RM!TypeOK, RM!VersionsFit
  <2>2. \A r \in Managed : RM_shown'[r] <= RM_version'[r]
    BY <2>1, ManagedAssumption
  <2>3. ASSUME NEW k \in RM!Kind, RM_request[k].answer = "ok"
        PROVE  /\ RM_request[k].on \in Managed
               /\ RM_shown[RM_request[k].on] <= RM_request[k].version
               /\ RM_request[k].version <= RM_version'[RM_request[k].on]
    <3>1. RM_request[k].on \in Managed
      BY <2>3 DEF RM!EditorInv, RM!RequestsFit, RM!NoRequest, RM!TypeOK
    <3>2. /\ RM_shown[RM_request[k].on] <= RM_request[k].version
          /\ RM_request[k].version <= RM_version[RM_request[k].on]
          /\ RM_request[k].version \in 0..MaxVersion
      BY <2>3 DEF RM!EditorInv, RM!VersionsFit, RM!TypeOK
    <3>3. QED
      BY <2>1, <3>1, <3>2, ManagedAssumption
  <2>4. QED
    BY <1>1, <2>1, <2>2, <2>3 DEF RM!VersionsFit
<1>8. QED
  BY <1>3, <1>4, <1>5, <1>6, <1>7 DEF RM!EditorInv

LEMMA EditorStep == RM!EditorInv /\ RM!Next => RM!EditorInv'
<1> SUFFICES ASSUME RM!EditorInv, RM!Next PROVE RM!EditorInv'
  OBVIOUS
<1>1. CASE RM!Open \/ RM!StartCreate \/ RM!EditField
  BY <1>1, OpenKeepsEditor, StartCreateKeepsEditor, EditFieldKeepsEditor
<1>2. CASE \E r \in Managed : RM!StartEdit(r) \/ RM!Submit(r) \/ RM!ChangeStatus(r)
  BY <1>2, StartEditKeepsEditor, SubmitKeepsEditor, ChangeStatusKeepsEditor
<1>3. CASE \E c \in Closure : RM!SubmitClosure(c) \/ RM!DeleteClosure(c)
  BY <1>3, ClosureRequestKeepsEditor
<1>4. CASE (\E r \in Managed : RM!OthersChange(r)) \/ (\E c \in Closure : RM!OthersClose(c))
  BY <1>4, OthersKeepEditor
<1>5. CASE \E l \in Loads : RM!ServeLoad(l) \/ RM!FinishLoad(l)
  BY <1>5, ServeLoadKeepsEditor, FinishLoadKeepsEditor
<1>6. CASE \E k \in RM!Kind : RM!Commit(k) \/ RM!Refuse(k) \/ RM!Lose(k) \/ RM!Succeed(k) \/ RM!Fail(k)
  BY <1>6, CommitKeepsEditor, RefuseKeepsEditor, SucceedKeepsEditor, FailKeepsEditor
<1>7. QED
  BY <1>1, <1>2, <1>3, <1>4, <1>5, <1>6 DEF RM!Next

\* A step of the composition is one of this part, or leaves it alone.
LEMMA StepOfCatalog == [Next]_vars => RM!Next \/ UNCHANGED RMvars
BY DEF Next, vars, Still

LEMMA EditorFits == Spec => []RM!EditorInv
<1>1. Init => RM!EditorInv
  BY EditorStarts DEF Init
<1>2. RM!EditorInv /\ [Next]_vars => RM!EditorInv'
  BY StepOfCatalog, EditorStep, EditorStutters
<1>3. QED
  BY <1>1, <1>2, PTL DEF Spec

\* The editor never shows a closure or a conflict of another resource than the
\* one it edits, however its loads and requests overtake the administrator.
THEOREM EditorIsExact == Spec => []EditorShowsItsResource
<1>1. RM!EditorInv => EditorShowsItsResource
  BY DEF RM!EditorInv, EditorShowsItsResource
<1>2. QED
  BY <1>1, EditorFits, PTL

LEMMA RowStep ==
  ASSUME RM!EditorInv, RM!Next, NEW r \in Managed
  PROVE  RM_shown'[r] = 0 \/ RM_shown'[r] >= RM_shown[r]
<1>1. /\ RM_shown[r] \in Nat /\ RM_version[r] \in Nat /\ RM_shown[r] <= RM_version[r]
      /\ RM_shown \in [Managed -> 0..MaxVersion]
  BY ManagedAssumption DEF RM!EditorInv, RM!TypeOK, RM!VersionsFit
<1>2. ASSUME NEW k \in RM!Kind, RM!Succeed(k)
      PROVE  RM_shown'[r] = RM_shown[r] \/ RM_shown'[r] = 0 \/ RM_shown'[r] >= RM_shown[r]
  <2> DEFINE q == RM_request[k]
  <2>1. q.on \in Managed /\ RM_shown[q.on] <= q.version /\ q.version \in Nat
    BY <1>2, ReleasedIsIdle, ManagedAssumption DEF RM!Succeed, RM!EditorInv, RM!VersionsFit, RM!TypeOK
  <2>2. \/ UNCHANGED RM_shown
        \/ RM_shown' = [RM_shown EXCEPT ![q.on] = q.version]
        \/ RM_shown' = [RM_shown EXCEPT ![q.on] = 0]
    BY <1>2 DEF RM!Succeed, RM!Saved, RM!StatusChanged, RM!ClosureAdded, RM!ClosureRemoved
  <2> HIDE DEF q
  <2>3. QED
    BY <1>1, <2>1, <2>2
<1>3. CASE RM!Open
  BY <1>1, <1>3 DEF RM!Open
<1>4. CASE UNCHANGED RM_shown
  BY <1>1, <1>4
<1>5. CASE \E k \in RM!Kind : RM!Succeed(k)
  BY <1>1, <1>2, <1>5
<1>6. QED
  BY <1>3, <1>4, <1>5
     DEF RM!Next, RM!StartCreate, RM!EditField, RM!StartEdit, RM!Submit, RM!ChangeStatus,
         RM!OthersChange, RM!SubmitClosure, RM!DeleteClosure, RM!Send, RM!OthersClose,
         RM!ServeLoad, RM!FinishLoad, RM!Commit, RM!Refuse, RM!Lose, RM!Fail

\* A row of the list never goes back to an older version of its resource.
THEOREM RowsNeverGoBack == Spec => RowsMoveForward
<1>1. RM!EditorInv /\ [Next]_vars
        => [\A r \in Managed : RM_shown'[r] = 0 \/ RM_shown'[r] >= RM_shown[r]]_(RM!vars)
  <2> SUFFICES ASSUME RM!EditorInv, [Next]_vars
               PROVE  [\A r \in Managed : RM_shown'[r] = 0 \/ RM_shown'[r] >= RM_shown[r]]_(RM!vars)
    OBVIOUS
  <2>1. CASE RM!Next
    BY <2>1, RowStep
  <2>2. CASE UNCHANGED RMvars
    BY <2>2 DEF RMvars, RM!vars, RM!server, RM!editor
  <2>3. QED
    BY <2>1, <2>2, StepOfCatalog
<1>2. QED
  BY <1>1, EditorFits, PTL DEF Spec, RowsMoveForward, RM!RowsMoveForward

----------------------------------------------------------------------------
(* The catalog scripts.                                                    *)

LEMMA EntriesAreTyped ==
  \A i \in DOMAIN Catalog : /\ Catalog[i].resource \in Imported
                           /\ CI!RowOf(Catalog[i]) \in CI!Rows
                           /\ Catalog[i].days \subseteq Int
                           /\ Catalog[i].offsets \subseteq Int
<1> DEFINE E == [resource : Imported, status : {"active", "maintenance", "inactive"},
                 days : SUBSET Int, opens : Int, closes : Int, offsets : SUBSET Int]
<1>1. \A i \in DOMAIN Catalog : Catalog[i] \in E
  <2>1. Catalog \in Seq(E)
    BY ImportAssumption
  <2> HIDE DEF E
  <2>2. QED
    BY <2>1
<1>2. \A i \in DOMAIN Catalog : CI!RowOf(Catalog[i]) \in CI!Rows
  BY DEF CI!Rows
<1>3. QED
  BY <1>1, <1>2

LEMMA ImportStarts == CI!Init => CI!ImportInv
<1> SUFFICES ASSUME CI!Init PROVE CI!ImportInv
  OBVIOUS
<1>1. CI_script = [op |-> "none", phase |-> "off", at |-> 0, seen |-> {}, rows |-> CI_row,
                   closures |-> {}]
  BY DEF CI!Init, CI!Off
<1>2. /\ CI_row = Before /\ CI_closed = {} /\ CI_bookings = Booked /\ CI_runs = 0
      /\ CI_owner = [r \in Imported |-> None] /\ CI_share = FALSE
      /\ CI_creation = [c \in Creator |-> "sent"]
  BY DEF CI!Init
<1>3. Before \in [Imported -> CI!Rows \cup {None}]
  BY ImportAssumption DEF CI!Rows
<1>4. Len(Catalog) \in Nat
  BY ImportAssumption
<1>5. CI!TypeOK
  <2>1. CI_script \in CI!Transaction
    BY <1>1, <1>2, <1>3, <1>4 DEF CI!Transaction
  <2>2. CI_bookings \subseteq CI!Booking
    BY <1>2, ImportAssumption DEF CI!Booking
  <2>3. CI_closed \cup CI_script.closures = {}
    BY <1>1, <1>2
  <2>4. CI_runs \in 0..MaxRuns
    BY <1>2, ImportAssumption
  <2>5. QED
    BY <1>2, <1>3, <2>1, <2>2, <2>3, <2>4 DEF CI!TypeOK
<1>6. CI!ScriptFits
  BY <1>1 DEF CI!ScriptFits
<1>7. CI!ImportStrandsNoBooking
  BY <1>2, ImportAssumption DEF CI!ImportStrandsNoBooking, CI!Fits, CI!Weekday
<1>8. CI!CreationsFit /\ CI!ShareFits /\ CI!WritesFit
  BY <1>1, <1>2 DEF CI!CreationsFit, CI!ShareFits, CI!WritesFit
<1>9. QED
  BY <1>5, <1>6, <1>7, <1>8 DEF CI!ImportInv

LEMMA ImportStutters == CI!ImportInv /\ UNCHANGED CIvars => CI!ImportInv'
BY DEF CIvars, CI!ImportInv, CI!TypeOK, CI!ScriptFits, CI!ImportStrandsNoBooking, CI!CreationsFit,
       CI!ShareFits, CI!WritesFit, CI!Fits, CI!Active, CI!Entry

LEMMA LockResourceKeepsImport ==
  ASSUME CI!ImportInv, NEW c \in Creator, CI!LockResource(c)
  PROVE  CI!ImportInv'
<1> DEFINE w  == Wanted[c]
           ok == CI!Fits(w, w.resource) /\ <<w.resource, w.date>> \notin CI_closed
<1>1. w.resource \in Imported /\ c # None /\ c # CI!Script /\ None # CI!Script
  BY ImportAssumption DEF CI!Script
<1>2. /\ UNCHANGED <<CI_row, CI_closed, CI_bookings, CI_share, CI_script, CI_runs>>
      /\ CI_creation[c] = "sent" /\ CI_owner[w.resource] = None
  BY DEF CI!LockResource
<1>3. \/ /\ ok /\ CI_creation' = [CI_creation EXCEPT ![c] = "checked"]
         /\ CI_owner' = [CI_owner EXCEPT ![w.resource] = c]
      \/ /\ CI_creation' = [CI_creation EXCEPT ![c] = "failed"] /\ CI_owner' = CI_owner
  BY DEF CI!LockResource, CI!Fail
<1>4. /\ CI_owner \in [Imported -> Creator \cup {CI!Script, None}]
      /\ CI_creation \in [Creator -> {"sent", "checked", "inserted", "ok", "failed"}]
      /\ \A d \in Creator : Wanted[d].resource \in Imported
  BY ImportAssumption DEF CI!ImportInv, CI!TypeOK
<1>5. CI!TypeOK'
  BY <1>1, <1>2, <1>3 DEF CI!ImportInv, CI!TypeOK
<1>6. (CI!ScriptFits /\ CI!ImportStrandsNoBooking)'
  BY <1>2 DEF CI!ImportInv, CI!ScriptFits, CI!ImportStrandsNoBooking, CI!Fits
<1>7. CI!CreationsFit'
  <2> SUFFICES ASSUME NEW d \in Creator, CI_creation'[d] \in {"checked", "inserted"}
               PROVE  /\ CI_owner'[Wanted[d].resource] = d
                      /\ CI!Fits(Wanted[d], Wanted[d].resource)
                      /\ <<Wanted[d].resource, Wanted[d].date>> \notin CI_closed
    BY <1>2 DEF CI!CreationsFit, CI!Fits
  <2>1. CASE d = c
    BY <2>1, <1>1, <1>3, <1>4
  <2>2. CASE d # c
    <3>1. CI_creation[d] \in {"checked", "inserted"}
      BY <2>2, <1>3, <1>4
    <3>2. /\ CI_owner[Wanted[d].resource] = d
          /\ CI!Fits(Wanted[d], Wanted[d].resource)
          /\ <<Wanted[d].resource, Wanted[d].date>> \notin CI_closed
      BY <3>1 DEF CI!ImportInv, CI!CreationsFit
    <3>3. CI_owner'[Wanted[d].resource] = d
      BY <3>2, <1>2, <1>3, <1>4, ImportAssumption
    <3>4. QED
      BY <3>2, <3>3
  <2>3. QED
    BY <2>1, <2>2
<1>8. CI!ShareFits'
  BY <1>2, <1>3, <1>4 DEF CI!ImportInv, CI!ShareFits
<1>9. CI!WritesFit'
  <2>1. \A r \in Imported : CI_owner[r] = CI!Script => CI_owner'[r] = CI!Script
    BY <1>1, <1>2, <1>3, <1>4
  <2>2. \A k \in CI_script.closures : k[1] \in Imported
    BY DEF CI!ImportInv, CI!TypeOK, CI!Transaction
  <2>3. CI_script.phase = "closing" => CI!Entry.resource \in Imported
    BY EntriesAreTyped DEF CI!ImportInv, CI!ScriptFits, CI!Entry
  <2>4. QED
    BY <2>1, <2>2, <2>3, <1>2 DEF CI!ImportInv, CI!WritesFit, CI!Active, CI!Entry
<1>10. QED
  BY <1>5, <1>6, <1>7, <1>8, <1>9 DEF CI!ImportInv

LEMMA InsertKeepsImport ==
  ASSUME CI!ImportInv, NEW c \in Creator, CI!Insert(c)
  PROVE  CI!ImportInv'
<1>2. UNCHANGED <<CI_row, CI_closed, CI_bookings, CI_owner, CI_share, CI_script, CI_runs>>
  BY DEF CI!Insert, CI!locks
<1>3. CI!TypeOK'
  BY <1>2 DEF CI!Insert, CI!ImportInv, CI!TypeOK
<1>4. (CI!ScriptFits /\ CI!ImportStrandsNoBooking)'
  BY <1>2 DEF CI!ImportInv, CI!ScriptFits, CI!ImportStrandsNoBooking, CI!Fits
<1>5. CI!CreationsFit'
  BY <1>2 DEF CI!Insert, CI!ImportInv, CI!CreationsFit, CI!TypeOK, CI!Fits
<1>6. CI!ShareFits'
  BY <1>2 DEF CI!Insert, CI!ImportInv, CI!ShareFits, CI!TypeOK
<1>7. CI!WritesFit'
  BY <1>2 DEF CI!ImportInv, CI!WritesFit, CI!TypeOK, CI!Active, CI!Entry
<1>8. QED
  BY <1>3, <1>4, <1>5, <1>6, <1>7 DEF CI!ImportInv

\* Who unlocks leaves the rows of the others locked, by whom they were.
LEMMA UnlockFrees ==
  ASSUME CI!ImportInv, NEW p, CI!Unlock(p)
  PROVE  /\ CI_owner' \in [Imported -> Creator \cup {CI!Script, None}]
         /\ \A r \in Imported : CI_owner[r] # p => CI_owner'[r] = CI_owner[r]
BY DEF CI!Unlock, CI!ImportInv, CI!TypeOK

\* The creations that go on keep what they have checked.
LEMMA OthersKeepTheirRow ==
  ASSUME CI!ImportInv, NEW c, CI!Unlock(c), NEW outcome,
         CI_creation' = [CI_creation EXCEPT ![c] = outcome],
         outcome \notin {"checked", "inserted"},
         UNCHANGED <<CI_row, CI_closed>>
  PROVE  CI!CreationsFit'
<1> SUFFICES ASSUME NEW d \in Creator, CI_creation'[d] \in {"checked", "inserted"}
             PROVE  /\ CI_owner'[Wanted[d].resource] = d
                    /\ CI!Fits(Wanted[d], Wanted[d].resource)
                    /\ <<Wanted[d].resource, Wanted[d].date>> \notin CI_closed
  BY DEF CI!CreationsFit, CI!Fits
<1>1. d # c /\ CI_creation[d] \in {"checked", "inserted"}
  BY DEF CI!ImportInv, CI!TypeOK
<1>2. /\ CI_owner[Wanted[d].resource] = d
      /\ CI!Fits(Wanted[d], Wanted[d].resource)
      /\ <<Wanted[d].resource, Wanted[d].date>> \notin CI_closed
  BY <1>1 DEF CI!ImportInv, CI!CreationsFit
<1>3. Wanted[d].resource \in Imported
  BY ImportAssumption
<1>4. QED
  BY <1>1, <1>2, <1>3, UnlockFrees

LEMMA CommitBookingKeepsImport ==
  ASSUME CI!ImportInv, NEW c \in Creator, CI!CommitBooking(c)
  PROVE  CI!ImportInv'
<1> DEFINE w   == Wanted[c]
           new == [resource |-> w.resource, date |-> w.date, start |-> w.start, end |-> w.end,
                   active |-> TRUE, of |-> c]
<1>1. w \in [resource : Imported, date : Int, start : Int, end : Int]
  BY ImportAssumption
<1>2. /\ UNCHANGED <<CI_row, CI_closed, CI_share, CI_script, CI_runs>>
      /\ CI_bookings' = CI_bookings \cup {new} /\ CI_creation[c] = "inserted"
      /\ CI_creation' = [CI_creation EXCEPT ![c] = "ok"]
      /\ CI!Unlock(c)
  BY DEF CI!CommitBooking
<1>3. ~CI_share /\ CI_script.phase # "waiting" /\ CI_script.phase # "closing"
  BY <1>2 DEF CI!ImportInv, CI!ShareFits
<1>4. CI!TypeOK'
  <2>1. new \in CI!Booking
    BY <1>1 DEF CI!Booking
  <2> HIDE DEF new
  <2>2. QED
    BY <1>2, <2>1, UnlockFrees DEF CI!ImportInv, CI!TypeOK
<1>5. CI!ScriptFits'
  BY <1>2 DEF CI!ImportInv, CI!ScriptFits
<1>6. CI!ImportStrandsNoBooking'
  <2>1. CI!Fits(w, w.resource) /\ <<w.resource, w.date>> \notin CI_closed
    BY <1>2 DEF CI!ImportInv, CI!CreationsFit
  <2>2. CI!Fits(new, new.resource) /\ <<new.resource, new.date>> \notin CI_closed
    BY <2>1 DEF CI!Fits
  <2> HIDE DEF new
  <2>3. QED
    BY <1>2, <2>2 DEF CI!ImportInv, CI!ImportStrandsNoBooking, CI!Fits
<1> HIDE DEF new
<1>7. CI!CreationsFit'
  <2>1. /\ UNCHANGED <<CI_row, CI_closed>>
        /\ CI!Unlock(c)
        /\ CI_creation' = [CI_creation EXCEPT ![c] = "ok"]
    BY <1>2
  <2>2. QED
    BY <2>1, OthersKeepTheirRow
<1>8. CI!ShareFits'
  BY <1>2, <1>3 DEF CI!ImportInv, CI!ShareFits, CI!TypeOK
<1>9. CI!WritesFit'
  BY <1>2, <1>3 DEF CI!ImportInv, CI!WritesFit
<1>10. QED
  BY <1>4, <1>5, <1>6, <1>7, <1>8, <1>9 DEF CI!ImportInv

LEMMA AbortCreationKeepsImport ==
  ASSUME CI!ImportInv, NEW c \in Creator, CI!AbortCreation(c)
  PROVE  CI!ImportInv'
<1>1. /\ UNCHANGED <<CI_row, CI_closed, CI_bookings, CI_share, CI_script, CI_runs>>
      /\ CI_creation' = [CI_creation EXCEPT ![c] = "failed"]
      /\ CI!Unlock(c)
  BY DEF CI!AbortCreation, CI!Fail
<1>2. CI!TypeOK'
  BY <1>1, UnlockFrees DEF CI!ImportInv, CI!TypeOK
<1>3. (CI!ScriptFits /\ CI!ImportStrandsNoBooking)'
  BY <1>1 DEF CI!ImportInv, CI!ScriptFits, CI!ImportStrandsNoBooking, CI!Fits
<1>4. CI!CreationsFit'
  BY <1>1, OthersKeepTheirRow
<1>5. CI!ShareFits'
  BY <1>1 DEF CI!ImportInv, CI!ShareFits, CI!TypeOK
<1>6. CI!WritesFit'
  <2>1. \A r \in Imported : CI_owner[r] = CI!Script => CI_owner'[r] = CI!Script
    BY <1>1, UnlockFrees, ImportAssumption DEF CI!Script
  <2>2. \A k \in CI_script.closures : k[1] \in Imported
    BY DEF CI!ImportInv, CI!TypeOK, CI!Transaction
  <2>3. CI_script.phase = "closing" => CI!Entry.resource \in Imported
    BY EntriesAreTyped DEF CI!ImportInv, CI!ScriptFits, CI!Entry
  <2>4. QED
    BY <2>1, <2>2, <2>3, <1>1 DEF CI!ImportInv, CI!WritesFit, CI!Active, CI!Entry
<1>7. QED
  BY <1>2, <1>3, <1>4, <1>5, <1>6 DEF CI!ImportInv

LEMMA EndBookingKeepsImport ==
  ASSUME CI!ImportInv, NEW b \in CI_bookings, CI!EndBooking(b)
  PROVE  CI!ImportInv'
<1> DEFINE new == [b EXCEPT !.active = FALSE]
<1>1. b \in CI!Booking
  BY DEF CI!ImportInv, CI!TypeOK
<1>2. new \in CI!Booking /\ new.active = FALSE
  BY <1>1 DEF CI!Booking
<1>3. /\ UNCHANGED <<CI_row, CI_closed, CI_owner, CI_share, CI_creation, CI_script, CI_runs>>
      /\ CI_bookings' = (CI_bookings \ {b}) \cup {new}
      /\ ~CI_share
  BY DEF CI!EndBooking, CI!locks
<1> HIDE DEF new
<1>4. CI_script.phase # "waiting" /\ CI_script.phase # "closing"
  BY <1>3 DEF CI!ImportInv, CI!ShareFits
<1>5. CI!TypeOK'
  BY <1>2, <1>3 DEF CI!ImportInv, CI!TypeOK
<1>6. CI!ScriptFits'
  BY <1>3 DEF CI!ImportInv, CI!ScriptFits
<1>7. CI!ImportStrandsNoBooking'
  BY <1>2, <1>3 DEF CI!ImportInv, CI!ImportStrandsNoBooking, CI!Fits
<1>8. (CI!CreationsFit /\ CI!ShareFits /\ CI!WritesFit)'
  BY <1>3, <1>4 DEF CI!ImportInv, CI!CreationsFit, CI!ShareFits, CI!WritesFit, CI!Fits
<1>9. QED
  BY <1>5, <1>6, <1>7, <1>8 DEF CI!ImportInv

\* The date of a closure is an operating day after today.
LEMMA ClosureDateIsLater ==
  ASSUME NEW offset \in 1..365, NEW days \in SUBSET (0..6), days # {}
  PROVE  /\ CI!ResolveClosureDate(offset, days) \in Int
         /\ CI!ResolveClosureDate(offset, days) > Today
<1> DEFINE operating == {k \in 0..6 : CI!Weekday(Today + offset + k) \in days}
           least     == CHOOSE k \in operating : \A l \in operating : k <= l
<1>1. Today \in Nat
  BY ImportAssumption
<1>2. PICK d \in days : d \in 0..6
  OBVIOUS
<1>3. PICK k \in 0..6 : (Today + offset + k) % 7 = d
  <2> DEFINE q == (Today + offset) % 7
             k == IF q <= d THEN d - q ELSE d - q + 7
  <2>1. q \in 0..6
    BY <1>1
  <2>2. k \in 0..6
    BY <1>2, <2>1
  <2>3. (Today + offset + k) % 7 = d
    BY <1>1, <1>2
  <2>4. QED
    BY <2>2, <2>3
<1>4. operating # {}
  BY <1>2, <1>3 DEF CI!Weekday
<1>5. \E j \in operating : \A l \in operating : j <= l
  <2> HIDE DEF operating
  <2>1. operating \subseteq 0..6
    BY DEF operating
  <2>2. SUFFICES ASSUME ~\E j \in operating : \A l \in operating : j <= l
                 PROVE  operating = {}
    BY <1>4
  <2>3. ASSUME NEW n \in 0..6, \A m \in 0..6 : m < n => m \notin operating
        PROVE  n \notin operating
    BY <2>1, <2>2, <2>3
  <2>4. 0 \notin operating /\ 1 \notin operating /\ 2 \notin operating
    BY <2>3
  <2>5. 3 \notin operating /\ 4 \notin operating
    BY <2>3, <2>4
  <2>6. 5 \notin operating /\ 6 \notin operating
    BY <2>3, <2>4, <2>5
  <2>7. QED
    BY <2>1, <2>4, <2>5, <2>6
<1>6. least \in operating
  BY <1>5
<1>7. least \in 0..6
  BY <1>6
<1>8. CI!ResolveClosureDate(offset, days) = Today + offset + least
  BY DEF CI!ResolveClosureDate
<1> HIDE DEF least
<1>9. QED
  BY <1>1, <1>7, <1>8

\* A transaction that goes on to another phase.
LEMMA PhaseChanges ==
  ASSUME NEW s \in CI!Transaction,
         NEW phase \in {"off", "locking", "next", "waiting", "closing"}
  PROVE  LET t == [s EXCEPT !.phase = phase]
         IN /\ t \in CI!Transaction
            /\ t.phase = phase /\ t.op = s.op /\ t.at = s.at /\ t.seen = s.seen
            /\ t.rows = s.rows /\ t.closures = s.closures
BY DEF CI!Transaction

LEMMA RunKeepsImport ==
  ASSUME CI!ImportInv, NEW op \in {"import", "clean"}, CI!Run(op)
  PROVE  CI!ImportInv'
<1>1. /\ UNCHANGED <<CI_row, CI_closed, CI_bookings, CI_owner, CI_share, CI_creation>>
      /\ CI_script.phase = "off" /\ CI_runs < MaxRuns /\ CI_runs' = CI_runs + 1
      /\ CI!ValidCatalog
      /\ CI_script' = [op |-> op, phase |-> "locking", at |-> 1, seen |-> {}, rows |-> CI_row,
                       closures |-> {}]
  BY DEF CI!Run, CI!locks
<1>2. /\ CI_script'.op = op /\ CI_script'.phase = "locking" /\ CI_script'.at = 1
      /\ CI_script'.seen = {} /\ CI_script'.rows = CI_row /\ CI_script'.closures = {}
  BY <1>1
<1>3. Len(Catalog) \in Nat /\ MaxRuns \in Nat
  BY ImportAssumption
<1>4. CI_script' \in CI!Transaction
  BY <1>1, <1>3 DEF CI!ImportInv, CI!TypeOK, CI!Transaction
<1>5. CI!TypeOK'
  BY <1>1, <1>2, <1>3, <1>4 DEF CI!ImportInv, CI!TypeOK
<1>6. CI!ScriptFits'
  BY <1>1, <1>2 DEF CI!ScriptFits, CI!ValidCatalog
<1>7. (CI!ImportStrandsNoBooking /\ CI!CreationsFit)'
  BY <1>1 DEF CI!ImportInv, CI!ImportStrandsNoBooking, CI!CreationsFit, CI!Fits
<1>8. CI!ShareFits'
  BY <1>1, <1>2 DEF CI!ImportInv, CI!ShareFits
<1>9. CI!WritesFit'
  BY <1>1, <1>2 DEF CI!ImportInv, CI!WritesFit
<1>10. QED
  BY <1>5, <1>6, <1>7, <1>8, <1>9 DEF CI!ImportInv

LEMMA LockTableKeepsImport ==
  ASSUME CI!ImportInv, CI!LockTable
  PROVE  CI!ImportInv'
<1>1. /\ UNCHANGED <<CI_row, CI_closed, CI_bookings, CI_owner, CI_creation, CI_runs>>
      /\ CI_script.phase = "locking" /\ \A c \in Creator : CI_creation[c] # "inserted"
      /\ CI_share' = TRUE
      /\ CI_script' = [CI_script EXCEPT !.phase = "next"]
  BY DEF CI!LockTable
<1>2. /\ CI_script' \in CI!Transaction
      /\ CI_script'.phase = "next" /\ CI_script'.op = CI_script.op
      /\ CI_script'.at = CI_script.at /\ CI_script'.rows = CI_script.rows
      /\ CI_script'.closures = CI_script.closures
  BY <1>1, PhaseChanges DEF CI!ImportInv, CI!TypeOK
<1>3. CI!TypeOK'
  BY <1>1, <1>2 DEF CI!ImportInv, CI!TypeOK
<1>4. CI!ScriptFits'
  BY <1>1, <1>2 DEF CI!ImportInv, CI!ScriptFits
<1>5. (CI!ImportStrandsNoBooking /\ CI!CreationsFit)'
  BY <1>1 DEF CI!ImportInv, CI!ImportStrandsNoBooking, CI!CreationsFit, CI!Fits
<1>6. CI!ShareFits'
  BY <1>1, <1>2 DEF CI!ShareFits
<1>7. CI!WritesFit'
  BY <1>1, <1>2 DEF CI!ImportInv, CI!WritesFit, CI!Active
<1>8. QED
  BY <1>3, <1>4, <1>5, <1>6, <1>7 DEF CI!ImportInv

LEMMA BeginKeepsImport ==
  ASSUME CI!ImportInv, CI!Begin
  PROVE  CI!ImportInv'
<1>1. /\ UNCHANGED <<CI_row, CI_closed, CI_bookings, CI_owner, CI_share, CI_creation, CI_runs>>
      /\ CI_script.phase = "next" /\ CI_script.at <= Len(Catalog)
      /\ CI_script' = [CI_script EXCEPT !.phase = "waiting", !.seen = CI_bookings]
  BY DEF CI!Begin, CI!locks
<1>2. /\ CI_script \in CI!Transaction /\ CI_bookings \subseteq CI!Booking
      /\ CI_script.at \in 0..(Len(Catalog) + 1) /\ CI_script.at >= 1
  BY <1>1 DEF CI!ImportInv, CI!TypeOK, CI!ScriptFits, CI!Transaction
<1>3. \A s \in CI!Transaction : \A seen \in SUBSET CI!Booking :
        LET t == [s EXCEPT !.phase = "waiting", !.seen = seen]
        IN /\ t \in CI!Transaction
           /\ t.phase = "waiting" /\ t.op = s.op /\ t.at = s.at /\ t.seen = seen
           /\ t.rows = s.rows /\ t.closures = s.closures
  BY DEF CI!Transaction
<1>4. /\ CI_script' \in CI!Transaction
      /\ CI_script'.phase = "waiting" /\ CI_script'.op = CI_script.op
      /\ CI_script'.at = CI_script.at /\ CI_script'.rows = CI_script.rows
      /\ CI_script'.seen = CI_bookings /\ CI_script'.closures = CI_script.closures
  BY <1>1, <1>2, <1>3
<1>5. CI!TypeOK'
  BY <1>1, <1>4 DEF CI!ImportInv, CI!TypeOK
<1>6. CI!ScriptFits'
  <2>1. CI_script.at \in DOMAIN Catalog
    BY <1>1, <1>2, ImportAssumption
  <2>2. QED
    BY <1>1, <1>4, <2>1 DEF CI!ImportInv, CI!ScriptFits
<1>7. (CI!ImportStrandsNoBooking /\ CI!CreationsFit)'
  BY <1>1 DEF CI!ImportInv, CI!ImportStrandsNoBooking, CI!CreationsFit, CI!Fits
<1>8. CI!ShareFits'
  BY <1>1, <1>4 DEF CI!ImportInv, CI!ShareFits
<1>9. CI!WritesFit'
  BY <1>1, <1>4 DEF CI!ImportInv, CI!WritesFit, CI!Active
<1>10. QED
  BY <1>5, <1>6, <1>7, <1>8, <1>9 DEF CI!ImportInv

\* The statement of an entry takes its row, and changes it if nobody booked it.
LEMMA WriteKeepsImport ==
  ASSUME CI!ImportInv, CI_script.phase = "waiting", CI!Take,
         NEW new \in CI!Rows \cup {None}, NEW phase \in {"next", "closing"},
         phase = "closing" => CI_script.op = "import",
         \/ new = CI_row[CI!Entry.resource]
         \/ CI!Active(CI!Entry.resource, CI_bookings) = {},
         CI!Write(new, phase)
  PROVE  CI!ImportInv'
<1> DEFINE r == CI!Entry.resource
<1>1. CI_script.at \in DOMAIN Catalog /\ r \in Imported
  BY EntriesAreTyped DEF CI!ImportInv, CI!ScriptFits, CI!Entry
<1> HIDE DEF r
<1>2. /\ UNCHANGED <<CI_row, CI_closed, CI_bookings, CI_share, CI_creation, CI_runs>>
      /\ CI_owner[r] = None /\ CI_owner' = [CI_owner EXCEPT ![r] = CI!Script]
      /\ CI_script' = [CI_script EXCEPT !.rows[r] = new, !.phase = phase,
                                        !.at = IF phase = "next" THEN @ + 1 ELSE @]
      /\ new = CI_row[r] \/ CI!Active(r, CI_bookings) = {}
  BY DEF CI!Take, CI!Write, r
<1>3. ASSUME NEW s \in CI!Transaction, s.at \in DOMAIN Catalog
      PROVE  LET t == [s EXCEPT !.rows[r] = new, !.phase = phase,
                                !.at = IF phase = "next" THEN @ + 1 ELSE @]
             IN /\ t \in CI!Transaction
                /\ t.phase = phase /\ t.op = s.op /\ t.closures = s.closures /\ t.seen = s.seen
                /\ t.rows = [s.rows EXCEPT ![r] = new]
                /\ t.at = IF phase = "next" THEN s.at + 1 ELSE s.at
  <2> DEFINE rows == [s.rows EXCEPT ![r] = new]
             at   == IF phase = "next" THEN s.at + 1 ELSE s.at
             t    == [s EXCEPT !.rows[r] = new, !.phase = phase,
                               !.at = IF phase = "next" THEN @ + 1 ELSE @]
  <2>1. s.at \in 1..Len(Catalog) /\ Len(Catalog) \in Nat
    BY <1>3, ImportAssumption
  <2>2. at \in 0..(Len(Catalog) + 1)
    BY <2>1
  <2>3. rows \in [Imported -> CI!Rows \cup {None}]
    BY <1>1, <1>3 DEF CI!Transaction
  <2>4. t = [s EXCEPT !.rows = rows, !.phase = phase, !.at = at]
    OBVIOUS
  <2> HIDE DEF rows, at, t
  <2>5. t \in CI!Transaction
    BY <1>3, <2>2, <2>3, <2>4 DEF CI!Transaction
  <2>6. /\ t.phase = phase /\ t.op = s.op /\ t.closures = s.closures /\ t.seen = s.seen
        /\ t.rows = rows /\ t.at = at
    BY <1>3, <2>4 DEF CI!Transaction
  <2>7. QED
    BY <2>5, <2>6 DEF rows, at, t
<1>4. CI_script \in CI!Transaction
  BY DEF CI!ImportInv, CI!TypeOK
<1>5. /\ CI_script' \in CI!Transaction
      /\ CI_script'.phase = phase /\ CI_script'.op = CI_script.op
      /\ CI_script'.closures = CI_script.closures
      /\ CI_script'.rows = [CI_script.rows EXCEPT ![r] = new]
      /\ CI_script'.at = IF phase = "next" THEN CI_script.at + 1 ELSE CI_script.at
  BY <1>1, <1>2, <1>3, <1>4
<1>6. /\ CI_owner \in [Imported -> Creator \cup {CI!Script, None}]
      /\ CI_script.rows \in [Imported -> CI!Rows \cup {None}]
      /\ \A k \in CI_script.closures : k[1] \in Imported
  BY DEF CI!ImportInv, CI!TypeOK, CI!Transaction
<1>7. CI!TypeOK'
  <2>1. CI_owner' \in [Imported -> Creator \cup {CI!Script, None}]
    BY <1>2, <1>6
  <2>2. QED
    BY <1>2, <1>5, <2>1 DEF CI!ImportInv, CI!TypeOK
<1>8. CI!ScriptFits'
  <2>1. CI_script.at \in Nat /\ CI_script.at >= 1 /\ CI!ValidCatalog
        /\ CI_script.op \in {"import", "clean"}
    BY <1>4 DEF CI!ImportInv, CI!ScriptFits, CI!Transaction
  <2>2. QED
    BY <1>1, <1>5, <2>1 DEF CI!ScriptFits, CI!ValidCatalog
<1>9. CI!ImportStrandsNoBooking'
  BY <1>2 DEF CI!ImportInv, CI!ImportStrandsNoBooking, CI!Fits
<1>10. CI!CreationsFit'
  <2>1. \A c \in Creator : Wanted[c].resource \in Imported /\ c # None
    BY ImportAssumption
  <2>2. \A c \in Creator : CI_owner[Wanted[c].resource] = c => CI_owner'[Wanted[c].resource] = c
    BY <1>2, <1>6, <2>1
  <2>3. QED
    BY <1>2, <2>2 DEF CI!ImportInv, CI!CreationsFit, CI!Fits
<1>11. CI!ShareFits'
  BY <1>2, <1>5 DEF CI!ImportInv, CI!ShareFits
<1>12. CI!WritesFit'
  <2>1. \A q \in Imported : CI_owner'[q] = IF q = r THEN CI!Script ELSE CI_owner[q]
    BY <1>2, <1>6
  <2>2. CI_share'
    BY <1>2 DEF CI!ImportInv, CI!ShareFits
  <2>3. ASSUME NEW q \in Imported
        PROVE  \/ CI_script'.rows[q] = CI_row[q]
               \/ CI_owner'[q] = CI!Script /\ CI!Active(q, CI_bookings) = {}
    <3>1. CASE q = r
      BY <3>1, <1>2, <1>5, <1>6, <2>1
    <3>2. CASE q # r
      BY <3>2, <1>5, <1>6, <2>1 DEF CI!ImportInv, CI!WritesFit
    <3>3. QED
      BY <3>1, <3>2
  <2>4. \A k \in CI_script.closures : /\ CI_owner'[k[1]] = CI!Script
                                      /\ \A b \in CI!Active(k[1], CI_bookings) : b.date # k[2]
    BY <1>6, <2>1 DEF CI!ImportInv, CI!WritesFit
  <2>5. phase = "closing" => CI_owner'[CI!Entry'.resource] = CI!Script
    BY <1>1, <1>5, <2>1 DEF CI!Entry, r
  <2>6. QED
    BY <1>2, <1>5, <2>2, <2>3, <2>4, <2>5 DEF CI!WritesFit, CI!Active
<1>13. QED
  BY <1>7, <1>8, <1>9, <1>10, <1>11, <1>12 DEF CI!ImportInv

LEMMA UpsertKeepsImport ==
  ASSUME CI!ImportInv, CI!Upsert
  PROVE  CI!ImportInv'
<1> DEFINE r   == CI!Entry.resource
           new == IF CI!Active(r, CI_script.seen) = {} THEN CI!RowOf(CI!Entry) ELSE CI_row[r]
<1>1. CI_script.phase = "waiting" /\ CI_script.op = "import" /\ CI!Take /\ CI!Write(new, "closing")
  BY DEF CI!Upsert
<1>2. r \in Imported /\ CI!RowOf(CI!Entry) \in CI!Rows
  BY <1>1, EntriesAreTyped DEF CI!ImportInv, CI!ScriptFits, CI!Entry
<1>3. CI_row[r] \in CI!Rows \cup {None}
  BY <1>2 DEF CI!ImportInv, CI!TypeOK
<1>4. CI_script.seen = CI_bookings
  BY <1>1 DEF CI!ImportInv, CI!ShareFits
<1>5. new = CI_row[r] \/ CI!Active(r, CI_bookings) = {}
  BY <1>4
<1>6. new \in CI!Rows \cup {None}
  BY <1>2, <1>3
<1> HIDE DEF new
<1>7. QED
  BY <1>1, <1>5, <1>6, WriteKeepsImport

LEMMA DeleteKeepsImport ==
  ASSUME CI!ImportInv, CI!Delete
  PROVE  CI!ImportInv'
<1> DEFINE r   == CI!Entry.resource
           new == IF \E b \in CI_script.seen : b.resource = r THEN CI_row[r] ELSE None
<1>1. CI_script.phase = "waiting" /\ CI!Take /\ CI!Write(new, "next")
  BY DEF CI!Delete
<1>2. r \in Imported
  BY <1>1, EntriesAreTyped DEF CI!ImportInv, CI!ScriptFits, CI!Entry
<1>3. CI_row[r] \in CI!Rows \cup {None}
  BY <1>2 DEF CI!ImportInv, CI!TypeOK
<1>4. CI_script.seen = CI_bookings
  BY <1>1 DEF CI!ImportInv, CI!ShareFits
<1>5. new = CI_row[r] \/ CI!Active(r, CI_bookings) = {}
  BY <1>4 DEF CI!Active
<1>6. new \in CI!Rows \cup {None}
  BY <1>3
<1> HIDE DEF new
<1>7. QED
  BY <1>1, <1>5, <1>6, WriteKeepsImport

LEMMA AddClosuresKeepsImport ==
  ASSUME CI!ImportInv, CI!AddClosures
  PROVE  CI!ImportInv'
<1> DEFINE e     == CI!Entry
           dates == {CI!ResolveClosureDate(o, e.days) : o \in e.offsets}
           free  == {d \in dates : \A b \in CI!Active(e.resource, CI_bookings) : b.date # d}
           new   == {<<e.resource, d>> : d \in free}
<1>1. /\ UNCHANGED <<CI_row, CI_closed, CI_bookings, CI_owner, CI_share, CI_creation, CI_runs>>
      /\ CI_script.phase = "closing"
      /\ CI_script' = [CI_script EXCEPT !.closures = @ \cup new, !.phase = "next", !.at = @ + 1]
  BY DEF CI!AddClosures, CI!locks
<1>2. /\ CI_script.at \in DOMAIN Catalog /\ CI!ValidCatalog /\ CI_script \in CI!Transaction
      /\ CI_script.op \in {"import", "clean"} /\ CI_owner[e.resource] = CI!Script /\ CI_share
  BY <1>1 DEF CI!ImportInv, CI!ScriptFits, CI!TypeOK, CI!WritesFit, CI!ShareFits
<1>3. e.resource \in Imported
  BY <1>2, EntriesAreTyped DEF CI!Entry
<1>4. \A d \in dates : d \in Int /\ d > Today
  <2>1. e.days \in SUBSET (0..6) /\ e.days # {} /\ \A o \in e.offsets : o \in 1..365
    BY <1>2 DEF CI!ValidCatalog, CI!Entry
  <2> HIDE DEF e
  <2>2. QED
    BY <2>1, ClosureDateIsLater
<1>5. new \subseteq Imported \X Int /\ \A k \in new : k[1] = e.resource /\ k[2] > Today
  BY <1>3, <1>4
<1>6. \A k \in new : \A b \in CI!Active(k[1], CI_bookings) : b.date # k[2]
  OBVIOUS
<1> HIDE DEF new, e
<1>7. ASSUME NEW s \in CI!Transaction, s.at \in DOMAIN Catalog
      PROVE  LET t == [s EXCEPT !.closures = @ \cup new, !.phase = "next", !.at = @ + 1]
             IN /\ t \in CI!Transaction
                /\ t.phase = "next" /\ t.op = s.op /\ t.seen = s.seen /\ t.rows = s.rows
                /\ t.closures = s.closures \cup new
                /\ t.at = s.at + 1
  <2> DEFINE closures == s.closures \cup new
             at       == s.at + 1
             t        == [s EXCEPT !.closures = @ \cup new, !.phase = "next", !.at = @ + 1]
  <2>1. s.at \in 1..Len(Catalog) /\ Len(Catalog) \in Nat
    BY <1>7, ImportAssumption
  <2>2. at \in 0..(Len(Catalog) + 1)
    BY <2>1
  <2>3. closures \subseteq Imported \X Int
    BY <1>5, <1>7 DEF CI!Transaction
  <2>4. t = [s EXCEPT !.closures = closures, !.phase = "next", !.at = at]
    OBVIOUS
  <2> HIDE DEF closures, at, t
  <2>5. t \in CI!Transaction
    BY <1>7, <2>2, <2>3, <2>4 DEF CI!Transaction
  <2>6. /\ t.phase = "next" /\ t.op = s.op /\ t.seen = s.seen /\ t.rows = s.rows
        /\ t.closures = closures /\ t.at = at
    BY <1>7, <2>4 DEF CI!Transaction
  <2>7. QED
    BY <2>5, <2>6 DEF closures, at, t
<1>8. /\ CI_script' \in CI!Transaction
      /\ CI_script'.phase = "next" /\ CI_script'.op = CI_script.op
      /\ CI_script'.rows = CI_script.rows
      /\ CI_script'.closures = CI_script.closures \cup new
      /\ CI_script'.at = CI_script.at + 1
  BY <1>1, <1>2, <1>7
<1>9. CI!TypeOK'
  BY <1>1, <1>5, <1>8 DEF CI!ImportInv, CI!TypeOK
<1>10. CI!ScriptFits'
  <2>1. CI_script.at \in Nat
    BY <1>2 DEF CI!Transaction
  <2>2. QED
    BY <1>2, <1>8, <2>1 DEF CI!ScriptFits, CI!ValidCatalog
<1>11. (CI!ImportStrandsNoBooking /\ CI!CreationsFit)'
  BY <1>1 DEF CI!ImportInv, CI!ImportStrandsNoBooking, CI!CreationsFit, CI!Fits
<1>12. CI!ShareFits'
  BY <1>1, <1>2, <1>8 DEF CI!ImportInv, CI!ShareFits
<1>13. CI!WritesFit'
  <2>1. \A k \in CI_script'.closures : /\ CI_owner[k[1]] = CI!Script
                                       /\ \A b \in CI!Active(k[1], CI_bookings) : b.date # k[2]
    BY <1>2, <1>5, <1>6, <1>8 DEF CI!ImportInv, CI!WritesFit
  <2>2. QED
    BY <1>1, <1>2, <1>8, <2>1 DEF CI!ImportInv, CI!WritesFit, CI!Active
<1>14. QED
  BY <1>9, <1>10, <1>11, <1>12, <1>13 DEF CI!ImportInv

LEMMA CommitScriptKeepsImport ==
  ASSUME CI!ImportInv, CI!CommitScript
  PROVE  CI!ImportInv'
<1>1. /\ UNCHANGED <<CI_bookings, CI_creation, CI_runs>>
      /\ CI_row' = CI_script.rows
      /\ CI_closed' = {k \in CI_closed \cup CI_script.closures : CI_script.rows[k[1]] # None}
      /\ CI!Unlock(CI!Script) /\ CI_share' = FALSE
      /\ CI_script.phase = "next"
  BY DEF CI!CommitScript
<1>2. CI_script' = [op |-> "none", phase |-> "off", at |-> 0, seen |-> {},
                    rows |-> CI_script.rows, closures |-> {}]
  BY DEF CI!CommitScript, CI!Off
<1>3. CI_script \in CI!Transaction /\ Len(Catalog) \in Nat
  BY ImportAssumption DEF CI!ImportInv, CI!TypeOK
<1>4. CI!TypeOK'
  <2>1. CI_script' \in CI!Transaction
    BY <1>2, <1>3 DEF CI!Transaction
  <2>2. CI_closed' \subseteq Imported \X Int /\ \A k \in CI_closed' : k[2] > Today
    BY <1>1, <1>3 DEF CI!ImportInv, CI!TypeOK, CI!Transaction
  <2>3. CI_script'.closures = {}
    BY <1>2
  <2>4. CI_row' \in [Imported -> CI!Rows \cup {None}]
    BY <1>1, <1>3 DEF CI!Transaction
  <2>5. QED
    BY <1>1, <2>1, <2>2, <2>3, <2>4, UnlockFrees DEF CI!ImportInv, CI!TypeOK
<1>5. CI!ScriptFits'
  BY <1>2 DEF CI!ScriptFits
<1>6. /\ \A r \in Imported : \/ CI_row'[r] = CI_row[r]
                             \/ CI_owner[r] = CI!Script /\ CI!Active(r, CI_bookings) = {}
      /\ \A k \in CI_script.closures : /\ CI_owner[k[1]] = CI!Script
                                       /\ \A b \in CI!Active(k[1], CI_bookings) : b.date # k[2]
  BY <1>1 DEF CI!ImportInv, CI!WritesFit
<1>7. CI!ImportStrandsNoBooking'
  <2> SUFFICES ASSUME NEW b \in CI_bookings, b.active
               PROVE  CI!Fits(b, b.resource)' /\ <<b.resource, b.date>> \notin CI_closed'
    BY <1>1 DEF CI!ImportStrandsNoBooking
  <2>1. b.resource \in Imported /\ b \in CI!Active(b.resource, CI_bookings)
    BY DEF CI!ImportInv, CI!TypeOK, CI!Booking, CI!Active
  <2>2. CI!Fits(b, b.resource) /\ <<b.resource, b.date>> \notin CI_closed
    BY DEF CI!ImportInv, CI!ImportStrandsNoBooking
  <2>3. CI_row'[b.resource] = CI_row[b.resource]
    BY <1>6, <2>1
  <2>4. <<b.resource, b.date>> \notin CI_script.closures
    BY <1>6, <2>1
  <2>5. QED
    BY <1>1, <2>2, <2>3, <2>4 DEF CI!Fits
<1>8. CI!CreationsFit'
  <2> SUFFICES ASSUME NEW c \in Creator, CI_creation[c] \in {"checked", "inserted"}
               PROVE  /\ CI_owner'[Wanted[c].resource] = c
                      /\ CI!Fits(Wanted[c], Wanted[c].resource)'
                      /\ <<Wanted[c].resource, Wanted[c].date>> \notin CI_closed'
    BY <1>1 DEF CI!CreationsFit
  <2> DEFINE w == Wanted[c]
  <2>1. /\ CI_owner[w.resource] = c /\ CI!Fits(w, w.resource)
        /\ <<w.resource, w.date>> \notin CI_closed
    BY DEF CI!ImportInv, CI!CreationsFit
  <2>2. w.resource \in Imported /\ c # CI!Script
    BY ImportAssumption DEF CI!Script
  <2> HIDE DEF w
  <2>3. CI_owner'[w.resource] = c
    BY <1>1, <2>1, <2>2, UnlockFrees
  <2>4. CI_row'[w.resource] = CI_row[w.resource] /\ <<w.resource, w.date>> \notin CI_script.closures
    BY <1>6, <2>1, <2>2
  <2>5. CI!Fits(w, w.resource)'
    BY <2>1, <2>4 DEF CI!Fits, w
  <2>6. <<w.resource, w.date>> \notin CI_closed'
    BY <1>1, <2>1, <2>4
  <2>7. QED
    BY <2>3, <2>5, <2>6 DEF w
<1>9. CI!ShareFits'
  BY <1>1, <1>2 DEF CI!ShareFits
<1>10. CI!WritesFit'
  BY <1>1, <1>2 DEF CI!WritesFit
<1>11. QED
  BY <1>4, <1>5, <1>7, <1>8, <1>9, <1>10 DEF CI!ImportInv

LEMMA RollbackKeepsImport ==
  ASSUME CI!ImportInv, CI!Rollback
  PROVE  CI!ImportInv'
<1>1. /\ UNCHANGED <<CI_row, CI_closed, CI_bookings, CI_creation, CI_runs>>
      /\ CI!Unlock(CI!Script) /\ CI_share' = FALSE
  BY DEF CI!Rollback
<1>2. CI_script' = [op |-> "none", phase |-> "off", at |-> 0, seen |-> {},
                    rows |-> CI_row, closures |-> {}]
  BY DEF CI!Rollback, CI!Off
<1>3. Len(Catalog) \in Nat
  BY ImportAssumption
<1>4. CI!TypeOK'
  <2>1. CI_script' \in CI!Transaction
    BY <1>2, <1>3 DEF CI!ImportInv, CI!TypeOK, CI!Transaction
  <2>2. CI_script'.closures = {}
    BY <1>2
  <2>3. QED
    BY <1>1, <2>1, <2>2, UnlockFrees DEF CI!ImportInv, CI!TypeOK
<1>5. CI!ScriptFits'
  BY <1>2 DEF CI!ScriptFits
<1>6. CI!ImportStrandsNoBooking'
  BY <1>1 DEF CI!ImportInv, CI!ImportStrandsNoBooking, CI!Fits
<1>7. CI!CreationsFit'
  <2>1. \A c \in Creator : Wanted[c].resource \in Imported /\ c # CI!Script
    BY ImportAssumption DEF CI!Script
  <2>2. \A c \in Creator : CI_owner[Wanted[c].resource] = c => CI_owner'[Wanted[c].resource] = c
    BY <1>1, <2>1, UnlockFrees
  <2>3. QED
    BY <1>1, <2>2 DEF CI!ImportInv, CI!CreationsFit, CI!Fits
<1>8. CI!ShareFits' /\ CI!WritesFit'
  BY <1>1, <1>2 DEF CI!ShareFits, CI!WritesFit
<1>9. QED
  BY <1>4, <1>5, <1>6, <1>7, <1>8 DEF CI!ImportInv

LEMMA ImportStep == CI!ImportInv /\ CI!Next => CI!ImportInv'
<1> SUFFICES ASSUME CI!ImportInv, CI!Next PROVE CI!ImportInv'
  OBVIOUS
<1>1. ASSUME NEW c \in Creator,
             CI!LockResource(c) \/ CI!Insert(c) \/ CI!CommitBooking(c) \/ CI!AbortCreation(c)
      PROVE  CI!ImportInv'
  BY <1>1, LockResourceKeepsImport, InsertKeepsImport, CommitBookingKeepsImport,
     AbortCreationKeepsImport
<1>2. ASSUME NEW b \in CI_bookings, CI!EndBooking(b) PROVE CI!ImportInv'
  BY <1>2, EndBookingKeepsImport
<1>3. ASSUME NEW op \in {"import", "clean"}, CI!Run(op) PROVE CI!ImportInv'
  BY <1>3, RunKeepsImport
<1>4. CASE CI!LockTable \/ CI!Begin \/ CI!Upsert \/ CI!AddClosures \/ CI!Delete
  BY <1>4, LockTableKeepsImport, BeginKeepsImport, UpsertKeepsImport, AddClosuresKeepsImport,
     DeleteKeepsImport
<1>5. CASE CI!CommitScript \/ CI!Rollback
  BY <1>5, CommitScriptKeepsImport, RollbackKeepsImport
<1>6. QED
  BY <1>1, <1>2, <1>3, <1>4, <1>5 DEF CI!Next

LEMMA StepOfImport == [Next]_vars => CI!Next \/ UNCHANGED CIvars
BY DEF Next, Still, vars

LEMMA ImportFits == Spec => []CI!ImportInv
<1>1. Init => CI!ImportInv
  BY ImportStarts DEF Init
<1>2. CI!ImportInv /\ [Next]_vars => CI!ImportInv'
  BY StepOfImport, ImportStep, ImportStutters
<1>3. QED
  BY <1>1, <1>2, PTL DEF Spec

\* Whatever the scripts and the creations of bookings do to each other, an
\* active booking keeps a resource that exists, is open at its hours and is
\* not closed on its date.
THEOREM ImportKeepsBookings == Spec => []ImportStrandsNoBooking
<1>1. CI!ImportInv => ImportStrandsNoBooking
  BY DEF ImportStrandsNoBooking, CI!ImportInv
<1>2. QED
  BY <1>1, ImportFits, PTL

----------------------------------------------------------------------------
(* The page of a booking.                                                  *)

LEMMA AfterValues ==
  /\ BP!After["cancel"] = "cancelled" /\ BP!After["check-in"] = "confirmed"
  /\ BP!After["approve"] = "confirmed" /\ BP!After["reject"] = "rejected"
  /\ BP!After["confirm-check-in"] = "checked_in" /\ BP!After["check-out"] = "completed"
  /\ BP!After["no-show"] = "no_show"
BY DEF BP!After, BP!Op

LEMMA RankValues ==
  ASSUME NEW v, v.status \in BP!Status, v.code \in BOOLEAN
  PROVE  /\ BP!Rank(v) \in 0..4
         /\ v.status = "pending" => BP!Rank(v) = 0
         /\ v.status = "confirmed" => BP!Rank(v) = IF v.code THEN 2 ELSE 1
         /\ v.status = "checked_in" => BP!Rank(v) = 3
         /\ v.status \in {"completed", "no_show", "rejected", "cancelled"} => BP!Rank(v) = 4
BY DEF BP!Rank, BP!Status

LEMMA ReadIsTyped ==
  ASSUME NEW bk \in BP!Row, NEW clock \in BP!Instant
  PROVE  /\ BP!Read(bk, clock) \in BP!View
         /\ BP!Read(bk, clock).status = bk.status /\ BP!Read(bk, clock).code = bk.code
         /\ BP!Rank(BP!Read(bk, clock)) = BP!Rank(bk)
BY DEF BP!Read, BP!View, BP!Row, BP!Rank

LEMMA DoneIsTyped ==
  ASSUME NEW op \in BP!Op
  PROVE  /\ BP!Done(op) \in BP!Row
         /\ BP!Done(op).status = BP!After[op]
         /\ BP!Done(op).code = (op = "check-in")
         /\ BP!Done(op).code => BP!Done(op).status = "confirmed"
BY AfterValues DEF BP!Done, BP!Row, BP!Op, BP!Status

\* What an operation asks of a booking.
LEMMA AdmittedMeans ==
  ASSUME NEW v, NEW op \in BP!Admits(v)
  PROVE  \/ op = "cancel" /\ BP!CanCancel(v)
         \/ op = "check-in" /\ BP!CanCheckIn(v)
         \/ op \in {"approve", "reject"} /\ BP!CanReview(v)
         \/ op = "confirm-check-in" /\ BP!CanConfirm(v)
         \/ op = "check-out" /\ v.status = "checked_in"
         \/ op = "no-show" /\ BP!CanNoShow(v)
BY DEF BP!Admits

\* An operation the booking admits takes it forward, and the student's two do
\* not admit each other.
LEMMA AdmittedMovesForward ==
  ASSUME NEW bk \in BP!Row, NEW clock \in BP!Instant, NEW op \in BP!Admits(BP!Read(bk, clock))
  PROVE  /\ op \in BP!Op
         /\ BP!Rank(bk) < BP!Rank(BP!Done(op))
         /\ op \in {"cancel", "check-in"} => BP!Rank(bk) <= 1 /\ BP!Rank(BP!Done(op)) >= 2
<1> DEFINE v == BP!Read(bk, clock)
<1>1. op \in BP!Op
  BY AdmittedMeans DEF BP!Op
<1>2. /\ v.status = bk.status /\ v.code = bk.code
      /\ bk.status \in BP!Status /\ bk.code \in BOOLEAN
  BY DEF BP!Read, BP!Row
<1>3. /\ BP!Rank(bk) \in 0..4
      /\ bk.status = "pending" => BP!Rank(bk) = 0
      /\ bk.status = "confirmed" => BP!Rank(bk) = IF bk.code THEN 2 ELSE 1
      /\ bk.status = "checked_in" => BP!Rank(bk) = 3
  BY <1>2, RankValues
<1>4. /\ BP!Done(op).status = BP!After[op] /\ BP!Done(op).code = (op = "check-in")
      /\ BP!Done(op).status \in BP!Status /\ BP!Done(op).code \in BOOLEAN
  BY <1>1, DoneIsTyped DEF BP!Row
<1> DEFINE d == BP!Done(op)
<1>5. /\ d.status = "confirmed" => BP!Rank(d) = IF op = "check-in" THEN 2 ELSE 1
      /\ d.status = "checked_in" => BP!Rank(d) = 3
      /\ d.status \in {"completed", "no_show", "rejected", "cancelled"} => BP!Rank(d) = 4
  BY <1>4, RankValues
<1> HIDE DEF d, v
<1>6. CASE op = "cancel" /\ BP!CanCancel(v)
  BY <1>1, <1>2, <1>3, <1>4, <1>5, <1>6, AfterValues DEF BP!CanCancel, d
<1>7. CASE op = "check-in" /\ BP!CanCheckIn(v)
  BY <1>1, <1>2, <1>3, <1>4, <1>5, <1>7, AfterValues DEF BP!CanCheckIn, d
<1>8. CASE op \in {"approve", "reject"} /\ BP!CanReview(v)
  BY <1>1, <1>2, <1>3, <1>4, <1>5, <1>8, AfterValues DEF BP!CanReview, d
<1>9. CASE op = "confirm-check-in" /\ BP!CanConfirm(v)
  BY <1>1, <1>2, <1>3, <1>4, <1>5, <1>9, AfterValues DEF BP!CanConfirm, d
<1>10. CASE op = "check-out" /\ v.status = "checked_in"
  BY <1>1, <1>2, <1>3, <1>4, <1>5, <1>10, AfterValues DEF d
<1>11. CASE op = "no-show" /\ BP!CanNoShow(v)
  BY <1>1, <1>2, <1>3, <1>4, <1>5, <1>11, AfterValues DEF BP!CanNoShow, d
<1>12. QED
  BY <1>1, <1>6, <1>7, <1>8, <1>9, <1>10, <1>11, AdmittedMeans DEF d, v

LEMMA NoRequestIsTyped ==
  /\ BP!NoRequest \in [state : {"none"}, view : BP!View]
  /\ \A s \in {"sent", "failed"} :
       /\ [BP!NoRequest EXCEPT !.state = s] \in [state : {s}, view : BP!View]
       /\ [BP!NoRequest EXCEPT !.state = s].state = s
<1>1. BP!NoRequest \in [state : {"none"}, view : BP!View]
  BY DEF BP!NoRequest, BP!View, BP!Status, BP!Instant
<1>2. \A x \in [state : {"none"}, view : BP!View] : \A s \in {"sent", "failed"} :
        /\ [x EXCEPT !.state = s] \in [state : {s}, view : BP!View]
        /\ [x EXCEPT !.state = s].state = s
  OBVIOUS
<1>3. QED
  BY <1>1, <1>2

LEMMA PageStarts == BP!Init => BP!PageInv
<1> SUFFICES ASSUME BP!Init PROVE BP!PageInv
  OBVIOUS
<1>1. /\ BP_booking \in BP!Row /\ BP_now \in BP!Instant /\ BP_viewer \in BP!Viewer
      /\ BP_booking.code => BP_booking.status = "confirmed"
      /\ BP_shown = BP!Read(BP_booking, BP_now) /\ BP_props = BP_shown
      /\ BP_asking = FALSE /\ BP_error = "none"
      /\ BP_request = [op \in BP!Op |-> BP!NoRequest] /\ BP_load = BP!NoRequest
  BY DEF BP!Init, BP!NoLoad
<1>2. /\ BP!NoRequest.state = "none" /\ BP!NoRequest.view \in BP!View
      /\ BP!NoRequest \in [state : {"none"}, view : BP!View]
  BY DEF BP!NoRequest, BP!View, BP!Status, BP!Instant
<1>3. BP_shown \in BP!View /\ BP!Rank(BP_shown) = BP!Rank(BP_booking)
  BY <1>1, ReadIsTyped
<1>4. BP!Rank(BP_booking) \in 0..4
  BY <1>1, RankValues DEF BP!Row
<1>5. BP!TypeOK
  BY <1>1, <1>2, <1>3 DEF BP!TypeOK
<1>6. BP!ReadsArePast /\ BP!AnswersAreNews /\ BP!ShownSince
  BY <1>1, <1>2, <1>3, <1>4 DEF BP!ReadsArePast, BP!AnswersAreNews, BP!ShownSince, BP!Busy
<1>7. QED
  BY <1>5, <1>6 DEF BP!PageInv

LEMMA PageStutters == BP!PageInv /\ UNCHANGED BPvars => BP!PageInv'
BY DEF BPvars, BP!PageInv, BP!TypeOK, BP!ReadsArePast, BP!AnswersAreNews, BP!ShownSince, BP!Busy

\* Time passes, and the student or staff open and close the confirmation.
LEMMA AskingKeepsPage ==
  ASSUME BP!PageInv,
         \/ BP!Tick \/ BP!Ask \/ BP!Keep \/ BP!Refresh
         \/ \E op \in BP!Op : BP!Invalid(op)
  PROVE  BP!PageInv'
<1>1. UNCHANGED <<BP_viewer, BP_booking, BP_shown, BP_props, BP_request>>
  BY DEF BP!Tick, BP!Ask, BP!Keep, BP!Refresh, BP!Invalid
<1>2. BP_load' = BP_load \/ BP_load' = [BP!NoRequest EXCEPT !.state = "sent"]
  BY DEF BP!Tick, BP!Ask, BP!Keep, BP!Refresh, BP!Invalid, BP!NoLoad
<1>3. LET new == [BP!NoRequest EXCEPT !.state = "sent"]
      IN new.state = "sent" /\ new \in [state : {"none", "sent", "read"}, view : BP!View]
  BY NoRequestIsTyped
<1>4. BP_now' \in BP!Instant /\ BP_asking' \in BOOLEAN /\ BP_error' \in {"none", "conflict", "other"}
  <2>1. /\ BP_now \in BP!Instant /\ BP_asking \in BOOLEAN
        /\ BP_error \in {"none", "conflict", "other"}
    BY DEF BP!PageInv, BP!TypeOK
  <2>2. CASE BP!Tick
    BY <2>1, <2>2 DEF BP!Tick, BP!Instant, BP!End
  <2>3. CASE BP!Ask
    BY <2>1, <2>3 DEF BP!Ask
  <2>4. CASE BP!Keep
    BY <2>1, <2>4 DEF BP!Keep
  <2>5. CASE BP!Refresh
    BY <2>1, <2>5 DEF BP!Refresh
  <2>6. CASE \E op \in BP!Op : BP!Invalid(op)
    BY <2>1, <2>6 DEF BP!Invalid
  <2>7. QED
    BY <2>2, <2>3, <2>4, <2>5, <2>6
<1>5. BP!TypeOK'
  BY <1>1, <1>2, <1>3, <1>4 DEF BP!PageInv, BP!TypeOK
<1>6. (BP!ReadsArePast /\ BP!AnswersAreNews /\ BP!ShownSince)'
  BY <1>1, <1>2, <1>3 DEF BP!PageInv, BP!ReadsArePast, BP!AnswersAreNews, BP!ShownSince, BP!Busy
<1>7. QED
  BY <1>5, <1>6 DEF BP!PageInv

LEMMA OthersKeepPage ==
  ASSUME BP!PageInv, NEW op \in BP!Op, BP!Others(op)
  PROVE  BP!PageInv'
<1>1. /\ UNCHANGED <<BP_viewer, BP_now, BP_shown, BP_props, BP_asking, BP_request, BP_error,
                     BP_load>>
      /\ op \in BP!Admits(BP!Read(BP_booking, BP_now)) /\ BP_booking' = BP!Done(op)
  BY DEF BP!Others
<1>2. BP_booking \in BP!Row /\ BP_now \in BP!Instant /\ BP_shown \in BP!View
  BY DEF BP!PageInv, BP!TypeOK
<1>3. BP!TypeOK'
  BY <1>1, DoneIsTyped DEF BP!PageInv, BP!TypeOK
<1>4. /\ BP!Rank(BP_booking) < BP!Rank(BP_booking')
      /\ BP!Rank(BP_booking) \in Int /\ BP!Rank(BP_booking') \in Int /\ BP!Rank(BP_shown) \in Int
  <2>1. BP_booking' \in BP!Row
    BY <1>1, DoneIsTyped
  <2>2. QED
    BY <1>1, <1>2, <2>1, AdmittedMovesForward, RankValues DEF BP!Row, BP!View
<1>5. \A o \in BP!Op : BP!Rank(BP_request[o].view) \in Int
  BY RankValues DEF BP!PageInv, BP!TypeOK, BP!View
<1>6. BP!Rank(BP_load.view) \in Int
  BY RankValues DEF BP!PageInv, BP!TypeOK, BP!View
<1>7. (BP!ReadsArePast /\ BP!AnswersAreNews /\ BP!ShownSince)'
  BY <1>1, <1>4, <1>5, <1>6
     DEF BP!PageInv, BP!ReadsArePast, BP!AnswersAreNews, BP!ShownSince, BP!Busy
<1>8. QED
  BY <1>3, <1>7 DEF BP!PageInv

\* A request that is done with, or has just been sent.
LEMMA RequestKeepsPage ==
  ASSUME BP!PageInv, NEW op \in BP!Op, op \in BP!OpsOf[BP_viewer],
         NEW new \in [state : {"none", "sent", "conflict", "failed"}, view : BP!View],
         BP_request' = [BP_request EXCEPT ![op] = new],
         \/ BP_request[op].state # "none"
         \/ BP_viewer = "staff" => \A o \in BP!Op : ~BP!Busy(o),
         UNCHANGED <<BP_viewer, BP_booking, BP_now, BP_shown, BP_props, BP_load>>,
         BP_asking' \in BOOLEAN, BP_error' \in {"none", "conflict", "other"}
  PROVE  BP!PageInv'
<1>1. BP_request \in [BP!Op -> [state : {"none", "sent", "done", "conflict", "failed"},
                                view : BP!View]]
  BY DEF BP!PageInv, BP!TypeOK
<1>2. BP!TypeOK'
  BY <1>1 DEF BP!PageInv, BP!TypeOK
<1>3. \A o \in BP!Op : o # op => BP_request'[o] = BP_request[o]
  BY <1>1
<1>4. BP_request'[op] = new /\ new.state # "done"
  BY <1>1
<1>5. (BP!ReadsArePast /\ BP!ShownSince)'
  BY DEF BP!PageInv, BP!ReadsArePast, BP!ShownSince
<1>6. BP!AnswersAreNews'
  BY <1>3, <1>4 DEF BP!PageInv, BP!AnswersAreNews, BP!Busy
<1>7. QED
  BY <1>2, <1>5, <1>6 DEF BP!PageInv

LEMMA SendKeepsPage ==
  ASSUME BP!PageInv, NEW op \in BP!Op, BP!Send(op)
  PROVE  BP!PageInv'
<1>1. /\ BP_request' = [BP_request EXCEPT ![op].state = "sent"] /\ BP!Offered(op)
      /\ UNCHANGED <<BP_viewer, BP_booking, BP_now, BP_shown, BP_props, BP_asking, BP_load>>
      /\ BP_error' = "none"
  BY DEF BP!Send
<1>2. BP_request[op] \in [state : {"none", "sent", "done", "conflict", "failed"}, view : BP!View]
  BY DEF BP!PageInv, BP!TypeOK
<1> DEFINE new == [BP_request[op] EXCEPT !.state = "sent"]
<1>3. new \in [state : {"none", "sent", "conflict", "failed"}, view : BP!View]
  BY <1>2
<1>4. BP_request' = [BP_request EXCEPT ![op] = new]
  BY <1>1, <1>2 DEF BP!PageInv, BP!TypeOK
<1>5. /\ op \in BP!OpsOf[BP_viewer]
      /\ BP_viewer = "staff" => \A o \in BP!Op : ~BP!Busy(o)
  <2>1. BP_viewer \in {"student", "staff"} /\ \A o \in BP!Op \ BP!OpsOf[BP_viewer] : ~BP!Busy(o)
    BY NoRequestIsTyped DEF BP!PageInv, BP!TypeOK, BP!Busy, BP!Viewer
  <2>2. CASE BP_viewer = "student"
    BY <1>1, <2>2 DEF BP!Offered, BP!StudentOffers, BP!OpsOf
  <2>3. CASE BP_viewer = "staff"
    <3>1. op \in BP!OpsOf["staff"] /\ ~BP!Saving
      BY <1>1, <2>3 DEF BP!Offered, BP!StaffOffers
    <3>2. QED
      BY <2>1, <2>3, <3>1 DEF BP!Saving
  <2>4. QED
    BY <2>1, <2>2, <2>3
<1> HIDE DEF new
<1>6. BP_asking' \in BOOLEAN
  BY <1>1 DEF BP!PageInv, BP!TypeOK
<1>7. QED
  BY <1>1, <1>3, <1>4, <1>5, <1>6, RequestKeepsPage

LEMMA BusyIsOwn ==
  ASSUME BP!PageInv, NEW op \in BP!Op, BP_request[op].state # "none"
  PROVE  op \in BP!OpsOf[BP_viewer]
BY NoRequestIsTyped DEF BP!PageInv, BP!TypeOK

LEMMA LoseKeepsPage ==
  ASSUME BP!PageInv, NEW op \in BP!Op, BP!Lose(op)
  PROVE  BP!PageInv'
<1> DEFINE new == [BP!NoRequest EXCEPT !.state = "failed"]
<1>1. /\ BP_request' = [BP_request EXCEPT ![op] = new] /\ BP_request[op].state # "none"
      /\ UNCHANGED <<BP_viewer, BP_booking, BP_now, BP_shown, BP_props, BP_asking, BP_load>>
      /\ BP_error' = BP_error
  BY DEF BP!Lose
<1>2. new \in [state : {"none", "sent", "conflict", "failed"}, view : BP!View]
  BY NoRequestIsTyped
<1> HIDE DEF new
<1>3. BP_asking' \in BOOLEAN /\ BP_error' \in {"none", "conflict", "other"}
  BY <1>1 DEF BP!PageInv, BP!TypeOK
<1>4. QED
  BY <1>1, <1>2, <1>3, BusyIsOwn, RequestKeepsPage

LEMMA FailKeepsPage ==
  ASSUME BP!PageInv, NEW op \in BP!Op, BP!Fail(op)
  PROVE  BP!PageInv'
<1>1. /\ BP_request' = [BP_request EXCEPT ![op] = BP!NoRequest] /\ BP_request[op].state # "none"
      /\ UNCHANGED <<BP_viewer, BP_booking, BP_now, BP_shown, BP_props, BP_load>>
  BY DEF BP!Fail
<1>2. BP!NoRequest \in [state : {"none", "sent", "conflict", "failed"}, view : BP!View]
  BY NoRequestIsTyped
<1>3. BP_asking' \in BOOLEAN
  BY DEF BP!Fail, BP!PageInv, BP!TypeOK
<1>4. BP_error' \in {"none", "conflict", "other"}
  BY DEF BP!Fail
<1>5. QED
  BY <1>1, <1>2, <1>3, <1>4, BusyIsOwn, RequestKeepsPage

LEMMA ServeKeepsPage ==
  ASSUME BP!PageInv, NEW op \in BP!Op, BP!Serve(op)
  PROVE  BP!PageInv'
<1>1. /\ BP_request[op].state = "sent"
      /\ UNCHANGED <<BP_viewer, BP_now, BP_shown, BP_props, BP_asking, BP_error, BP_load>>
  BY DEF BP!Serve
<1>2. /\ op \in BP!OpsOf[BP_viewer] /\ BP_booking \in BP!Row /\ BP_now \in BP!Instant
      /\ BP_shown \in BP!View
      /\ BP_request \in [BP!Op -> [state : {"none", "sent", "done", "conflict", "failed"},
                                   view : BP!View]]
  BY <1>1, BusyIsOwn DEF BP!PageInv, BP!TypeOK
<1>3. CASE /\ BP_request' = [BP_request EXCEPT ![op].state = "conflict"]
           /\ BP_booking' = BP_booking
  <2> DEFINE new == [BP_request[op] EXCEPT !.state = "conflict"]
  <2>1. new \in [state : {"none", "sent", "conflict", "failed"}, view : BP!View]
    BY <1>2
  <2>2. BP_request' = [BP_request EXCEPT ![op] = new]
    BY <1>2, <1>3
  <2> HIDE DEF new
  <2>3. BP_asking' \in BOOLEAN /\ BP_error' \in {"none", "conflict", "other"}
    BY <1>1 DEF BP!PageInv, BP!TypeOK
  <2>4. QED
    BY <1>1, <1>2, <1>3, <2>1, <2>2, <2>3, RequestKeepsPage
<1>4. CASE /\ op \in BP!Admits(BP!Read(BP_booking, BP_now))
           /\ BP_booking' = BP!Done(op)
           /\ BP_request' = [BP_request EXCEPT
                               ![op] = [state |-> "done", view |-> BP!Read(BP_booking', BP_now)]]
  <2> DEFINE view == BP!Read(BP_booking', BP_now)
  <2>1. /\ BP_booking' \in BP!Row /\ BP_booking'.status = BP!After[op]
        /\ BP_booking'.code = (op = "check-in")
        /\ BP_booking'.code => BP_booking'.status = "confirmed"
    BY <1>4, DoneIsTyped
  <2>2. /\ view \in BP!View /\ view.status = BP_booking'.status /\ view.code = BP_booking'.code
        /\ BP!Rank(view) = BP!Rank(BP_booking')
    BY <1>2, <2>1, ReadIsTyped
  <2>3. /\ BP!Rank(BP_booking) < BP!Rank(BP_booking')
        /\ op \in {"cancel", "check-in"} => BP!Rank(BP_booking) <= 1
    BY <1>2, <1>4, AdmittedMovesForward
  <2>4. /\ BP!Rank(BP_booking) \in Int /\ BP!Rank(BP_booking') \in Int
        /\ BP!Rank(BP_shown) \in Int /\ BP!Rank(BP_shown) <= BP!Rank(BP_booking)
        /\ BP!Rank(BP_load.view) \in Int
    BY <1>2, <2>1, RankValues DEF BP!Row, BP!View, BP!PageInv, BP!ReadsArePast, BP!TypeOK
  <2> HIDE DEF view
  <2>5. /\ BP_request'[op] = [state |-> "done", view |-> view]
        /\ \A o \in BP!Op : o # op => BP_request'[o] = BP_request[o]
    BY <1>2, <1>4 DEF view
  <2>6. \A o \in BP!Op : o # op => BP_request[o].state # "done"
    <3> SUFFICES ASSUME NEW o \in BP!Op, o # op, BP_request[o].state = "done"
                 PROVE  FALSE
      OBVIOUS
    <3>1. CASE BP_viewer = "staff"
      BY <1>1, <3>1 DEF BP!PageInv, BP!AnswersAreNews, BP!Busy
    <3>2. CASE BP_viewer = "student"
      <4>1. o \in {"cancel", "check-in"} /\ op \in {"cancel", "check-in"}
        BY <1>2, <3>2, BusyIsOwn DEF BP!OpsOf
      <4>2. /\ BP_request[o].view \in BP!View
            /\ BP_request[o].view.status = BP!After[o]
            /\ BP_request[o].view.code = (o = "check-in")
            /\ BP!Rank(BP_request[o].view) <= BP!Rank(BP_booking)
        BY <1>2 DEF BP!PageInv, BP!AnswersAreNews
      <4>3. BP!Rank(BP_request[o].view) >= 2
        BY <4>1, <4>2, AfterValues, RankValues DEF BP!View
      <4>4. QED
        BY <2>3, <2>4, <4>1, <4>2, <4>3, RankValues DEF BP!View
    <3>3. QED
      BY <3>1, <3>2 DEF BP!PageInv, BP!TypeOK, BP!Viewer
  <2>7. BP!TypeOK'
    <3>1. BP_request' \in [BP!Op -> [state : {"none", "sent", "done", "conflict", "failed"},
                                     view : BP!View]]
      BY <1>2, <1>4, <2>2 DEF view
    <3>2. \A o \in BP!Op \ BP!OpsOf[BP_viewer] : BP_request'[o] = BP!NoRequest
      BY <1>2, <2>5 DEF BP!PageInv, BP!TypeOK
    <3>3. QED
      BY <1>1, <2>1, <3>1, <3>2 DEF BP!PageInv, BP!TypeOK
  <2>8. (BP!ReadsArePast /\ BP!ShownSince)'
    BY <1>1, <2>3, <2>4 DEF BP!PageInv, BP!ReadsArePast, BP!ShownSince
  <2>9. BP!AnswersAreNews'
    <3>1. \A p, q \in BP!Op : BP_request'[p].state = "done" /\ BP_request'[q].state = "done" => p = q
      BY <2>5, <2>6
    <3>2. BP_viewer' = "staff" => \A p, q \in BP!Op : BP!Busy(p)' /\ BP!Busy(q)' => p = q
      BY <1>1, <2>5 DEF BP!PageInv, BP!AnswersAreNews, BP!Busy
    <3>3. ASSUME NEW o \in BP!Op, BP_request'[o].state = "done"
          PROVE  /\ BP_request'[o].view.status = BP!After[o]
                 /\ BP_request'[o].view.code = (o = "check-in")
                 /\ BP!Rank(BP_shown) < BP!Rank(BP_request'[o].view)
                 /\ BP!Rank(BP_request'[o].view) <= BP!Rank(BP_booking')
      <4>1. o = op
        BY <2>5, <2>6, <3>3
      <4>2. BP_request'[o].view = view
        BY <2>5, <4>1
      <4>3. BP!Rank(BP_shown) < BP!Rank(view) /\ BP!Rank(view) <= BP!Rank(BP_booking')
        BY <2>2, <2>3, <2>4
      <4>4. QED
        BY <2>1, <2>2, <4>1, <4>2, <4>3
    <3>4. QED
      BY <1>1, <3>1, <3>2, <3>3 DEF BP!AnswersAreNews
  <2>10. QED
    BY <2>7, <2>8, <2>9 DEF BP!PageInv
<1>5. QED
  BY <1>3, <1>4 DEF BP!Serve

LEMMA AnswerKeepsPage ==
  ASSUME BP!PageInv, NEW op \in BP!Op, BP!Answer(op)
  PROVE  BP!PageInv' /\ BP!Rank(BP_shown) < BP!Rank(BP_shown')
<1>1. /\ BP_request[op].state = "done"
      /\ BP_shown' = BP_request[op].view
      /\ BP_request' = [BP_request EXCEPT ![op] = BP!NoRequest]
      /\ UNCHANGED <<BP_viewer, BP_booking, BP_now, BP_props, BP_error, BP_load>>
      /\ BP_asking' \in BOOLEAN
  BY DEF BP!Answer
<1>2. BP_request \in [BP!Op -> [state : {"none", "sent", "done", "conflict", "failed"},
                                view : BP!View]]
  BY DEF BP!PageInv, BP!TypeOK
<1>3. /\ BP_shown' \in BP!View
      /\ BP_shown'.code = (op = "check-in")
      /\ BP!Rank(BP_shown) < BP!Rank(BP_shown') /\ BP!Rank(BP_shown') <= BP!Rank(BP_booking)
  BY <1>1, <1>2 DEF BP!PageInv, BP!AnswersAreNews
<1>4. /\ BP_request'[op] = BP!NoRequest /\ BP!NoRequest.state = "none"
      /\ \A o \in BP!Op : o # op => BP_request'[o] = BP_request[o] /\ BP_request[o].state # "done"
  <2>1. \A o \in BP!Op : o # op => BP_request[o].state # "done"
    BY <1>1 DEF BP!PageInv, BP!AnswersAreNews
  <2>2. QED
    BY <1>1, <1>2, <2>1, NoRequestIsTyped
<1>5. BP!TypeOK'
  <2>1. BP_request' \in [BP!Op -> [state : {"none", "sent", "done", "conflict", "failed"},
                                   view : BP!View]]
    BY <1>1, <1>2, NoRequestIsTyped
  <2>2. \A o \in BP!Op \ BP!OpsOf[BP_viewer] : BP_request'[o] = BP!NoRequest
    BY <1>4 DEF BP!PageInv, BP!TypeOK
  <2>3. QED
    BY <1>1, <1>3, <2>1, <2>2 DEF BP!PageInv, BP!TypeOK
<1>6. BP!ReadsArePast'
  BY <1>1, <1>3 DEF BP!PageInv, BP!ReadsArePast
<1>7. BP!AnswersAreNews'
  BY <1>1, <1>4 DEF BP!PageInv, BP!AnswersAreNews, BP!Busy
<1>8. BP!ShownSince'
  <2>1. BP!Rank(BP_props) \in Int /\ BP!Rank(BP_shown) \in Int /\ BP!Rank(BP_shown') \in Int
    BY <1>3, RankValues DEF BP!PageInv, BP!TypeOK, BP!View
  <2>2. BP!Rank(BP_props) <= BP!Rank(BP_shown)
    BY <2>1 DEF BP!PageInv, BP!ShownSince
  <2>3. BP!Rank(BP_props) < BP!Rank(BP_shown')
    BY <1>3, <2>1, <2>2
  <2>4. BP_viewer = "staff" => op # "check-in"
    BY <1>1, BusyIsOwn DEF BP!OpsOf
  <2>5. QED
    BY <1>1, <1>3, <2>3, <2>4 DEF BP!ShownSince
<1>9. QED
  BY <1>3, <1>5, <1>6, <1>7, <1>8 DEF BP!PageInv

LEMMA ReadPageKeepsPage ==
  ASSUME BP!PageInv, BP!ReadPage
  PROVE  BP!PageInv'
<1> DEFINE view == BP!Read(BP_booking, BP_now)
<1>1. /\ UNCHANGED <<BP_viewer, BP_booking, BP_now, BP_shown, BP_props, BP_asking, BP_request,
                     BP_error>>
      /\ BP_load' = [state |-> "read", view |-> view]
  BY DEF BP!ReadPage
<1>2. view \in BP!View /\ BP!Rank(view) = BP!Rank(BP_booking) /\ BP!Rank(BP_booking) \in Int
  BY ReadIsTyped, RankValues DEF BP!PageInv, BP!TypeOK, BP!Row
<1> HIDE DEF view
<1>3. BP!TypeOK'
  BY <1>1, <1>2 DEF BP!PageInv, BP!TypeOK
<1>4. (BP!ReadsArePast /\ BP!AnswersAreNews /\ BP!ShownSince)'
  BY <1>1, <1>2 DEF BP!PageInv, BP!ReadsArePast, BP!AnswersAreNews, BP!ShownSince, BP!Busy
<1>5. QED
  BY <1>3, <1>4 DEF BP!PageInv

LEMMA RenderKeepsPage ==
  ASSUME BP!PageInv, BP!Render
  PROVE  BP!PageInv'
<1>1. /\ BP_load.state = "read" /\ BP_load' = BP!NoRequest
      /\ UNCHANGED <<BP_viewer, BP_booking, BP_now>>
      /\ \/ UNCHANGED <<BP_shown, BP_props, BP_asking, BP_request, BP_error>>
         \/ /\ BP_shown' = BP_load.view /\ BP_props' = BP_load.view
            /\ BP_asking' = FALSE /\ BP_error' = "none"
            /\ BP_request' = [op \in BP!Op |-> BP!NoRequest]
  BY DEF BP!Render, BP!NoLoad
<1>2. /\ BP_load' \in [state : {"none", "sent", "read"}, view : BP!View]
      /\ BP_load'.state = "none"
  BY <1>1, NoRequestIsTyped
<1>3. CASE UNCHANGED <<BP_shown, BP_props, BP_asking, BP_request, BP_error>>
  <2>1. BP!TypeOK'
    BY <1>1, <1>2, <1>3 DEF BP!PageInv, BP!TypeOK
  <2>2. (BP!ReadsArePast /\ BP!AnswersAreNews /\ BP!ShownSince)'
    BY <1>1, <1>2, <1>3
       DEF BP!PageInv, BP!ReadsArePast, BP!AnswersAreNews, BP!ShownSince, BP!Busy
  <2>3. QED
    BY <2>1, <2>2 DEF BP!PageInv
<1>4. CASE /\ BP_shown' = BP_load.view /\ BP_props' = BP_load.view
           /\ BP_asking' = FALSE /\ BP_error' = "none"
           /\ BP_request' = [op \in BP!Op |-> BP!NoRequest]
  <2>1. BP_load.view \in BP!View /\ BP!Rank(BP_load.view) <= BP!Rank(BP_booking)
    BY <1>1 DEF BP!PageInv, BP!TypeOK, BP!ReadsArePast
  <2>2. \A o \in BP!Op : BP_request'[o] = BP!NoRequest /\ BP_request'[o].state = "none"
    BY <1>4, NoRequestIsTyped
  <2>3. BP!TypeOK'
    <3>1. BP_request' \in [BP!Op -> [state : {"none", "sent", "done", "conflict", "failed"},
                                     view : BP!View]]
      BY <1>4, NoRequestIsTyped
    <3>2. QED
      BY <1>1, <1>2, <1>4, <2>1, <2>2, <3>1 DEF BP!PageInv, BP!TypeOK
  <2>4. (BP!ReadsArePast /\ BP!ShownSince)'
    BY <1>1, <1>2, <1>4, <2>1 DEF BP!ReadsArePast, BP!ShownSince
  <2>5. BP!AnswersAreNews'
    BY <2>2 DEF BP!AnswersAreNews, BP!Busy
  <2>6. QED
    BY <2>3, <2>4, <2>5 DEF BP!PageInv
<1>5. QED
  BY <1>1, <1>3, <1>4

LEMMA PageStep == BP!PageInv /\ BP!Next => BP!PageInv'
<1> SUFFICES ASSUME BP!PageInv, BP!Next PROVE BP!PageInv'
  OBVIOUS
<1>1. CASE BP!Tick \/ BP!Ask \/ BP!Keep \/ BP!Refresh
  BY <1>1, AskingKeepsPage
<1>2. CASE BP!ReadPage \/ BP!Render
  BY <1>2, ReadPageKeepsPage, RenderKeepsPage
<1>3. ASSUME NEW op \in BP!Op,
             \/ BP!Others(op) \/ BP!Send(op) \/ BP!Invalid(op)
             \/ BP!Serve(op) \/ BP!Lose(op) \/ BP!Answer(op) \/ BP!Fail(op)
      PROVE  BP!PageInv'
  BY <1>3, OthersKeepPage, SendKeepsPage, AskingKeepsPage, ServeKeepsPage, LoseKeepsPage,
     AnswerKeepsPage, FailKeepsPage
<1>4. QED
  BY <1>1, <1>2, <1>3 DEF BP!Next

LEMMA StepOfBooking == [Next]_vars => BP!Next \/ UNCHANGED BPvars
BY DEF Next, Still, vars

LEMMA PageFits == Spec => []BP!PageInv
<1>1. Init => BP!PageInv
  BY PageStarts DEF Init
<1>2. BP!PageInv /\ [Next]_vars => BP!PageInv'
  BY StepOfBooking, PageStep, PageStutters
<1>3. QED
  BY <1>1, <1>2, PTL DEF Spec

\* No answer takes the page of a booking back to an earlier state of it,
\* although the student can have two requests under way at once.
THEOREM AnswersAreInOrder == Spec => AnswersMoveForward
<1>1. BP!PageInv /\ [Next]_vars
        => [\A op \in BP!Op : BP!Answer(op) => BP!IsLater(BP_shown, BP_shown')]_(BP!vars)
  BY AnswerKeepsPage DEF BP!IsLater
<1>2. QED
  BY <1>1, PageFits, PTL DEF Spec, AnswersMoveForward, BP!AnswersMoveForward

\* The key of a page tells apart whatever its viewer may be offered.
LEMMA SameKeyAdmits ==
  ASSUME BP!PageInv, BP_load.state = "read", BP!Key(BP_load.view) = BP!Key(BP_props),
         BP!Rank(BP_shown) <= BP!Rank(BP_load.view),
         NEW op \in BP!OpsOf[BP_viewer] \cap BP!Admits(BP_shown)
  PROVE  op \in BP!Admits(BP_load.view) \/ op \in {"approve", "reject"}
<1> DEFINE v == BP_load.view
<1>1. v \in BP!View /\ BP_props \in BP!View /\ BP_shown \in BP!View /\ BP_viewer \in BP!Viewer
  BY DEF BP!PageInv, BP!TypeOK
<1>2. v.status = BP_props.status
  BY <1>1 DEF BP!Key, BP!Viewer
<1> HIDE DEF v
<1>3. BP_viewer = "student" => /\ v.code = BP_props.code
                               /\ BP!CanCancel(v) = BP!CanCancel(BP_props)
                               /\ BP!CanCheckIn(v) = BP!CanCheckIn(BP_props)
  BY DEF BP!Key, v
<1>4. BP_viewer = "staff" => /\ BP!CanConfirm(v) = BP!CanConfirm(BP_props)
                             /\ BP!CanNoShow(v) = BP!CanNoShow(BP_props)
  BY DEF BP!Key, v
<1>5. BP_shown = BP_props
  <2> SUFFICES ASSUME BP_shown # BP_props PROVE FALSE
    OBVIOUS
  <2>1. /\ BP!Rank(BP_props) < BP!Rank(BP_shown) /\ BP!Rank(BP_shown) <= BP!Rank(v)
        /\ BP_viewer = "staff" => ~BP_shown.code
    BY DEF BP!PageInv, BP!ShownSince, v
  <2>2. BP!Rank(BP_props) \in Int /\ BP!Rank(BP_shown) \in Int /\ BP!Rank(v) \in Int
    BY <1>1, RankValues DEF BP!View
  <2>3. BP!Rank(BP_props) < BP!Rank(v)
    BY <2>1, <2>2
  <2>4. v.status = "confirmed" /\ BP!Rank(v) = 2 /\ BP!Rank(BP_props) = 1
    BY <1>1, <1>2, <2>3, RankValues DEF BP!View, BP!Status
  <2>5. BP!Rank(BP_shown) = 2
    BY <2>1, <2>2, <2>4
  <2>6. BP_shown.code
    BY <1>1, <2>5, RankValues DEF BP!View, BP!Status
  <2>7. v.code /\ ~BP_props.code
    <3>1. BP!Rank(v) = IF v.code THEN 2 ELSE 1
      BY <1>1, <2>4, RankValues DEF BP!View
    <3>2. BP!Rank(BP_props) = IF BP_props.code THEN 2 ELSE 1
      BY <1>1, <1>2, <2>4, RankValues DEF BP!View
    <3>3. QED
      BY <2>4, <3>1, <3>2
  <2>8. QED
    BY <1>1, <1>3, <2>1, <2>6, <2>7 DEF BP!Viewer
<1>6. CASE BP_viewer = "student"
  <2>1. op \in {"cancel", "check-in"}
    BY <1>6 DEF BP!OpsOf
  <2>2. \/ op = "cancel" /\ BP!CanCancel(BP_props)
        \/ op = "check-in" /\ BP!CanCheckIn(BP_props)
    BY <1>5, <2>1, AdmittedMeans
  <2>3. QED
    BY <1>3, <1>6, <2>2 DEF BP!Admits, v
<1>7. CASE BP_viewer = "staff"
  <2>1. op \in {"approve", "reject", "confirm-check-in", "check-out", "no-show"}
    BY <1>7 DEF BP!OpsOf
  <2>2. \/ op \in {"approve", "reject"}
        \/ op = "confirm-check-in" /\ BP!CanConfirm(BP_props)
        \/ op = "check-out" /\ BP_props.status = "checked_in"
        \/ op = "no-show" /\ BP!CanNoShow(BP_props)
    BY <1>5, <2>1, AdmittedMeans
  <2>3. QED
    BY <1>2, <1>4, <1>7, <2>2 DEF BP!Admits, v
<1>8. QED
  BY <1>1, <1>6, <1>7 DEF BP!Viewer

\* A page refreshed after a conflict offers nothing the booking that was read
\* does not admit, unless an answer has taken it further or it is a review.
THEOREM RefreshedPagesWithdraw == Spec => RefreshWithdraws
<1> DEFINE A == BP!Render /\ BP!Rank(BP_shown') <= BP!Rank(BP_load.view) =>
                  \A op \in BP!OpsOf[BP_viewer] \cap BP!Admits(BP_shown') :
                    op \in BP!Admits(BP_load.view) \/ op \in {"approve", "reject"}
<1>1. BP!PageInv /\ [Next]_vars => [A]_(BP!vars)
  <2> SUFFICES ASSUME BP!PageInv, BP!Render, BP!Rank(BP_shown') <= BP!Rank(BP_load.view),
                      NEW op \in BP!OpsOf[BP_viewer] \cap BP!Admits(BP_shown')
               PROVE  op \in BP!Admits(BP_load.view) \/ op \in {"approve", "reject"}
    OBVIOUS
  <2>1. BP_load.state = "read"
    BY DEF BP!Render
  <2>2. CASE BP!Key(BP_load.view) = BP!Key(BP_props)
    <3>1. BP_shown' = BP_shown
      BY <2>2 DEF BP!Render
    <3>2. QED
      BY <2>1, <2>2, <3>1, SameKeyAdmits
  <2>3. CASE BP!Key(BP_load.view) # BP!Key(BP_props)
    <3>1. BP_shown' = BP_load.view
      BY <2>3 DEF BP!Render
    <3>2. QED
      BY <3>1
  <2>4. QED
    BY <2>2, <2>3
<1>2. QED
  BY <1>1, PageFits, PTL DEF Spec, RefreshWithdraws, BP!RefreshWithdraws

----------------------------------------------------------------------------
(* The page of a resource: its types.                                      *)

LEMMA RefreshIsTyped ==
  ASSUME NEW d \in Date
  PROVE  /\ RP!Refresh(d) \in RP!Loading
         /\ [RP!Refresh(d) EXCEPT !.kind = "open"] \in RP!Loading
BY DEF RP!Refresh, RP!Loading

LEMMA LoadingIsTyped ==
  ASSUME RP!TypeOK, NEW p \in Tab, RP_load[p] # RP!NoLoad
  PROVE  /\ RP_load[p] \in RP!Loading
         /\ RP_load[p].date \in Date
         /\ [RP_load[p] EXCEPT !.again = TRUE] \in RP!Loading
         /\ \A s \in {"free", "taken"} : [RP_load[p] EXCEPT !.seen = s] \in RP!Loading
<1>1. RP_load[p] \in RP!Loading
  BY DEF RP!TypeOK, RP!Load
<1>2. QED
  BY <1>1 DEF RP!Loading

LEMMA AfterUpdateIsTyped ==
  ASSUME RP!TypeOK, NEW p \in Tab, RP_view[p].date # RP!NoDate
  PROVE  RP!AfterUpdate(p) \in RP!Load
<1>1. RP_view[p].date \in Date
  BY DEF RP!TypeOK, RP!View
<1>2. QED
  BY <1>1, RefreshIsTyped, LoadingIsTyped DEF RP!AfterUpdate, RP!Load

LEMMA FormIsTyped ==
  ASSUME RP!TypeOK, NEW p \in Tab
  PROVE  /\ RP!NewForm \in RP!Form /\ RP!NewForm.error = "none"
         /\ [RP!NewForm EXCEPT !.sending = TRUE] \in RP!Form
         /\ [RP_form[p] EXCEPT !.result = TRUE, !.sending = FALSE] \in RP!Form
         /\ \A e \in {"conflict", "failed"} : RP!Caught(RP_form[p], e) \in RP!Form
<1>1. RP!NewForm \in RP!Form /\ RP!NewForm.error = "none"
  BY DEF RP!NewForm, RP!Form
<1>2. RP_form[p] \in RP!Form
  BY DEF RP!TypeOK
<1>3. \A f \in RP!Form : /\ [f EXCEPT !.sending = TRUE] \in RP!Form
                         /\ [f EXCEPT !.result = TRUE, !.sending = FALSE] \in RP!Form
  BY DEF RP!Form
<1>4. \A f \in RP!Form : \A e \in {"conflict", "failed"} : RP!Caught(f, e) \in RP!Form
  BY DEF RP!Form, RP!Caught
<1>5. QED
  BY <1>1, <1>2, <1>3, <1>4

\* What reports a change adds the date of a room to some inboxes.
LEMMA NotifyIsTyped ==
  ASSUME RP!TypeOK, \/ RP!NotifyAll
                    \/ \E d \in Date : RP!Notify(d)
  PROVE  RP_inbox' \in [Tab -> SUBSET (Date \cup {RP!AnyDate})]
<1>1. RP_inbox \in [Tab -> SUBSET (Date \cup {RP!AnyDate})]
  BY DEF RP!TypeOK
<1>2. CASE RP!NotifyAll
  BY <1>1, <1>2 DEF RP!NotifyAll
<1>3. ASSUME NEW d \in Date, RP!Notify(d)
      PROVE  RP_inbox' \in [Tab -> SUBSET (Date \cup {RP!AnyDate})]
  BY <1>1, <1>3 DEF RP!Notify
<1>4. QED
  BY <1>2, <1>3

LEMMA CreateIsTyped ==
  ASSUME RP!TypeOK, NEW p \in Tab, NEW d \in Date, RP!Create(p, d)
  PROVE  /\ RP_inbox' \in [Tab -> SUBSET (Date \cup {RP!AnyDate})]
         /\ RP_owner' \in [Date -> Tab \cup {RP!Free, RP!Other}]
<1>1. CASE RP!IsAvailable(d)
  BY <1>1, NotifyIsTyped DEF RP!Create, RP!TypeOK
<1>2. CASE ~RP!IsAvailable(d)
  BY <1>2 DEF RP!Create, RP!TypeOK
<1>3. QED
  BY <1>1, <1>2

LEMMA DiscardIsTyped ==
  ASSUME RP!TypeOK, RP!FormsFit, NEW p \in Tab, RP!Discard(p)
  PROVE  /\ RP_form' \in [Tab -> RP!Form]
         /\ RP_request' \in [Tab -> {"none", "sent", "created", "conflict"}]
         /\ RP_late' \in [Tab -> SUBSET Date]
         /\ RP_form'[p].error = "none" /\ RP_request'[p] = "none"
         /\ \A q \in Tab : q # p => RP_form'[q] = RP_form[q] /\ RP_request'[q] = RP_request[q]
<1>1. RP_request[p] = "sent" => RP_view[p].date \in Date
  BY DEF RP!TypeOK, RP!FormsFit, RP!View
<1>2. RP_late' \in [Tab -> SUBSET Date]
  BY <1>1 DEF RP!Discard, RP!TypeOK
<1>3. QED
  BY <1>2, FormIsTyped DEF RP!Discard, RP!TypeOK

LEMMA MessagesAreTyped ==
  ASSUME NEW old \in Date \cup {RP!NoDate}, NEW new \in Date
  PROVE  /\ RP!Messages(old, new) \in Seq(RP!Message)
         /\ old = RP!NoDate => /\ Len(RP!Messages(old, new)) = 1
                               /\ RP!Messages(old, new)[1] = RP!Join(new)
         /\ old # RP!NoDate => /\ Len(RP!Messages(old, new)) = 2
                               /\ RP!Messages(old, new)[1] = RP!Leave(old)
                               /\ RP!Messages(old, new)[2] = RP!Join(new)
<1>1. RP!Join(new) \in RP!Message /\ (old # RP!NoDate => RP!Leave(old) \in RP!Message)
  BY DEF RP!Join, RP!Leave, RP!Message
<1>2. CASE old = RP!NoDate
  <2>1. RP!Messages(old, new) = <<>> \o <<RP!Join(new)>>
    BY <1>2 DEF RP!Messages, RP!Join
  <2>2. QED
    BY <1>1, <1>2, <2>1
<1>3. CASE old # RP!NoDate
  <2>1. RP!Messages(old, new) = <<RP!Leave(old)>> \o <<RP!Join(new)>>
    BY <1>3 DEF RP!Messages, RP!Join, RP!Leave
  <2>2. QED
    BY <1>1, <1>3, <2>1
<1>4. QED
  BY <1>2, <1>3

LEMMA NothingSent == <<>> \in Seq(RP!Message) /\ Len(<<>>) = 0 /\ Len(<<>>) <= MaxOutbox
<1>1. Len(<<>>) = 0 /\ <<>> \in Seq(RP!Message)
  OBVIOUS
<1>2. 0 <= MaxOutbox
  BY TabAssumption
<1>3. QED
  BY <1>1, <1>2

LEMMA TabStarts == RP!Init => RP!RoomsInv
<1> SUFFICES ASSUME RP!Init PROVE RP!RoomsInv
  OBVIOUS
<1>1. RP!TypeOK
  <2>1. [date |-> RP!NoDate, available |-> FALSE] \in RP!View
    BY DEF RP!View
  <2>2. RP!NewForm \in RP!Form
    BY DEF RP!NewForm, RP!Form
  <2>3. QED
    BY <2>1, <2>2, NothingSent DEF RP!Init, RP!TypeOK, RP!Load
<1>2. RP!FormsFit
  BY DEF RP!Init, RP!FormsFit, RP!NewForm
<1>3. QED
  BY <1>1, <1>2 DEF RP!Init, RP!RoomsInv, RP!RoomsFollowPage

\* A step that leaves the sockets alone and no page without a date it had.
LEMMA SocketsStay ==
  ASSUME RP!RoomsInv, UNCHANGED <<RP_view, RP_socket, RP_outbox, RP_rooms>>, RP!TypeOK',
         \A p \in Tab : \/ RP_view[p].date # RP!NoDate
                        \/ RP_form'[p].error = RP_form[p].error /\ RP_request'[p] = RP_request[p]
  PROVE  RP!RoomsInv'
<1>1. RP!FormsFit'
  BY DEF RP!RoomsInv, RP!FormsFit
<1>2. RP!RoomsFollowPage'
  BY DEF RP!RoomsInv, RP!RoomsFollowPage
<1>3. (\A p \in Tab : IF RP_socket[p] = "connected" THEN RP!MessagesFit(p)
                      ELSE RP_outbox[p] = <<>> /\ RP_rooms[p] = {})'
  BY DEF RP!RoomsInv, RP!MessagesFit
<1>4. QED
  BY <1>1, <1>2, <1>3 DEF RP!RoomsInv

LEMMA TabStutters == RP!RoomsInv /\ UNCHANGED RPvars => RP!RoomsInv'
<1> SUFFICES ASSUME RP!RoomsInv, UNCHANGED RPvars PROVE RP!RoomsInv'
  OBVIOUS
<1>1. RP!TypeOK'
  BY DEF RPvars, RP!RoomsInv, RP!TypeOK
<1>2. QED
  BY <1>1, SocketsStay DEF RPvars

\* Changes at the server.
LEMMA ServerKeepsTabs ==
  ASSUME RP!RoomsInv,
         \/ RP!ChangeSchedule
         \/ \E d \in Date : RP!OthersChange(d)
         \/ \E p \in Tab : RP!ServeCreate(p) \/ \E d \in Date : RP!ServeLate(p, d)
  PROVE  RP!RoomsInv'
<1>0. RP!TypeOK /\ RP!FormsFit
  BY DEF RP!RoomsInv
<1>1. CASE RP!ChangeSchedule
  <2>1. RP_inbox' \in [Tab -> SUBSET (Date \cup {RP!AnyDate})]
    BY <1>0, <1>1, NotifyIsTyped DEF RP!ChangeSchedule
  <2>2. RP!TypeOK'
    BY <1>0, <1>1, <2>1 DEF RP!ChangeSchedule, RP!TypeOK, RP!forms
  <2>3. QED
    BY <1>1, <2>2, SocketsStay DEF RP!ChangeSchedule, RP!forms
<1>2. ASSUME NEW d \in Date, RP!OthersChange(d)
      PROVE  RP!RoomsInv'
  <2>1. RP_inbox' \in [Tab -> SUBSET (Date \cup {RP!AnyDate})]
    BY <1>0, <1>2, NotifyIsTyped DEF RP!OthersChange
  <2>2. RP_owner' \in [Date -> Tab \cup {RP!Free, RP!Other}]
    BY <1>0, <1>2 DEF RP!OthersChange, RP!TypeOK
  <2>3. RP!TypeOK'
    BY <1>0, <1>2, <2>1, <2>2 DEF RP!OthersChange, RP!TypeOK, RP!forms
  <2>4. QED
    BY <1>2, <2>3, SocketsStay DEF RP!OthersChange, RP!forms
<1>3. ASSUME NEW p \in Tab, RP!ServeCreate(p)
      PROVE  RP!RoomsInv'
  <2>1. RP_view[p].date \in Date
    BY <1>0, <1>3 DEF RP!ServeCreate, RP!TypeOK, RP!FormsFit, RP!View
  <2>2. /\ RP_inbox' \in [Tab -> SUBSET (Date \cup {RP!AnyDate})]
        /\ RP_owner' \in [Date -> Tab \cup {RP!Free, RP!Other}]
    BY <1>0, <1>3, <2>1, CreateIsTyped DEF RP!ServeCreate
  <2>3. RP_request' \in [Tab -> {"none", "sent", "created", "conflict"}]
    BY <1>0, <1>3 DEF RP!ServeCreate, RP!TypeOK
  <2>4. RP!TypeOK'
    BY <1>0, <1>3, <2>2, <2>3 DEF RP!ServeCreate, RP!TypeOK
  <2>5. \A q \in Tab : \/ RP_view[q].date # RP!NoDate
                       \/ RP_form'[q].error = RP_form[q].error /\ RP_request'[q] = RP_request[q]
    BY <1>0, <1>3, <2>1, DateAssumption DEF RP!ServeCreate, RP!TypeOK, RP!NoDate
  <2>6. QED
    BY <1>3, <2>4, <2>5, SocketsStay DEF RP!ServeCreate
<1>4. ASSUME NEW p \in Tab, NEW d \in Date, RP!ServeLate(p, d)
      PROVE  RP!RoomsInv'
  <2>1. /\ RP_inbox' \in [Tab -> SUBSET (Date \cup {RP!AnyDate})]
        /\ RP_owner' \in [Date -> Tab \cup {RP!Free, RP!Other}]
    BY <1>0, <1>4, CreateIsTyped DEF RP!ServeLate, RP!TypeOK
  <2>2. RP_late' \in [Tab -> SUBSET Date]
    BY <1>0, <1>4 DEF RP!ServeLate, RP!TypeOK
  <2>3. RP!TypeOK'
    BY <1>0, <1>4, <2>1, <2>2 DEF RP!ServeLate, RP!TypeOK
  <2>4. QED
    BY <1>4, <2>3, SocketsStay DEF RP!ServeLate
<1>5. QED
  BY <1>1, <1>2, <1>3, <1>4

\* Links, reads and updates: another load.
LEMMA LoadsKeepTabs ==
  ASSUME RP!RoomsInv, NEW p \in Tab,
         \/ RP!Read(p) \/ RP!RefreshAvailability(p)
         \/ \E d \in Date : RP!Open(p, d)
  PROVE  RP!RoomsInv'
<1>0. RP!TypeOK /\ RP!FormsFit
  BY DEF RP!RoomsInv
<1>1. UNCHANGED <<RP_isOpen, RP_owner, RP_view, RP_form, RP_request, RP_late, RP_socket,
                  RP_outbox, RP_rooms, RP_inbox>>
  BY DEF RP!Read, RP!RefreshAvailability, RP!Open, RP!server, RP!forms, RP!wire
<1>2. RP_load' \in [Tab -> RP!Load]
  <2>0. RP_load \in [Tab -> RP!Load]
    BY <1>0 DEF RP!TypeOK
  <2>1. CASE RP!Read(p)
    BY <1>0, <2>0, <2>1, LoadingIsTyped DEF RP!Read, RP!Load
  <2>2. CASE RP!RefreshAvailability(p)
    <3>1. RP_view[p].date # RP!NoDate
      BY <1>0, <2>2 DEF RP!RefreshAvailability, RP!FormsFit
    <3>2. QED
      BY <1>0, <2>0, <2>2, <3>1, AfterUpdateIsTyped DEF RP!RefreshAvailability
  <2>3. ASSUME NEW d \in Date, RP!Open(p, d) PROVE RP_load' \in [Tab -> RP!Load]
    BY <2>0, <2>3, RefreshIsTyped DEF RP!Open, RP!Load
  <2>4. QED
    BY <2>1, <2>2, <2>3
<1>3. RP!TypeOK'
  BY <1>0, <1>1, <1>2 DEF RP!TypeOK
<1>4. QED
  BY <1>1, <1>3, SocketsStay

\* The request form.
LEMMA FormsKeepTabs ==
  ASSUME RP!RoomsInv, NEW p \in Tab, RP!Submit(p) \/ RP!Answer(p) \/ RP!Lose(p)
  PROVE  RP!RoomsInv'
<1>0. RP!TypeOK /\ RP!FormsFit
  BY DEF RP!RoomsInv
<1>1. UNCHANGED <<RP_isOpen, RP_owner, RP_view, RP_load, RP_socket, RP_outbox, RP_rooms,
                  RP_inbox>>
  BY DEF RP!Submit, RP!Answer, RP!Lose, RP!server, RP!wire
<1>2. RP_view[p].date \in Date /\ RP_view[p].date # RP!NoDate
  <2>1. RP_view[p].date # RP!NoDate
    BY <1>0 DEF RP!Submit, RP!CanSend, RP!Answer, RP!Lose, RP!FormsFit
  <2>2. QED
    BY <1>0, <2>1 DEF RP!TypeOK, RP!View
<1>3. \A q \in Tab : q # p => RP_form'[q] = RP_form[q] /\ RP_request'[q] = RP_request[q]
  BY <1>0 DEF RP!Submit, RP!Answer, RP!Lose, RP!TypeOK
<1>4. RP_form' \in [Tab -> RP!Form]
  <2>1. RP_form \in [Tab -> RP!Form]
    BY <1>0 DEF RP!TypeOK
  <2>2. CASE RP!Submit(p)
    BY <1>0, <2>1, <2>2, FormIsTyped DEF RP!Submit
  <2>3. CASE RP!Answer(p)
    <3>1. RP_form' = [RP_form EXCEPT ![p] = [RP_form[p] EXCEPT !.result = TRUE, !.sending = FALSE]]
          \/ RP_form' = [RP_form EXCEPT ![p] = RP!Caught(RP_form[p], "conflict")]
      BY <2>1, <2>3 DEF RP!Answer
    <3>2. QED
      BY <1>0, <2>1, <3>1, FormIsTyped
  <2>4. CASE RP!Lose(p)
    BY <1>0, <2>1, <2>4, FormIsTyped DEF RP!Lose
  <2>5. QED
    BY <2>2, <2>3, <2>4
<1>5. RP_request' \in [Tab -> {"none", "sent", "created", "conflict"}]
  BY <1>0 DEF RP!Submit, RP!Answer, RP!Lose, RP!TypeOK
<1>6. RP_late' \in [Tab -> SUBSET Date]
  BY <1>0, <1>2 DEF RP!Submit, RP!Answer, RP!Lose, RP!TypeOK
<1>7. RP!TypeOK'
  BY <1>0, <1>1, <1>4, <1>5, <1>6 DEF RP!TypeOK
<1>8. QED
  BY <1>1, <1>2, <1>3, <1>7, SocketsStay

LEMMA HandleEventKeepsTabs ==
  ASSUME RP!RoomsInv, NEW p \in Tab, NEW d \in Date \cup {RP!AnyDate}, RP!HandleEvent(p, d)
  PROVE  RP!RoomsInv'
<1>0. RP!TypeOK /\ RP!FormsFit
  BY DEF RP!RoomsInv
<1>1. UNCHANGED <<RP_isOpen, RP_owner, RP_view, RP_form, RP_request, RP_late, RP_socket,
                  RP_outbox, RP_rooms>>
  BY DEF RP!HandleEvent, RP!server, RP!forms
<1>2. RP_load' \in [Tab -> RP!Load]
  BY <1>0, AfterUpdateIsTyped DEF RP!HandleEvent, RP!TypeOK
<1>3. RP_inbox' \in [Tab -> SUBSET (Date \cup {RP!AnyDate})]
  BY <1>0 DEF RP!HandleEvent, RP!TypeOK
<1>4. RP!TypeOK'
  BY <1>0, <1>1, <1>2, <1>3 DEF RP!TypeOK
<1>5. QED
  BY <1>1, <1>4, SocketsStay

----------------------------------------------------------------------------
(* The page of a resource: the rooms of its socket.                        *)

\* A step of one page that keeps the others as they are.
LEMMA OnePageMoves ==
  ASSUME RP!RoomsInv, NEW p \in Tab, RP!TypeOK', RP!FormsFit',
         \A q \in Tab : q # p => /\ RP_view'[q] = RP_view[q] /\ RP_socket'[q] = RP_socket[q]
                                 /\ RP_outbox'[q] = RP_outbox[q] /\ RP_rooms'[q] = RP_rooms[q],
         IF RP_socket'[p] = "connected" THEN RP!MessagesFit(p)'
         ELSE RP_outbox'[p] = <<>> /\ RP_rooms'[p] = {},
         RP_socket'[p] = "connected" /\ RP_outbox'[p] = <<>>
           => RP_rooms'[p] = {RP_view'[p].date} \ {RP!NoDate}
  PROVE  RP!RoomsInv'
<1>1. RP!RoomsFollowPage'
  BY DEF RP!RoomsInv, RP!RoomsFollowPage
<1>2. (\A q \in Tab : IF RP_socket[q] = "connected" THEN RP!MessagesFit(q)
                      ELSE RP_outbox[q] = <<>> /\ RP_rooms[q] = {})'
  <2> SUFFICES ASSUME NEW q \in Tab, q # p
               PROVE  IF RP_socket'[q] = "connected" THEN RP!MessagesFit(q)'
                      ELSE RP_outbox'[q] = <<>> /\ RP_rooms'[q] = {}
    OBVIOUS
  <2>1. IF RP_socket[q] = "connected" THEN RP!MessagesFit(q)
        ELSE RP_outbox[q] = <<>> /\ RP_rooms[q] = {}
    BY DEF RP!RoomsInv
  <2>2. QED
    BY <2>1 DEF RP!MessagesFit
<1>3. QED
  BY <1>1, <1>2 DEF RP!RoomsInv

LEMMA DropKeepsTabs ==
  ASSUME RP!RoomsInv, NEW p \in Tab, RP!Disconnect(p) \/ RP!CloseByServer(p)
  PROVE  RP!RoomsInv'
<1>0. RP!TypeOK /\ RP!FormsFit
  BY DEF RP!RoomsInv
<1>1. /\ UNCHANGED <<RP_isOpen, RP_owner, RP_view, RP_load, RP_form, RP_request, RP_late>>
      /\ RP_socket' = [RP_socket EXCEPT ![p] = "disconnected"]
         \/ RP_socket' = [RP_socket EXCEPT ![p] = "closed"]
      /\ RP_outbox' = [RP_outbox EXCEPT ![p] = <<>>]
      /\ RP_rooms' = [RP_rooms EXCEPT ![p] = {}]
      /\ RP_inbox' = [RP_inbox EXCEPT ![p] = {}]
  BY DEF RP!Disconnect, RP!CloseByServer, RP!Drop, RP!server, RP!forms
<1>2. RP!TypeOK'
  BY <1>0, <1>1, NothingSent DEF RP!TypeOK
<1>3. QED
  <2>1. RP!FormsFit'
    BY <1>0, <1>1 DEF RP!FormsFit
  <2>2. /\ RP_socket'[p] # "connected" /\ RP_outbox'[p] = <<>> /\ RP_rooms'[p] = {}
        /\ \A q \in Tab : q # p => /\ RP_view'[q] = RP_view[q] /\ RP_socket'[q] = RP_socket[q]
                                   /\ RP_outbox'[q] = RP_outbox[q] /\ RP_rooms'[q] = RP_rooms[q]
    BY <1>0, <1>1 DEF RP!TypeOK
  <2>3. QED
    BY <1>2, <2>1, <2>2, OnePageMoves

LEMMA SignInKeepsTabs ==
  ASSUME RP!RoomsInv, NEW p \in Tab, NEW d \in Date, RP!SignIn(p, d)
  PROVE  RP!RoomsInv'
<1>0. RP!TypeOK /\ RP!FormsFit
  BY DEF RP!RoomsInv
<1> DEFINE blank == [date |-> RP!NoDate, available |-> FALSE]
<1>1. /\ RP_socket[p] = "closed"
      /\ RP_socket' = [RP_socket EXCEPT ![p] = "disconnected"]
      /\ RP_view' = [RP_view EXCEPT ![p] = blank]
      /\ RP_load' = [RP_load EXCEPT ![p] = [RP!Refresh(d) EXCEPT !.kind = "open"]]
      /\ UNCHANGED <<RP_isOpen, RP_owner, RP_outbox, RP_rooms, RP_inbox>>
  BY DEF RP!SignIn, RP!server
<1>2. blank \in RP!View /\ blank.date = RP!NoDate
  BY DEF RP!View
<1> HIDE DEF blank
<1>3. /\ RP_form' \in [Tab -> RP!Form]
      /\ RP_request' \in [Tab -> {"none", "sent", "created", "conflict"}]
      /\ RP_late' \in [Tab -> SUBSET Date]
      /\ RP_form'[p].error = "none" /\ RP_request'[p] = "none"
      /\ \A q \in Tab : q # p => RP_form'[q] = RP_form[q] /\ RP_request'[q] = RP_request[q]
  <2>1. CASE RP_view[p].date = RP!NoDate
    BY <1>0, <2>1 DEF RP!SignIn, RP!forms, RP!TypeOK, RP!FormsFit
  <2>2. CASE RP_view[p].date # RP!NoDate
    <3>1. RP!Discard(p)
      BY <2>2 DEF RP!SignIn
    <3>2. QED
      BY <1>0, <3>1, DiscardIsTyped
  <2>3. QED
    BY <2>1, <2>2
<1>4. RP!TypeOK'
  BY <1>0, <1>1, <1>2, <1>3, RefreshIsTyped DEF RP!TypeOK, RP!Load
<1>5. \A q \in Tab : q # p => /\ RP_view'[q] = RP_view[q] /\ RP_socket'[q] = RP_socket[q]
  BY <1>0, <1>1 DEF RP!TypeOK
<1>6. RP!FormsFit'
  BY <1>0, <1>3, <1>5 DEF RP!FormsFit
<1>7. RP_outbox[p] = <<>> /\ RP_rooms[p] = {} /\ RP_socket'[p] = "disconnected"
  BY <1>0, <1>1 DEF RP!RoomsInv, RP!TypeOK
<1>8. QED
  BY <1>1, <1>4, <1>5, <1>6, <1>7, OnePageMoves

LEMMA ConnectKeepsTabs ==
  ASSUME RP!RoomsInv, NEW p \in Tab, RP!Connect(p)
  PROVE  RP!RoomsInv'
<1>0. RP!TypeOK /\ RP!FormsFit
  BY DEF RP!RoomsInv
<1> DEFINE joining == <<[kind |-> "join", date |-> RP_view[p].date]>>
<1>1. /\ RP_socket[p] = "disconnected"
      /\ RP_socket' = [RP_socket EXCEPT ![p] = "connected"]
      /\ UNCHANGED <<RP_isOpen, RP_owner, RP_view, RP_form, RP_request, RP_late, RP_rooms,
                     RP_inbox>>
  BY DEF RP!Connect, RP!server, RP!forms
<1>2. RP_outbox[p] = <<>> /\ RP_rooms[p] = {}
  BY <1>1 DEF RP!RoomsInv
<1>3. RP!FormsFit'
  BY <1>0, <1>1 DEF RP!FormsFit
<1>4. /\ RP_socket'[p] = "connected"
      /\ \A q \in Tab : q # p => RP_socket'[q] = RP_socket[q]
  BY <1>0, <1>1 DEF RP!TypeOK
<1>5. CASE RP_view[p].date = RP!NoDate
  <2>1. UNCHANGED <<RP_load, RP_outbox>>
    BY <1>5 DEF RP!Connect
  <2>2. RP!TypeOK'
    BY <1>0, <1>1, <2>1 DEF RP!TypeOK
  <2>3. RP!MessagesFit(p)'
    BY <1>2, <2>1 DEF RP!MessagesFit
  <2>4. QED
    BY <1>1, <1>2, <1>3, <1>4, <1>5, <2>1, <2>2, <2>3, OnePageMoves
<1>6. CASE RP_view[p].date # RP!NoDate
  <2>1. /\ RP_outbox' = [RP_outbox EXCEPT ![p] = joining]
        /\ RP_load' = [RP_load EXCEPT ![p] = RP!AfterUpdate(p)]
    BY <1>6 DEF RP!Connect
  <2>2. RP_view[p].date \in Date
    BY <1>0, <1>6 DEF RP!TypeOK, RP!View
  <2>3. /\ joining \in Seq(RP!Message) /\ Len(joining) = 1
        /\ joining[1] = RP!Join(RP_view[p].date) /\ joining[1].kind = "join"
    BY <2>2 DEF RP!Message, RP!Join
  <2> HIDE DEF joining
  <2>4. RP!TypeOK'
    <3>1. RP_load' \in [Tab -> RP!Load]
      BY <1>0, <1>6, <2>1, AfterUpdateIsTyped DEF RP!TypeOK
    <3>2. Len(joining) <= MaxOutbox
      BY <2>3, TabAssumption
    <3>3. RP_outbox' \in [Tab -> Seq(RP!Message)] /\ \A q \in Tab : Len(RP_outbox'[q]) <= MaxOutbox
      BY <1>0, <2>1, <2>3, <3>2 DEF RP!TypeOK
    <3>4. RP_socket' \in [Tab -> {"connected", "disconnected", "closed"}]
      BY <1>0, <1>1 DEF RP!TypeOK
    <3>5. QED
      BY <1>0, <1>1, <3>1, <3>3, <3>4 DEF RP!TypeOK
  <2>5. RP_outbox'[p] = joining /\ \A q \in Tab : q # p => RP_outbox'[q] = RP_outbox[q]
    BY <1>0, <2>1 DEF RP!TypeOK
  <2>6. RP!MessagesFit(p)'
    <3>1. 1..(Len(joining) - 1) = {}
      BY <2>3
    <3>2. QED
      BY <1>1, <1>2, <1>6, <2>3, <2>5, <3>1 DEF RP!MessagesFit
  <2>7. RP_outbox'[p] # <<>>
    BY <2>3, <2>5, NothingSent
  <2>8. QED
    BY <1>1, <1>3, <1>4, <2>4, <2>5, <2>6, <2>7, OnePageMoves
<1>7. QED
  BY <1>5, <1>6

LEMMA RoomsAreCounted == \A S : RP!Cardinality(S) = Cardinality(S)
BY DEF RP!Cardinality, Cardinality

LEMMA HandleMessageKeepsTabs ==
  ASSUME RP!RoomsInv, NEW p \in Tab, RP!HandleMessage(p)
  PROVE  RP!RoomsInv'
<1>0. RP!TypeOK /\ RP!FormsFit
  BY DEF RP!RoomsInv
<1> DEFINE sent == RP_outbox[p]
           rest == Tail(sent)
<1>1. /\ sent # <<>> /\ RP_outbox' = [RP_outbox EXCEPT ![p] = rest]
      /\ RP_rooms' = [RP_rooms EXCEPT ![p] =
           IF Head(sent).kind = "leave" THEN RP_rooms[p] \ {Head(sent).date}
           ELSE IF Cardinality(RP_rooms[p]) < MaxRooms THEN RP_rooms[p] \cup {Head(sent).date}
                ELSE RP_rooms[p]]
      /\ UNCHANGED <<RP_isOpen, RP_owner, RP_view, RP_load, RP_form, RP_request, RP_late,
                     RP_socket, RP_inbox>>
  BY RoomsAreCounted DEF RP!HandleMessage, RP!server, RP!forms
<1>2. RP_socket[p] = "connected" /\ RP!MessagesFit(p)
  BY <1>1 DEF RP!RoomsInv
<1>3. /\ sent \in Seq(RP!Message) /\ Len(sent) \in Nat \ {0} /\ Len(sent) <= MaxOutbox
      /\ Head(sent) = sent[1]
  BY <1>0, <1>1 DEF RP!TypeOK
<1>4. /\ rest \in Seq(RP!Message) /\ Len(rest) = Len(sent) - 1
      /\ \A i \in 1..Len(rest) : rest[i] = sent[i + 1]
  BY <1>3
<1>5. \A i \in 1..Len(sent) : sent[i].kind \in {"join", "leave"} /\ sent[i].date \in Date
  <2>1. \A i \in 1..Len(sent) : sent[i] \in RP!Message
    BY <1>3
  <2>2. QED
    BY <2>1 DEF RP!Message
<1>6. /\ RP_view[p].date # RP!NoDate
      /\ sent[Len(sent)] = RP!Join(RP_view[p].date)
      /\ \/ RP_rooms[p] = {} /\ sent[1].kind = "join"
         \/ sent[1].kind = "leave" /\ RP_rooms[p] = {sent[1].date}
      /\ \A i \in 1..(Len(sent) - 1) :
           /\ sent[i].kind = "join" => sent[i + 1] = RP!Leave(sent[i].date)
           /\ sent[i].kind = "leave" => sent[i + 1].kind = "join"
  BY <1>1, <1>2 DEF RP!MessagesFit
<1> HIDE DEF sent, rest
<1>7. RP_rooms'[p] = IF sent[1].kind = "leave" THEN {} ELSE {sent[1].date}
  <2>1. RP_rooms'[p] = IF sent[1].kind = "leave" THEN RP_rooms[p] \ {sent[1].date}
                       ELSE IF Cardinality(RP_rooms[p]) < MaxRooms
                            THEN RP_rooms[p] \cup {sent[1].date} ELSE RP_rooms[p]
    BY <1>0, <1>1, <1>3 DEF RP!TypeOK
  <2>2. CASE sent[1].kind = "leave"
    BY <1>6, <2>1, <2>2
  <2>3. CASE sent[1].kind = "join" /\ RP_rooms[p] = {}
    <3>1. Cardinality({}) < MaxRooms
      BY FS_EmptySet, TabAssumption
    <3>2. QED
      BY <2>1, <2>3, <3>1
  <2>4. QED
    BY <1>6, <2>2, <2>3
<1>8. /\ RP_outbox'[p] = rest
      /\ \A q \in Tab : q # p => RP_outbox'[q] = RP_outbox[q] /\ RP_rooms'[q] = RP_rooms[q]
  BY <1>0, <1>1 DEF RP!TypeOK
<1>9. RP!TypeOK'
  <2>1. RP_rooms' \in [Tab -> SUBSET Date]
    <3>1. RP_rooms'[p] \subseteq Date
      BY <1>3, <1>5, <1>7
    <3>2. QED
      BY <1>0, <1>1, <3>1 DEF RP!TypeOK
  <2>2. RP_outbox' \in [Tab -> Seq(RP!Message)]
    BY <1>0, <1>1, <1>4 DEF RP!TypeOK
  <2>3. Len(rest) <= MaxOutbox
    BY <1>3, <1>4, TabAssumption
  <2>4. \A q \in Tab : Len(RP_outbox'[q]) <= MaxOutbox
    BY <1>0, <1>8, <2>3 DEF RP!TypeOK
  <2>5. QED
    BY <1>0, <1>1, <2>1, <2>2, <2>4 DEF RP!TypeOK
<1>10. RP!FormsFit'
  BY <1>0, <1>1 DEF RP!FormsFit
<1>11. sent[Len(sent)].kind = "join" /\ sent[Len(sent)].date = RP_view[p].date
  BY <1>6 DEF RP!Join
<1>12. RP!MessagesFit(p)'
  <2>1. rest # <<>> => /\ rest[Len(rest)] = RP!Join(RP_view[p].date)
                       /\ \/ RP_rooms'[p] = {} /\ rest[1].kind = "join"
                          \/ rest[1].kind = "leave" /\ RP_rooms'[p] = {rest[1].date}
    <3> SUFFICES ASSUME rest # <<>>
                 PROVE  /\ rest[Len(rest)] = RP!Join(RP_view[p].date)
                        /\ \/ RP_rooms'[p] = {} /\ rest[1].kind = "join"
                           \/ rest[1].kind = "leave" /\ RP_rooms'[p] = {rest[1].date}
      OBVIOUS
    <3>1. Len(rest) \in Nat \ {0}
      BY <1>4
    <3>2. rest[Len(rest)] = sent[Len(sent)] /\ rest[1] = sent[2] /\ 1 \in 1..(Len(sent) - 1)
      BY <1>3, <1>4, <3>1
    <3>3. CASE sent[1].kind = "leave"
      BY <1>6, <1>7, <3>2, <3>3
    <3>4. CASE sent[1].kind = "join"
      <4>1. rest[1] = RP!Leave(sent[1].date)
        BY <1>6, <3>2, <3>4
      <4>2. rest[1].kind = "leave" /\ rest[1].date = sent[1].date
        BY <4>1 DEF RP!Leave
      <4>3. QED
        BY <1>6, <1>7, <3>2, <3>4, <4>2
    <3>5. QED
      BY <1>6, <3>3, <3>4
  <2>2. \A i \in 1..(Len(rest) - 1) :
          /\ rest[i].kind = "join" => rest[i + 1] = RP!Leave(rest[i].date)
          /\ rest[i].kind = "leave" => rest[i + 1].kind = "join"
    <3> SUFFICES ASSUME NEW i \in 1..(Len(rest) - 1)
                 PROVE  /\ rest[i].kind = "join" => rest[i + 1] = RP!Leave(rest[i].date)
                        /\ rest[i].kind = "leave" => rest[i + 1].kind = "join"
      OBVIOUS
    <3>1. i + 1 \in 1..(Len(sent) - 1) /\ i \in 1..Len(rest) /\ i + 1 \in 1..Len(rest)
      BY <1>3, <1>4
    <3>2. rest[i] = sent[i + 1] /\ rest[i + 1] = sent[(i + 1) + 1]
      BY <1>4, <3>1
    <3>3. QED
      BY <1>6, <3>1, <3>2
  <2>3. QED
    BY <1>1, <1>6, <1>8, <2>1, <2>2 DEF RP!MessagesFit
<1>13. rest = <<>> => RP_rooms'[p] = {RP_view[p].date} \ {RP!NoDate}
  <2>1. rest = <<>> => Len(sent) = 1
    BY <1>3, <1>4
  <2>2. QED
    BY <1>6, <1>7, <1>11, <2>1
<1>14. QED
  BY <1>1, <1>2, <1>8, <1>9, <1>10, <1>12, <1>13, OnePageMoves

LEMMA RenderKeepsTabs ==
  ASSUME RP!RoomsInv, NEW p \in Tab, RP!Render(p)
  PROVE  RP!RoomsInv'
<1>0. RP!TypeOK /\ RP!FormsFit
  BY DEF RP!RoomsInv
<1> DEFINE new  == RP_load[p].date
           old  == RP_view[p].date
           page == [date |-> new, available |-> RP_load[p].seen = "free"]
           next == IF RP_load[p].again THEN RP!Refresh(new) ELSE RP!NoLoad
           sent == RP_outbox[p]
           more == RP!Messages(old, new)
           all  == sent \o more
<1>1. /\ RP_load[p] # RP!NoLoad /\ Len(sent) + 2 <= MaxOutbox
      /\ RP_view' = [RP_view EXCEPT ![p] = page]
      /\ RP_load' = [RP_load EXCEPT ![p] = next]
      /\ IF new = old THEN UNCHANGED <<RP_form, RP_request, RP_late>> ELSE RP!Discard(p)
      /\ RP_outbox' = [RP_outbox EXCEPT ![p] = IF new = old \/ RP_socket[p] # "connected"
                                               THEN sent ELSE all]
      /\ UNCHANGED <<RP_isOpen, RP_owner, RP_socket, RP_rooms, RP_inbox>>
  BY DEF RP!Render, RP!server, RP!forms
<1>2. /\ new \in Date /\ new # RP!NoDate /\ old \in Date \cup {RP!NoDate}
      /\ sent \in Seq(RP!Message)
  BY <1>0, <1>1, LoadingIsTyped, DateAssumption DEF RP!NoDate, RP!TypeOK, RP!View
<1>3. page \in RP!View /\ page.date = new
  BY <1>2 DEF RP!View
<1>4. next \in RP!Load
  BY <1>2, RefreshIsTyped DEF RP!Load
<1>5. /\ RP_form' \in [Tab -> RP!Form]
      /\ RP_request' \in [Tab -> {"none", "sent", "created", "conflict"}]
      /\ RP_late' \in [Tab -> SUBSET Date]
      /\ \A q \in Tab : q # p => RP_form'[q] = RP_form[q] /\ RP_request'[q] = RP_request[q]
  <2>1. CASE new = old
    BY <1>0, <1>1, <2>1 DEF RP!TypeOK
  <2>2. CASE new # old
    BY <1>0, <1>1, <2>2, DiscardIsTyped
  <2>3. QED
    BY <2>1, <2>2
<1> HIDE DEF new, old, page, next
<1>6. /\ more \in Seq(RP!Message) /\ Len(more) \in 1..2
      /\ old = RP!NoDate => Len(more) = 1 /\ more[1] = RP!Join(new)
      /\ old # RP!NoDate => Len(more) = 2 /\ more[1] = RP!Leave(old) /\ more[2] = RP!Join(new)
  <2>1. new \in Date /\ old \in Date \cup {RP!NoDate}
    BY <1>2
  <2>2. QED
    BY <2>1, MessagesAreTyped
<1> HIDE DEF sent, more
<1>7. /\ all \in Seq(RP!Message) /\ Len(all) = Len(sent) + Len(more)
      /\ Len(all) <= MaxOutbox
      /\ \A i \in 1..Len(sent) : all[i] = sent[i]
      /\ \A i \in 1..Len(more) : all[Len(sent) + i] = more[i]
  <2>1. Len(sent) \in Nat /\ Len(more) \in Nat
    BY <1>2, <1>6
  <2>2. /\ all \in Seq(RP!Message) /\ Len(all) = Len(sent) + Len(more)
        /\ \A i \in 1..Len(sent) : all[i] = sent[i]
    BY <1>2, <1>6
  <2>3. \A i \in 1..Len(more) : all[Len(sent) + i] = more[i]
    BY <1>2, <1>6, <2>1
  <2>4. Len(all) <= MaxOutbox
    <3>1. Len(sent) + 2 <= MaxOutbox
      BY <1>1
    <3>2. Len(more) \in 1..2 /\ MaxOutbox \in Nat
      BY <1>6, TabAssumption
    <3>3. Len(all) = Len(sent) + Len(more)
      BY <2>2
    <3>4. \A a \in Nat, b \in 1..2, m \in Nat : a + 2 <= m => a + b <= m
      OBVIOUS
    <3> HIDE DEF all
    <3>5. QED
      BY <2>1, <3>1, <3>2, <3>3, <3>4
  <2>5. QED
    BY <2>2, <2>3, <2>4
<1> HIDE DEF all
<1>8. RP!TypeOK'
  <2>1. RP_view' \in [Tab -> RP!View] /\ RP_load' \in [Tab -> RP!Load]
    BY <1>0, <1>1, <1>3, <1>4 DEF RP!TypeOK
  <2>2. RP_outbox' \in [Tab -> Seq(RP!Message)]
    BY <1>0, <1>1, <1>2, <1>7 DEF RP!TypeOK
  <2>3. \A q \in Tab : Len(RP_outbox'[q]) <= MaxOutbox
    <3>1. Len(sent) <= MaxOutbox
      BY <1>0 DEF RP!TypeOK, sent
    <3>2. QED
      BY <1>0, <1>1, <1>7, <3>1 DEF RP!TypeOK
  <2>4. QED
    BY <1>0, <1>1, <1>5, <2>1, <2>2, <2>3 DEF RP!TypeOK
<1>9. /\ RP_view'[p].date = new
      /\ RP_outbox'[p] = IF new = old \/ RP_socket[p] # "connected" THEN sent ELSE all
      /\ \A q \in Tab : q # p => RP_view'[q] = RP_view[q] /\ RP_outbox'[q] = RP_outbox[q]
  BY <1>0, <1>1, <1>3 DEF RP!TypeOK
<1>10. RP!FormsFit'
  <2>1. RP_view'[p].date # RP!NoDate
    BY <1>2, <1>9
  <2>2. QED
    BY <1>0, <1>5, <1>9, <2>1 DEF RP!FormsFit
<1>11. CASE RP_socket[p] # "connected"
  <2>1. RP_outbox'[p] = <<>> /\ RP_rooms'[p] = {}
    BY <1>1, <1>9, <1>11 DEF RP!RoomsInv, sent
  <2>2. QED
    BY <1>1, <1>8, <1>9, <1>10, <1>11, <2>1, OnePageMoves
<1>12. CASE RP_socket[p] = "connected" /\ new = old
  <2>1. RP_view'[p].date = RP_view[p].date /\ RP_outbox'[p] = RP_outbox[p]
    BY <1>9, <1>12 DEF old, sent
  <2>2. RP!MessagesFit(p)'
    BY <1>1, <1>12, <2>1 DEF RP!RoomsInv, RP!MessagesFit
  <2>3. RP_outbox'[p] = <<>> => RP_rooms'[p] = {RP_view'[p].date} \ {RP!NoDate}
    BY <1>1, <1>12, <2>1 DEF RP!RoomsInv, RP!RoomsFollowPage
  <2>4. QED
    BY <1>1, <1>8, <1>9, <1>10, <1>12, <2>2, <2>3, OnePageMoves
<1>13. CASE RP_socket[p] = "connected" /\ new # old
  <2>1. RP_outbox'[p] = all
    BY <1>9, <1>13
  <2>2. /\ sent # <<>> => /\ old # RP!NoDate
                          /\ sent[Len(sent)] = RP!Join(old)
                          /\ \/ RP_rooms[p] = {} /\ sent[1].kind = "join"
                             \/ sent[1].kind = "leave" /\ RP_rooms[p] = {sent[1].date}
        /\ \A i \in 1..(Len(sent) - 1) :
             /\ sent[i].kind = "join" => sent[i + 1] = RP!Leave(sent[i].date)
             /\ sent[i].kind = "leave" => sent[i + 1].kind = "join"
        /\ sent = <<>> => RP_rooms[p] = {old} \ {RP!NoDate}
    BY <1>13 DEF RP!RoomsInv, RP!MessagesFit, RP!RoomsFollowPage, sent, old
  <2>3. Len(sent) \in Nat /\ (sent = <<>> <=> Len(sent) = 0)
    BY <1>2
  <2>4. /\ RP!Join(new).kind = "join"
        /\ RP!Join(old).kind = "join" /\ RP!Join(old).date = old
        /\ RP!Leave(old).kind = "leave" /\ RP!Leave(old).date = old
    BY DEF RP!Join, RP!Leave
  <2>5. all[Len(all)] = RP!Join(new) /\ Len(all) \in Nat \ {0}
    <3>1. Len(all) = Len(sent) + Len(more) /\ Len(more) \in 1..Len(more)
      BY <1>6, <1>7
    <3>2. all[Len(all)] = more[Len(more)]
      BY <1>7, <3>1
    <3>3. more[Len(more)] = RP!Join(new)
      BY <1>6
    <3>4. QED
      BY <1>6, <2>3, <3>1, <3>2, <3>3
  <2>6. \/ RP_rooms[p] = {} /\ all[1].kind = "join"
        \/ all[1].kind = "leave" /\ RP_rooms[p] = {all[1].date}
    <3>1. CASE sent # <<>>
      <4>1. all[1] = sent[1]
        BY <1>7, <2>3, <3>1
      <4>2. QED
        BY <2>2, <3>1, <4>1
    <3>2. CASE sent = <<>>
      <4>1. all[1] = more[1]
        BY <1>6, <1>7, <2>3, <3>2
      <4>2. QED
        BY <1>2, <1>6, <2>2, <2>4, <3>2, <4>1
    <3>3. QED
      BY <3>1, <3>2
  <2>7. ASSUME NEW i \in 1..(Len(all) - 1)
        PROVE  /\ all[i].kind = "join" => all[i + 1] = RP!Leave(all[i].date)
               /\ all[i].kind = "leave" => all[i + 1].kind = "join"
    <3>1. CASE i < Len(sent)
      <4>1. i \in 1..(Len(sent) - 1) /\ i \in 1..Len(sent) /\ i + 1 \in 1..Len(sent)
        BY <2>3, <3>1
      <4>2. all[i] = sent[i] /\ all[i + 1] = sent[i + 1]
        BY <1>7, <4>1
      <4>3. QED
        BY <2>2, <4>1, <4>2
    <3>2. CASE i = Len(sent)
      <4>1. sent # <<>> /\ all[i] = sent[i] /\ all[i + 1] = more[1]
        BY <1>6, <1>7, <2>3, <3>2
      <4>2. all[i] = RP!Join(old) /\ all[i + 1] = RP!Leave(old)
        BY <1>6, <2>2, <3>2, <4>1
      <4>3. QED
        BY <2>4, <4>2
    <3>3. CASE i > Len(sent)
      <4>1. Len(more) = 2 /\ i = Len(sent) + 1
        BY <1>6, <1>7, <2>3, <3>3
      <4>2. all[i] = more[1] /\ all[i + 1] = more[2]
        <5>1. i + 1 = Len(sent) + 2
          BY <2>3, <4>1
        <5>2. QED
          BY <1>7, <4>1, <5>1
      <4>3. old # RP!NoDate
        BY <1>6, <4>1
      <4>4. QED
        BY <1>6, <2>4, <4>2, <4>3
    <3>4. QED
      BY <2>3, <3>1, <3>2, <3>3
  <2>8. RP!MessagesFit(p)'
    BY <1>1, <1>2, <1>9, <2>1, <2>5, <2>6, <2>7 DEF RP!MessagesFit
  <2>9. RP_outbox'[p] # <<>>
    BY <2>1, <2>5, NothingSent
  <2>10. QED
    BY <1>1, <1>8, <1>9, <1>10, <1>13, <2>8, <2>9, OnePageMoves
<1>14. QED
  BY <1>11, <1>12, <1>13

LEMMA TabStep == RP!RoomsInv /\ RP!Next => RP!RoomsInv'
<1> SUFFICES ASSUME RP!RoomsInv, RP!Next PROVE RP!RoomsInv'
  OBVIOUS
<1>1. CASE RP!ChangeSchedule \/ \E d \in Date : RP!OthersChange(d)
  BY <1>1, ServerKeepsTabs
<1>2. ASSUME NEW p \in Tab,
             \/ RP!Read(p) \/ RP!Render(p)
             \/ RP!Submit(p) \/ RP!ServeCreate(p) \/ RP!Answer(p) \/ RP!Lose(p)
             \/ RP!RefreshAvailability(p)
             \/ RP!Connect(p) \/ RP!Disconnect(p) \/ RP!CloseByServer(p) \/ RP!HandleMessage(p)
      PROVE  RP!RoomsInv'
  BY <1>2, LoadsKeepTabs, RenderKeepsTabs, FormsKeepTabs, ServerKeepsTabs, ConnectKeepsTabs,
     DropKeepsTabs, HandleMessageKeepsTabs
<1>3. ASSUME NEW p \in Tab, NEW d \in Date, RP!Open(p, d) \/ RP!SignIn(p, d) \/ RP!ServeLate(p, d)
      PROVE  RP!RoomsInv'
  BY <1>3, LoadsKeepTabs, SignInKeepsTabs, ServerKeepsTabs
<1>4. ASSUME NEW p \in Tab, NEW d \in Date \cup {RP!AnyDate}, RP!HandleEvent(p, d)
      PROVE  RP!RoomsInv'
  BY <1>4, HandleEventKeepsTabs
<1>5. QED
  BY <1>1, <1>2, <1>3, <1>4 DEF RP!Next

LEMMA StepOfResource == [Next]_vars => RP!Next \/ UNCHANGED RPvars
BY DEF Next, Still, vars

LEMMA RoomsFit == Spec => []RP!RoomsInv
<1>1. Init => RP!RoomsInv
  BY TabStarts DEF Init
<1>2. RP!RoomsInv /\ [Next]_vars => RP!RoomsInv'
  BY StepOfResource, TabStep, TabStutters
<1>3. QED
  BY <1>1, <1>2, PTL DEF Spec

\* A connected page whose messages the gateway has handled is in the room of
\* the date it shows and in no other, whatever links, reconnections, closed
\* sessions and sign-ins came before, and in whatever order.
THEOREM RoomsAreFollowed == Spec => []RoomsFollowPage
<1>1. RP!RoomsInv => RoomsFollowPage
  BY DEF RoomsFollowPage, RP!RoomsInv
<1>2. QED
  BY <1>1, RoomsFit, PTL

----------------------------------------------------------------------------
(* Sign-in and the guards of the pages.                                    *)

\* The guards send an account to a guarded page.
LEMMA RedirectsAreGuarded ==
  ASSUME NEW to \in SE!Guarded, NEW r PROVE SE!Redirect(to, r) \in SE!Guarded
BY DEF SE!Redirect, SE!Guarded, SE!DashboardGuard, SE!BookingsGuard, SE!StaffGuard,
       SE!AdminGuard

\* A navigation, a page and a socket stay what they are typed to be.
LEMMA NavigationIsTyped ==
  /\ \A to \in SE!Public \cup SE!Guarded, by \in {"link", "login", "logout"} :
       SE!Go(to, by) \in SE!Going /\ SE!Go(to, by).as = None
       /\ SE!Go(to, by).phase = "lookup"
  /\ SE!Still.phase = "none" /\ SE!Still.as = None
  /\ \A g \in SE!Going \cup {SE!Still}, u \in Person \cup {None} :
       g.phase = "lookup" =>
         /\ [g EXCEPT !.phase = "fetch", !.as = u] \in SE!Going
         /\ [g EXCEPT !.phase = "fetch", !.as = u].as = u
         /\ [g EXCEPT !.phase = "fetch", !.as = u].to = g.to
         /\ \A to \in SE!Guarded :
              /\ [g EXCEPT !.to = to] \in SE!Going
              /\ [g EXCEPT !.to = to].as = g.as
              /\ [g EXCEPT !.to = to].phase = g.phase
<1>1. \A to \in SE!Public \cup SE!Guarded, by \in {"link", "login", "logout"} :
        SE!Go(to, by) \in SE!Going /\ SE!Go(to, by).as = None
        /\ SE!Go(to, by).phase = "lookup"
  BY DEF SE!Go, SE!Going
<1>2. SE!Still.phase = "none" /\ SE!Still.as = None
  BY DEF SE!Still
<1>3. ASSUME NEW g \in SE!Going \cup {SE!Still}, NEW u \in Person \cup {None}, g.phase = "lookup"
      PROVE  /\ [g EXCEPT !.phase = "fetch", !.as = u] \in SE!Going
             /\ [g EXCEPT !.phase = "fetch", !.as = u].as = u
             /\ [g EXCEPT !.phase = "fetch", !.as = u].to = g.to
             /\ \A to \in SE!Guarded :
                  /\ [g EXCEPT !.to = to] \in SE!Going
                  /\ [g EXCEPT !.to = to].as = g.as
                  /\ [g EXCEPT !.to = to].phase = g.phase
  <2>1. g \in SE!Going
    BY <1>2, <1>3
  <2>2. QED
    BY <2>1 DEF SE!Going
<1>4. QED
  BY <1>1, <1>2, <1>3

LEMMA SessionStarts == SE!Init => SE!SessionInv
<1> SUFFICES ASSUME SE!Init PROVE SE!SessionInv
  OBVIOUS
<1>1. SE_going = SE!Still /\ SE_request = SE!NoRequest /\ SE_socket = SE!NoSocket
  BY DEF SE!Init
<1>2. SE!TypeOK
  BY <1>1, SessionAssumption DEF SE!Init, SE!TypeOK, SE!Public, SE!Guarded, SE!NoSocket
<1>3. SE!NavigationsFit
  BY <1>1 DEF SE!NavigationsFit, SE!Still
<1>4. SE!FormsFit
  BY <1>1 DEF SE!FormsFit, SE!NoRequest
<1>5. QED
  BY <1>2, <1>3, <1>4 DEF SE!SessionInv

LEMMA SessionStutters == SE!SessionInv /\ UNCHANGED SEvars => SE!SessionInv'
BY DEF SEvars, SE!SessionInv, SE!TypeOK, SE!NavigationsFit, SE!FormsFit

\* The account of a cookie exists.
LEMMA AccountExists ==
  \A c : SE!Account(c) # None => SE!Account(c) = c /\ c \in SE_known
BY DEF SE!Account

LEMMA ClickIsTyped ==
  SE!SessionInv /\ SE!Click => SE_changes' \in 0..MaxChanges
<1> SUFFICES ASSUME SE!SessionInv, SE!Click PROVE SE_changes' \in 0..MaxChanges
  OBVIOUS
<1>1. MaxChanges \in Nat /\ SE_changes \in 0..MaxChanges
  BY SessionAssumption DEF SE!SessionInv, SE!TypeOK
<1>2. QED
  BY <1>1 DEF SE!Click

LEMMA VisitKeepsSession ==
  ASSUME NEW to \in Visited, SE!SessionInv, SE!Visit(to) PROVE SE!SessionInv'
<1>1. /\ SE_going' = SE!Go(to, "link")
      /\ to \in SE!Public \cup SE!Guarded
  BY SessionAssumption DEF SE!Visit
<1>2. /\ SE_going' \in SE!Going /\ SE_going'.as = None /\ SE_going'.phase = "lookup"
  BY <1>1, NavigationIsTyped
<1>3. SE_changes' \in 0..MaxChanges
  BY ClickIsTyped DEF SE!Visit
<1>4. /\ SE_request' = SE_request \/ SE_request' = SE!NoRequest
      /\ SE_socket' = SE_socket \/ SE_socket' = SE!NoSocket
  BY DEF SE!Visit
<1>5. /\ UNCHANGED <<SE_role, SE_known, SE_active, SE_cookie, SE_page, SE_viewer, SE_next>>
  BY DEF SE!Visit, SE!accounts
<1>6. SE!TypeOK'
  BY <1>2, <1>3, <1>4, <1>5 DEF SE!SessionInv, SE!TypeOK, SE!NoSocket
<1>7. SE!NavigationsFit'
  BY <1>2 DEF SE!NavigationsFit
<1>8. SE!FormsFit'
  BY <1>4, <1>5 DEF SE!SessionInv, SE!FormsFit, SE!NoRequest
<1>9. QED
  BY <1>6, <1>7, <1>8 DEF SE!SessionInv

\* A page that is shown or breaks fits the account it was rendered for.
LEMMA ShowIsFit ==
  ASSUME SE!SessionInv, NEW to \in SE!Public \cup SE!Guarded,
         NEW as \in SE_known \cup {None}, to \in SE!Guarded <=> as # None,
         SE!Show(to, as) \/ SE!Break
  PROVE  /\ SE_page' \in SE!Public \cup SE!Guarded \cup {"error"}
         /\ SE_viewer' \in SE_known \cup {None}
         /\ SE_page' \in SE!Guarded <=> SE_viewer' # None
         /\ SE_going' = SE!Still
         /\ SE_socket' \in SE!Socket \cup {SE!NoSocket}
         /\ SE_socket'.state = "connected" => SE_socket'.as \in SE_known
<1>1. CASE SE!Break
  BY <1>1 DEF SE!Break, SE!Guarded, SE!SessionInv, SE!TypeOK
<1>2. CASE SE!Show(to, as)
  <2>1. [state |-> "connecting", as |-> None] \in SE!Socket
    BY DEF SE!Socket
  <2>2. SE_socket' = SE_socket \/ SE_socket' = [state |-> "connecting", as |-> None]
    BY <1>2 DEF SE!Show
  <2>3. /\ SE_socket' \in SE!Socket \cup {SE!NoSocket}
        /\ SE_socket'.state = "connected" => SE_socket'.as \in SE_known
    BY <2>1, <2>2 DEF SE!SessionInv, SE!TypeOK
  <2>4. QED
    BY <1>2, <2>3 DEF SE!Show
<1>3. QED
  BY <1>1, <1>2

\* A step that turns to the sign-in page, or to another, of a navigation.
LEMMA TurningIsFit ==
  ASSUME SE!SessionInv, SE_going.to \in SE!Guarded, SE!ToLogin
  PROVE  /\ SE_going' \in SE!Going /\ SE_going'.as = None /\ SE_going'.phase = "lookup"
         /\ SE_next' \in SE!Guarded
BY NavigationIsTyped DEF SE!ToLogin, SE!Public

LEMMA NavigationStep ==
  ASSUME SE!SessionInv,
         UNCHANGED <<SE_role, SE_known, SE_active, SE_cookie, SE_changes, SE_request>>,
         SE_page' \in SE!Public \cup SE!Guarded \cup {"error"},
         SE_viewer' \in SE_known \cup {None},
         SE_page' \in SE!Guarded <=> SE_viewer' # None,
         SE_going' \in SE!Going \cup {SE!Still},
         SE_going'.as \in SE_known \cup {None},
         SE_going'.phase = "fetch" => SE_going'.to \in SE!Guarded,
         SE_next' \in SE!Guarded,
         SE_socket' \in SE!Socket \cup {SE!NoSocket},
         SE_socket'.state = "connected" => SE_socket'.as \in SE_known
  PROVE  SE!SessionInv'
<1>1. SE!TypeOK'
  BY DEF SE!SessionInv, SE!TypeOK
<1>2. SE!NavigationsFit' /\ SE!FormsFit'
  BY DEF SE!SessionInv, SE!NavigationsFit, SE!FormsFit
<1>3. QED
  BY <1>1, <1>2 DEF SE!SessionInv

LEMMA LookupKeepsSession == SE!SessionInv /\ SE!Lookup => SE!SessionInv'
<1> SUFFICES ASSUME SE!SessionInv, SE!Lookup PROVE SE!SessionInv'
  OBVIOUS
<1> DEFINE u == SE!Account(SE_cookie)
<1>1. SE_going.phase = "lookup" /\ SE_going \in SE!Going
  BY NavigationIsTyped DEF SE!Lookup, SE!SessionInv, SE!TypeOK
<1>2. SE_going.to \in SE!Public \cup SE!Guarded
  BY <1>1 DEF SE!Going
<1>3. UNCHANGED <<SE_role, SE_known, SE_active, SE_cookie, SE_changes, SE_request>>
  BY DEF SE!Lookup, SE!accounts
<1>4. u # None => u = SE_cookie /\ u \in SE_known /\ u \in Person
  BY AccountExists DEF SE!SessionInv, SE!TypeOK
<1> HIDE DEF u
<1>5. /\ SE_page \in SE!Public \cup SE!Guarded \cup {"error"}
      /\ SE_viewer \in SE_known \cup {None}
      /\ SE_page \in SE!Guarded <=> SE_viewer # None
      /\ SE_next \in SE!Guarded
      /\ SE_socket \in SE!Socket \cup {SE!NoSocket}
      /\ SE_socket.state = "connected" => SE_socket.as \in SE_known
      /\ SE_going.as \in SE_known \cup {None}
  BY DEF SE!SessionInv, SE!TypeOK, SE!NavigationsFit
<1>6. CASE SE_going.to \in SE!Public /\ SE!Show(SE_going.to, None) /\ UNCHANGED SE_next
  <2>1. SE_going.to \in SE!Guarded <=> None # None
    BY <1>6 DEF SE!Public, SE!Guarded
  <2>2. /\ SE_page' \in SE!Public \cup SE!Guarded \cup {"error"}
        /\ SE_viewer' \in SE_known \cup {None}
        /\ SE_page' \in SE!Guarded <=> SE_viewer' # None
        /\ SE_going' = SE!Still
        /\ SE_socket' \in SE!Socket \cup {SE!NoSocket}
        /\ SE_socket'.state = "connected" => SE_socket'.as \in SE_known
    BY <1>2, <1>6, <2>1, ShowIsFit
  <2>3. SE_next' \in SE!Guarded
    BY <1>5, <1>6
  <2>4. QED
    BY <1>3, <2>2, <2>3, NavigationIsTyped, NavigationStep
<1>7. CASE SE_going.to \in SE!Guarded /\ SE!ToLogin /\ UNCHANGED <<SE_page, SE_viewer, SE_socket>>
  <2>1. /\ SE_going' \in SE!Going /\ SE_going'.as = None /\ SE_going'.phase = "lookup"
        /\ SE_next' \in SE!Guarded
    BY <1>7, TurningIsFit
  <2>2. QED
    BY <1>3, <1>5, <1>7, <2>1, NavigationStep
<1>8. CASE /\ SE_going.to \in SE!Guarded /\ u # None
           /\ SE_going' = IF SE!Redirect(SE_going.to, SE_role[u]) = SE_going.to
                          THEN [SE_going EXCEPT !.phase = "fetch", !.as = u]
                          ELSE [SE_going EXCEPT !.to = SE!Redirect(SE_going.to, SE_role[u])]
           /\ UNCHANGED <<SE_page, SE_viewer, SE_next, SE_socket>>
  <2> DEFINE to == SE!Redirect(SE_going.to, SE_role[u])
  <2>1. to \in SE!Guarded
    BY <1>8, RedirectsAreGuarded
  <2> HIDE DEF to
  <2>2. CASE SE_going' = [SE_going EXCEPT !.phase = "fetch", !.as = u]
    <3>1. SE_going' \in SE!Going /\ SE_going'.as = u /\ SE_going'.to = SE_going.to
      BY <1>1, <1>4, <1>8, <2>2 DEF SE!Going
    <3>2. QED
      BY <1>3, <1>4, <1>5, <1>8, <3>1, NavigationStep
  <2>3. CASE SE_going' = [SE_going EXCEPT !.to = to]
    <3>1. SE_going' \in SE!Going /\ SE_going'.as = SE_going.as /\ SE_going'.phase = "lookup"
      BY <1>1, <2>1, <2>3, NavigationIsTyped
    <3>2. QED
      BY <1>3, <1>5, <1>8, <3>1, NavigationStep
  <2>4. QED
    BY <1>8, <2>2, <2>3 DEF to
<1>9. CASE SE_going.to \in SE!Guarded /\ SE!Break /\ UNCHANGED SE_next
  <2>1. SE_page' = "error" /\ SE_viewer' = None /\ SE_going' = SE!Still /\ UNCHANGED SE_socket
    BY <1>9 DEF SE!Break
  <2>2. "error" \notin SE!Guarded
    BY DEF SE!Guarded
  <2>3. QED
    BY <1>3, <1>5, <1>9, <2>1, <2>2, NavigationIsTyped, NavigationStep
<1>10. QED
  BY <1>6, <1>7, <1>8, <1>9 DEF SE!Lookup, u

LEMMA FetchKeepsSession == SE!SessionInv /\ SE!Fetch => SE!SessionInv'
<1> SUFFICES ASSUME SE!SessionInv, SE!Fetch PROVE SE!SessionInv'
  OBVIOUS
<1>1. SE_going.phase = "fetch" /\ SE_going.to \in SE!Guarded
  BY DEF SE!Fetch, SE!SessionInv, SE!NavigationsFit
<1>2. UNCHANGED <<SE_role, SE_known, SE_active, SE_cookie, SE_changes, SE_request>>
  BY DEF SE!Fetch, SE!accounts
<1>3. /\ SE_page \in SE!Public \cup SE!Guarded \cup {"error"}
      /\ SE_viewer \in SE_known \cup {None}
      /\ SE_page \in SE!Guarded <=> SE_viewer # None
      /\ SE_next \in SE!Guarded
      /\ SE_socket \in SE!Socket \cup {SE!NoSocket}
      /\ SE_socket.state = "connected" => SE_socket.as \in SE_known
  BY DEF SE!SessionInv, SE!TypeOK
<1>4. CASE SE!Account(SE_going.as) = None
  <2>1. SE!ToLogin /\ UNCHANGED <<SE_page, SE_viewer, SE_socket>>
    BY <1>4 DEF SE!Fetch
  <2>2. /\ SE_going' \in SE!Going /\ SE_going'.as = None /\ SE_going'.phase = "lookup"
        /\ SE_next' \in SE!Guarded
    BY <1>1, <2>1, TurningIsFit
  <2>3. QED
    BY <1>2, <1>3, <2>1, <2>2, NavigationStep
<1>5. CASE SE!Account(SE_going.as) # None
  <2>1. SE_going.as \in SE_known /\ SE_going.as # None
    BY <1>5, AccountExists
  <2>2. SE!Show(SE_going.to, SE_going.as) \/ SE!Break
    BY <1>5 DEF SE!Fetch
  <2>3. /\ SE_page' \in SE!Public \cup SE!Guarded \cup {"error"}
        /\ SE_viewer' \in SE_known \cup {None}
        /\ SE_page' \in SE!Guarded <=> SE_viewer' # None
        /\ SE_going' = SE!Still
        /\ SE_socket' \in SE!Socket \cup {SE!NoSocket}
        /\ SE_socket'.state = "connected" => SE_socket'.as \in SE_known
    BY <1>1, <2>1, <2>2, ShowIsFit
  <2>4. SE_next' \in SE!Guarded
    BY <1>3, <1>5 DEF SE!Fetch
  <2>5. QED
    BY <1>2, <2>3, <2>4, NavigationIsTyped, NavigationStep
<1>6. QED
  BY <1>4, <1>5

\* A request that is answered is still one.
LEMMA FormIsKept ==
  /\ \A q \in SE!Request \cup {SE!NoRequest}, a \in {"ok", "failed"} :
       q.op # "none" =>
         /\ [q EXCEPT !.answer = a] \in SE!Request
         /\ [q EXCEPT !.answer = a].op = q.op
         /\ [q EXCEPT !.answer = a].as = q.as
         /\ [q EXCEPT !.answer = a].answer = a
  /\ SE!NoRequest.op = "none" /\ SE!NoRequest.answer = "pending"
  /\ \A q \in SE!Request : q.op \in {"login", "register", "logout"}
<1>1. SE!NoRequest.op = "none" /\ SE!NoRequest.answer = "pending"
  BY DEF SE!NoRequest
<1>2. ASSUME NEW q \in SE!Request, NEW a \in {"ok", "failed"}
      PROVE  /\ [q EXCEPT !.answer = a] \in SE!Request
             /\ [q EXCEPT !.answer = a].op = q.op
             /\ [q EXCEPT !.answer = a].as = q.as
             /\ [q EXCEPT !.answer = a].answer = a
  BY DEF SE!Request
<1>3. \A q \in SE!Request : q.op \in {"login", "register", "logout"}
  BY DEF SE!Request
<1>4. QED
  BY <1>1, <1>2, <1>3

\* A step of a form, which leaves the page and the accounts alone.
LEMMA FormStep ==
  ASSUME SE!SessionInv,
         UNCHANGED <<SE_role, SE_active, SE_page, SE_viewer>>,
         SE_known \subseteq SE_known', SE_known' \subseteq Person,
         SE_changes' \in 0..MaxChanges,
         SE_cookie' \in SE_known' \cup {None},
         SE_going' = SE_going \/
           (SE_going' \in SE!Going /\ SE_going'.as = None /\ SE_going'.phase = "lookup"),
         SE_next' \in SE!Guarded,
         SE_socket' = SE_socket \/ SE_socket' = SE!NoSocket,
         SE_request' \in SE!Request \cup {SE!NoRequest},
         SE!FormsFit'
  PROVE  SE!SessionInv'
<1>1. /\ SE_socket' \in SE!Socket \cup {SE!NoSocket}
      /\ SE_socket'.state = "connected" => SE_socket'.as \in SE_known'
  BY DEF SE!SessionInv, SE!TypeOK, SE!NoSocket
<1>2. SE!TypeOK'
  BY <1>1 DEF SE!SessionInv, SE!TypeOK
<1>3. SE!NavigationsFit'
  BY DEF SE!SessionInv, SE!NavigationsFit
<1>4. QED
  BY <1>2, <1>3 DEF SE!SessionInv

LEMMA SendKeepsSession ==
  ASSUME SE!SessionInv, NEW op \in {"login", "register", "logout"},
         NEW u \in Person \cup {None}, SE!Send(op, u),
         op = "logout" => u = None, op # "logout" => u \in Person
  PROVE  SE!SessionInv'
<1>1. SE_request' = [op |-> op, as |-> u, answer |-> "pending"]
  BY DEF SE!Send
<1>2. SE_request' \in SE!Request
  BY <1>1 DEF SE!Request
<1>3. SE!FormsFit'
  BY <1>1 DEF SE!FormsFit
<1>4. SE_changes' \in 0..MaxChanges
  BY ClickIsTyped DEF SE!Send
<1>5. /\ UNCHANGED <<SE_role, SE_known, SE_active, SE_cookie, SE_page, SE_viewer,
                     SE_going, SE_next, SE_socket>>
      /\ SE_known \subseteq Person /\ SE_cookie \in SE_known \cup {None} /\ SE_next \in SE!Guarded
  BY DEF SE!Send, SE!accounts, SE!SessionInv, SE!TypeOK
<1>6. QED
  BY <1>2, <1>3, <1>4, <1>5, FormStep

LEMMA AnswerKeepsSession ==
  ASSUME SE!SessionInv, NEW op \in {"login", "register", "logout"},
         NEW a \in {"ok", "failed"}, SE!Answer(op, a),
         SE_known \subseteq SE_known', SE_known' \subseteq Person,
         op # "logout" /\ a = "ok" => SE_request.as \in SE_known'
  PROVE  SE!SessionInv'
<1>1. /\ SE_request.op = op
      /\ SE_request' = [SE_request EXCEPT !.answer = a]
      /\ UNCHANGED <<SE_role, SE_active, SE_cookie, SE_changes, SE_page, SE_viewer,
                     SE_going, SE_next, SE_socket>>
  BY DEF SE!Answer
<1>2. SE_request \in SE!Request \cup {SE!NoRequest} /\ SE_request.op # "none"
  BY <1>1 DEF SE!SessionInv, SE!TypeOK
<1>3. /\ SE_request' \in SE!Request /\ SE_request'.op = op
      /\ SE_request'.as = SE_request.as /\ SE_request'.answer = a
  BY <1>1, <1>2, FormIsKept
<1>4. SE!FormsFit'
  BY <1>1, <1>3 DEF SE!SessionInv, SE!FormsFit
<1>5. /\ SE_cookie \in SE_known \cup {None} /\ SE_next \in SE!Guarded
      /\ SE_changes \in 0..MaxChanges
  BY DEF SE!SessionInv, SE!TypeOK
<1>6. QED
  BY <1>1, <1>3, <1>4, <1>5, FormStep

LEMMA ServeKeepsSession == SE!SessionInv /\ SE!Serve => SE!SessionInv'
<1> SUFFICES ASSUME SE!SessionInv, SE!Serve PROVE SE!SessionInv'
  OBVIOUS
<1>1. SE_known \subseteq Person
  BY DEF SE!SessionInv, SE!TypeOK
<1>2. CASE SE!ServeLogin
  <2>1. SE_request.as \in SE_known /\ SE_known' = SE_known /\ SE!Answer("login", "ok")
    BY <1>2, AccountExists DEF SE!ServeLogin
  <2>2. QED
    BY <1>1, <2>1, AnswerKeepsSession
<1>3. CASE SE!ServeRegistration
  <2>1. SE_known' = SE_known \cup {SE_request.as} /\ SE!Answer("register", "ok")
    BY <1>3 DEF SE!ServeRegistration
  <2>2. SE_request.as \in Person
    BY <2>1 DEF SE!Answer, SE!SessionInv, SE!FormsFit
  <2>3. QED
    BY <1>1, <2>1, <2>2, AnswerKeepsSession
<1>4. CASE SE!ServeLogout
  <2>1. SE_known' = SE_known /\ SE!Answer("logout", "ok")
    BY <1>4 DEF SE!ServeLogout
  <2>2. QED
    BY <1>1, <2>1, AnswerKeepsSession
<1>5. CASE SE!Refuse
  <2>1. PICK op \in {"login", "register", "logout"} : SE!Answer(op, "failed") /\ SE_known' = SE_known
    BY <1>5 DEF SE!Refuse
  <2>2. QED
    BY <1>1, <2>1, AnswerKeepsSession
<1>6. QED
  BY <1>2, <1>3, <1>4, <1>5 DEF SE!Serve

LEMMA LoseKeepsSession == SE!SessionInv /\ SE!Lose => SE!SessionInv'
<1> SUFFICES ASSUME SE!SessionInv, SE!Lose PROVE SE!SessionInv'
  OBVIOUS
<1>1. /\ SE_request.answer = "ok"
      /\ SE_request' = [SE_request EXCEPT !.answer = "failed"]
      /\ UNCHANGED <<SE_role, SE_known, SE_active, SE_cookie, SE_changes, SE_page,
                     SE_viewer, SE_going, SE_next, SE_socket>>
  BY DEF SE!Lose, SE!accounts
<1>2. SE_request \in SE!Request
  BY <1>1, FormIsKept DEF SE!SessionInv, SE!TypeOK
<1>3. /\ SE_request' \in SE!Request /\ SE_request'.op = SE_request.op
      /\ SE_request'.as = SE_request.as /\ SE_request'.answer = "failed"
  BY <1>1, <1>2, FormIsKept
<1>4. SE!FormsFit'
  BY <1>1, <1>3 DEF SE!SessionInv, SE!FormsFit
<1>5. /\ SE_cookie \in SE_known \cup {None} /\ SE_next \in SE!Guarded
      /\ SE_changes \in 0..MaxChanges /\ SE_known \subseteq Person
  BY DEF SE!SessionInv, SE!TypeOK
<1>6. QED
  BY <1>1, <1>3, <1>4, <1>5, FormStep

LEMMA SettleKeepsSession == SE!SessionInv /\ SE!Settle => SE!SessionInv'
<1> SUFFICES ASSUME SE!SessionInv, SE!Settle PROVE SE!SessionInv'
  OBVIOUS
<1>1. SE_request' = SE!NoRequest /\ UNCHANGED <<SE_role, SE_known, SE_active, SE_changes, SE_page, SE_viewer>>
  BY DEF SE!Settle, SE!LoggedIn, SE!Registered, SE!LoggedOut, SE!Succeed, SE!Fail, SE!accounts
<1>2. SE!FormsFit'
  BY <1>1, FormIsKept DEF SE!FormsFit
<1>3. /\ SE_known \subseteq Person /\ SE_changes \in 0..MaxChanges /\ SE_next \in SE!Guarded
      /\ SE_cookie \in SE_known \cup {None}
  BY DEF SE!SessionInv, SE!TypeOK
<1>4. SE_next' \in SE!Guarded /\ (SE_socket' = SE_socket \/ SE_socket' = SE!NoSocket)
  BY <1>3 DEF SE!Settle, SE!LoggedIn, SE!Registered, SE!LoggedOut, SE!Fail, SE!DisconnectSocket,
              SE!Guarded
<1>5. SE_cookie' \in SE_known \cup {None}
  <2>1. ASSUME NEW op \in {"login", "register", "logout"}, NEW to, SE!Succeed(op, to)
        PROVE  SE_cookie' \in SE_known \cup {None}
    BY <2>1 DEF SE!Succeed, SE!SessionInv, SE!FormsFit
  <2>2. SE!Fail => SE_cookie' = SE_cookie
    BY DEF SE!Fail
  <2>3. QED
    BY <1>3, <2>1, <2>2 DEF SE!Settle, SE!LoggedIn, SE!Registered, SE!LoggedOut
<1>6. \/ SE_going' = SE_going
      \/ SE_going' \in SE!Going /\ SE_going'.as = None /\ SE_going'.phase = "lookup"
  <2>1. SE!Fail => SE_going' = SE_going
    BY DEF SE!Fail
  <2>2. SE!LoggedIn => SE_going' = SE!Go(SE_next, "login")
    BY DEF SE!LoggedIn, SE!Succeed
  <2>3. SE!Registered => SE_going' = SE!Go(SE_next, "link")
    BY DEF SE!Registered, SE!Succeed
  <2>4. SE!LoggedOut => SE_going' = SE!Go("login", "logout")
    BY DEF SE!LoggedOut, SE!Succeed
  <2>5. "login" \in SE!Public
    BY DEF SE!Public
  <2>6. \A to \in SE!Public \cup SE!Guarded, by \in {"link", "login", "logout"} :
          SE_going' = SE!Go(to, by) =>
            SE_going' \in SE!Going /\ SE_going'.as = None /\ SE_going'.phase = "lookup"
    BY DEF SE!Go, SE!Going
  <2>7. CASE SE!Fail
    BY <2>1, <2>7
  <2>8. CASE SE!LoggedIn
    BY <1>3, <2>2, <2>6, <2>8
  <2>9. CASE SE!Registered
    BY <1>3, <2>3, <2>6, <2>9
  <2>10. CASE SE!LoggedOut
    BY <2>4, <2>5, <2>6, <2>10
  <2>11. QED
    BY <2>7, <2>8, <2>9, <2>10 DEF SE!Settle
<1>7. QED
  BY <1>1, <1>2, <1>3, <1>4, <1>5, <1>6, FormStep

\* A step of the socket or of someone else.
LEMMA OutsideStep ==
  ASSUME SE!SessionInv,
         UNCHANGED <<SE_known, SE_page, SE_viewer, SE_next, SE_request>>,
         SE_role' \in [Person -> Role], SE_active' \subseteq Person,
         SE_changes' \in 0..MaxChanges,
         SE_cookie' \in SE_known \cup {None},
         SE_going' = SE_going \/ SE_going' = [SE_going EXCEPT !.as = None],
         \/ SE_socket' = SE_socket
         \/ \E u \in SE_known \cup {None}, c \in {"connecting", "connected", "closed"} :
              SE_socket' = [state |-> c, as |-> u] /\ (c = "connected" => u \in SE_known)
  PROVE  SE!SessionInv'
<1>1. /\ SE_going' \in SE!Going \cup {SE!Still}
      /\ SE_going'.as \in SE_known \cup {None}
      /\ SE_going'.phase = SE_going.phase /\ SE_going'.to = SE_going.to
  <2>1. SE_going \in SE!Going \cup {SE!Still} /\ SE_going.as \in SE_known \cup {None}
    BY DEF SE!SessionInv, SE!TypeOK, SE!NavigationsFit
  <2>2. \A g \in SE!Going : /\ [g EXCEPT !.as = None] \in SE!Going
                            /\ [g EXCEPT !.as = None].as = None
                            /\ [g EXCEPT !.as = None].phase = g.phase
                            /\ [g EXCEPT !.as = None].to = g.to
    BY DEF SE!Going
  <2>3. [SE!Still EXCEPT !.as = None] = SE!Still /\ SE!Still.as = None
    BY DEF SE!Still
  <2>4. QED
    BY <2>1, <2>2, <2>3
<1>2. /\ SE_socket' \in SE!Socket \cup {SE!NoSocket}
      /\ SE_socket'.state = "connected" => SE_socket'.as \in SE_known
  <2>1. SE_known \subseteq Person /\ SE_socket \in SE!Socket \cup {SE!NoSocket}
        /\ (SE_socket.state = "connected" => SE_socket.as \in SE_known)
    BY DEF SE!SessionInv, SE!TypeOK
  <2>2. QED
    BY <2>1 DEF SE!Socket
<1>3. SE!TypeOK'
  BY <1>1, <1>2 DEF SE!SessionInv, SE!TypeOK
<1>4. SE!NavigationsFit' /\ SE!FormsFit'
  BY <1>1 DEF SE!SessionInv, SE!NavigationsFit, SE!FormsFit
<1>5. QED
  BY <1>3, <1>4 DEF SE!SessionInv

LEMMA SocketKeepsSession == SE!SessionInv /\ (SE!Connect \/ SE!Drop) => SE!SessionInv'
<1> SUFFICES ASSUME SE!SessionInv, SE!Connect \/ SE!Drop PROVE SE!SessionInv'
  OBVIOUS
<1>1. UNCHANGED <<SE_role, SE_known, SE_active, SE_cookie, SE_changes, SE_page, SE_viewer,
                  SE_going, SE_next, SE_request>>
  BY DEF SE!Connect, SE!Drop, SE!accounts
<1>2. /\ SE_role \in [Person -> Role] /\ SE_active \subseteq Person
      /\ SE_changes \in 0..MaxChanges /\ SE_cookie \in SE_known \cup {None}
  BY DEF SE!SessionInv, SE!TypeOK
<1>3. \E u \in SE_known \cup {None}, c \in {"connecting", "connected", "closed"} :
        SE_socket' = [state |-> c, as |-> u] /\ (c = "connected" => u \in SE_known)
  <2>1. CASE SE!Drop
    BY <2>1 DEF SE!Drop
  <2>2. CASE SE!Connect /\ SE!Account(SE_cookie) = None
    BY <2>2 DEF SE!Connect
  <2>3. CASE SE!Connect /\ SE!Account(SE_cookie) # None
    <3>1. SE_cookie \in SE_known
      BY <2>3, AccountExists
    <3>2. SE_socket' = [state |-> "connected", as |-> SE_cookie]
      BY <2>3 DEF SE!Connect
    <3>3. QED
      BY <3>1, <3>2
  <2>4. QED
    BY <2>1, <2>2, <2>3
<1>4. QED
  BY <1>1, <1>2, <1>3, OutsideStep

LEMMA OthersKeepSession ==
  /\ SE!SessionInv
  /\ \/ \E u \in Person : SE!ChangeRole(u) \/ SE!ChangeAccess(u)
     \/ SE!Expire \/ SE!OtherTab
  => SE!SessionInv'
<1> SUFFICES ASSUME SE!SessionInv,
                    \/ \E u \in Person : SE!ChangeRole(u) \/ SE!ChangeAccess(u)
                    \/ SE!Expire \/ SE!OtherTab
             PROVE  SE!SessionInv'
  OBVIOUS
<1>1. SE!Change
  BY DEF SE!ChangeRole, SE!ChangeAccess, SE!Expire, SE!OtherTab
<1>2. /\ SE_role \in [Person -> Role] /\ SE_active \subseteq Person /\ SE_known \subseteq Person
      /\ SE_changes \in 0..MaxChanges /\ SE_cookie \in SE_known \cup {None}
      /\ MaxChanges \in Nat
  BY SessionAssumption DEF SE!SessionInv, SE!TypeOK
<1>3. SE_changes' \in 0..MaxChanges
  BY <1>1, <1>2 DEF SE!Change
<1>4. UNCHANGED <<SE_known, SE_page, SE_viewer, SE_next, SE_request>>
  BY <1>1 DEF SE!Change
<1>5. \A u : SE_socket' = SE!Closed(u) =>
        \/ SE_socket' = SE_socket
        \/ \E w \in SE_known \cup {None}, c \in {"connecting", "connected", "closed"} :
              SE_socket' = [state |-> c, as |-> w] /\ (c = "connected" => w \in SE_known)
  BY DEF SE!Closed
<1>6. CASE \E u \in Person : SE!ChangeRole(u)
  <2>1. SE_role' \in [Person -> Role]
    BY <1>2, <1>6 DEF SE!ChangeRole
  <2>2. UNCHANGED <<SE_active, SE_cookie, SE_going, SE_socket>>
    BY <1>6 DEF SE!ChangeRole
  <2>3. QED
    BY <1>2, <1>3, <1>4, <2>1, <2>2, OutsideStep
<1>7. CASE \E u \in Person : SE!ChangeAccess(u)
  <2>1. PICK u \in Person : SE!ChangeAccess(u)
    BY <1>7
  <2>2. SE_active' \subseteq Person /\ UNCHANGED <<SE_role, SE_cookie, SE_going>>
    BY <1>2, <2>1 DEF SE!ChangeAccess
  <2>3. SE_socket' = SE_socket \/ SE_socket' = SE!Closed(u)
    BY <2>1 DEF SE!ChangeAccess
  <2>4. QED
    BY <1>2, <1>3, <1>4, <1>5, <2>2, <2>3, OutsideStep
<1>8. CASE SE!Expire
  <2>1. /\ SE_cookie' = None /\ UNCHANGED <<SE_role, SE_active>>
        /\ SE_going' = SE_going \/ SE_going' = [SE_going EXCEPT !.as = None]
        /\ SE_socket' = SE!Closed(SE_cookie)
    BY <1>8 DEF SE!Expire
  <2>2. QED
    BY <1>2, <1>3, <1>4, <1>5, <2>1, OutsideStep
<1>9. CASE SE!OtherTab
  <2>1. SE_cookie' \in SE_known \cup {None} /\ UNCHANGED <<SE_role, SE_active, SE_going, SE_socket>>
    BY <1>9 DEF SE!OtherTab
  <2>2. QED
    BY <1>2, <1>3, <1>4, <2>1, OutsideStep
<1>10. QED
  BY <1>6, <1>7, <1>8, <1>9

LEMMA SessionStep == SE!SessionInv /\ SE!Next => SE!SessionInv'
<1> SUFFICES ASSUME SE!SessionInv, SE!Next PROVE SE!SessionInv'
  OBVIOUS
<1>1. CASE \E to \in Visited : SE!Visit(to)
  BY <1>1, VisitKeepsSession
<1>2. CASE SE!Lookup \/ SE!Fetch
  BY <1>2, LookupKeepsSession, FetchKeepsSession
<1>3. CASE \E u \in Person : SE!SubmitLogin(u) \/ SE!SubmitRegistration(u)
  BY <1>3, SendKeepsSession DEF SE!SubmitLogin, SE!SubmitRegistration
<1>4. CASE SE!SubmitLogout
  BY <1>4, SendKeepsSession DEF SE!SubmitLogout
<1>5. CASE SE!Serve \/ SE!Lose \/ SE!Settle
  BY <1>5, ServeKeepsSession, LoseKeepsSession, SettleKeepsSession
<1>6. CASE SE!Connect \/ SE!Drop
  BY <1>6, SocketKeepsSession
<1>7. CASE (\E u \in Person : SE!ChangeRole(u) \/ SE!ChangeAccess(u)) \/ SE!Expire \/ SE!OtherTab
  BY <1>7, OthersKeepSession
<1>8. QED
  BY <1>1, <1>2, <1>3, <1>4, <1>5, <1>6, <1>7 DEF SE!Next

LEMMA StepOfSession == [Next]_vars => SE!Next \/ UNCHANGED SEvars
BY DEF Next, vars, Still, SEvars

LEMMA SessionFits == Spec => []SE!SessionInv
<1>1. Init => SE!SessionInv
  BY SessionStarts DEF Init
<1>2. SE!SessionInv /\ [Next]_vars => SE!SessionInv'
  BY StepOfSession, SessionStep, SessionStutters
<1>3. QED
  BY <1>1, <1>2, PTL DEF Spec

----------------------------------------------------------------------------
(* The user directory.                                                     *)

LEMMA AccountsAreCounted == \A S : UM!Cardinality(S) = Cardinality(S)
BY DEF UM!Cardinality, Cardinality

\* The order of the database is strict and total.
LEMMA LatestIsOrder ==
  ASSUME NEW u \in DirectoryUser, NEW v \in DirectoryUser, NEW w \in DirectoryUser
  PROVE  /\ ~ UM!Latest(u, u)
         /\ u # v => UM!Latest(u, v) \/ UM!Latest(v, u)
         /\ UM!Latest(u, v) /\ UM!Latest(v, w) => UM!Latest(u, w)
<1>1. u \in Nat /\ v \in Nat /\ w \in Nat
  BY DirectoryAssumption
<1>2. Created[u] \in Int /\ Created[v] \in Int /\ Created[w] \in Int
  BY DirectoryAssumption
<1>3. QED
  BY <1>1, <1>2 DEF UM!Latest

\* The accounts that come before one.
Ahead(S, u) == {v \in S : UM!Latest(v, u)}

LEMMA AheadIsCounted ==
  ASSUME NEW S \in SUBSET DirectoryUser, NEW u \in S
  PROVE  /\ IsFiniteSet(S) /\ Cardinality(S) \in Nat
         /\ IsFiniteSet(Ahead(S, u))
         /\ Cardinality(Ahead(S, u)) \in Nat
         /\ Cardinality(Ahead(S, u)) < Cardinality(S)
<1>1. IsFiniteSet(S)
  BY DirectoryAssumption, FS_Subset
<1>2. Cardinality(S) \in Nat
  BY <1>1, FS_CardinalityType
<1>3. IsFiniteSet(S \ {u}) /\ Cardinality(S \ {u}) = Cardinality(S) - 1
  BY <1>1, FS_RemoveElement
<1>4. Ahead(S, u) \in SUBSET (S \ {u})
  BY LatestIsOrder DEF Ahead
<1>5. IsFiniteSet(Ahead(S, u)) /\ Cardinality(Ahead(S, u)) <= Cardinality(S \ {u})
  BY <1>3, <1>4, FS_Subset
<1>6. Cardinality(Ahead(S, u)) \in Nat
  BY <1>5, FS_CardinalityType
<1>7. QED
  BY <1>1, <1>2, <1>3, <1>5, <1>6

\* Who comes later has more accounts ahead.
LEMMA AheadGrows ==
  ASSUME NEW S \in SUBSET DirectoryUser, NEW u \in S, NEW v \in S, UM!Latest(u, v)
  PROVE  Cardinality(Ahead(S, u)) < Cardinality(Ahead(S, v))
<1>1. /\ IsFiniteSet(Ahead(S, u)) /\ Cardinality(Ahead(S, u)) \in Nat
      /\ IsFiniteSet(Ahead(S, v)) /\ Cardinality(Ahead(S, v)) \in Nat
  BY AheadIsCounted
<1>2. u \notin Ahead(S, u)
  BY LatestIsOrder DEF Ahead
<1>3. Cardinality(Ahead(S, u) \cup {u}) = Cardinality(Ahead(S, u)) + 1
  BY <1>1, <1>2, FS_AddElement
<1>4. Ahead(S, u) \cup {u} \in SUBSET Ahead(S, v)
  <2>1. ASSUME NEW w \in Ahead(S, u) PROVE w \in Ahead(S, v)
    BY <2>1, LatestIsOrder DEF Ahead
  <2>2. u \in Ahead(S, v)
    BY DEF Ahead
  <2>3. QED
    BY <2>1, <2>2
<1>5. Cardinality(Ahead(S, u) \cup {u}) <= Cardinality(Ahead(S, v))
  BY <1>1, <1>4, FS_Subset
<1>6. QED
  BY <1>1, <1>3, <1>5

\* The place of an account among others is the number of those ahead: every
\* place is taken, by one.
LEMMA PlacesAreTaken ==
  ASSUME NEW S \in SUBSET DirectoryUser
  PROVE  \A i \in 1..Cardinality(S) : \E u \in S : Cardinality(Ahead(S, u)) + 1 = i
<1> DEFINE n == Cardinality(S)
           place == [u \in S |-> Cardinality(Ahead(S, u)) + 1]
<1>1. IsFiniteSet(S)
  BY DirectoryAssumption, FS_Subset
<1>2. n \in Nat
  BY <1>1, FS_CardinalityType
<1>3. place \in [S -> 1..n]
  <2>1. ASSUME NEW u \in S PROVE Cardinality(Ahead(S, u)) + 1 \in 1..n
    <3>1. Cardinality(Ahead(S, u)) \in Nat /\ Cardinality(Ahead(S, u)) < n
      BY AheadIsCounted
    <3>2. QED
      BY <1>2, <3>1
  <2>2. QED
    BY <2>1
<1>4. ASSUME NEW u \in S, NEW v \in S, place[u] = place[v] PROVE u = v
  <2>1. Cardinality(Ahead(S, u)) \in Nat /\ Cardinality(Ahead(S, v)) \in Nat
    BY AheadIsCounted
  <2>2. Cardinality(Ahead(S, u)) = Cardinality(Ahead(S, v))
    BY <1>4, <2>1
  <2>3. ~ UM!Latest(u, v) /\ ~ UM!Latest(v, u)
    BY <2>1, <2>2, AheadGrows
  <2>4. QED
    BY <2>3, LatestIsOrder
<1>5. place \in Injection(S, 1..n)
  BY <1>3, <1>4 DEF Injection, IsInjective
<1>6. IsFiniteSet(1..n) /\ Cardinality(1..n) = n
  BY <1>2, FS_Interval
<1>7. place \in Surjection(S, 1..n)
  BY <1>5, <1>6, FS_Injection
<1>8. \A i \in 1..n : \E u \in S : place[u] = i
  BY <1>7 DEF Surjection
<1>9. QED
  BY <1>8

\* The accounts can be listed in the order of the database.
LEMMA OrderExists ==
  ASSUME NEW S \in SUBSET DirectoryUser
  PROVE  /\ Cardinality(S) \in Nat
         /\ UM!InOrder(S) \in [1..Cardinality(S) -> S]
         /\ \A i, j \in 1..Cardinality(S) :
              i < j => UM!Latest(UM!InOrder(S)[i], UM!InOrder(S)[j])
<1> DEFINE n == Cardinality(S)
           at == [i \in 1..n |-> CHOOSE u \in S : Cardinality(Ahead(S, u)) + 1 = i]
<1>1. n \in Nat
  BY DirectoryAssumption, FS_Subset, FS_CardinalityType
<1>2. \A i \in 1..n : at[i] \in S /\ Cardinality(Ahead(S, at[i])) + 1 = i
  BY PlacesAreTaken
<1>3. at \in [1..n -> S]
  BY <1>2
<1> HIDE DEF at
<1>4. ASSUME NEW i \in 1..n, NEW j \in 1..n, i < j PROVE UM!Latest(at[i], at[j])
  <2>1. at[i] \in S /\ at[j] \in S
    BY <1>2
  <2>2. /\ Cardinality(Ahead(S, at[i])) \in Nat /\ Cardinality(Ahead(S, at[j])) \in Nat
    BY <2>1, AheadIsCounted
  <2>3. Cardinality(Ahead(S, at[i])) < Cardinality(Ahead(S, at[j]))
    BY <1>1, <1>2, <1>4, <2>2
  <2>4. at[i] # at[j]
    BY <2>2, <2>3
  <2>5. ~ UM!Latest(at[j], at[i])
    BY <2>1, <2>2, <2>3, AheadGrows
  <2>6. QED
    BY <2>1, <2>4, <2>5, LatestIsOrder
<1>5. \A j \in 1..n : \A i \in 1..(j - 1) : UM!Latest(at[i], at[j])
  <2> SUFFICES ASSUME NEW j \in 1..n, NEW i \in 1..(j - 1) PROVE UM!Latest(at[i], at[j])
    OBVIOUS
  <2>1. i \in 1..n /\ i < j
    BY <1>1
  <2>2. QED
    BY <1>4, <2>1
<1> DEFINE P(s) == \A j \in 1..n : \A i \in 1..(j - 1) : UM!Latest(s[i], s[j])
<1>6. UM!InOrder(S) = CHOOSE s \in [1..n -> S] : P(s)
  BY AccountsAreCounted DEF UM!InOrder
<1>7. UM!InOrder(S) \in [1..n -> S] /\ P(UM!InOrder(S))
  <2>1. \E s \in [1..n -> S] : P(s)
    BY <1>3, <1>5
  <2> HIDE DEF P
  <2>2. QED
    BY <1>6, <2>1
<1>8. ASSUME NEW i \in 1..n, NEW j \in 1..n, i < j
      PROVE  UM!Latest(UM!InOrder(S)[i], UM!InOrder(S)[j])
  <2>1. i \in 1..(j - 1)
    BY <1>1, <1>8
  <2>2. QED
    BY <1>7, <2>1
<1>9. QED
  BY <1>1, <1>7, <1>8

\* What a search finds, in order.
LEMMA SearchIsOrdered ==
  ASSUME NEW f
  PROVE  /\ UM!Matching(f) \in Seq(DirectoryUser)
         /\ Len(UM!Matching(f)) \in 0..Cardinality(DirectoryUser)
         /\ \A i \in 1..Len(UM!Matching(f)) : UM!Matches(UM_row[UM!Matching(f)[i]], f)
         /\ \A i, j \in 1..Len(UM!Matching(f)) :
              i < j => UM!Latest(UM!Matching(f)[i], UM!Matching(f)[j])
<1> DEFINE S == {u \in DirectoryUser : UM!Matches(UM_row[u], f)}
           n == Cardinality(S)
           s == UM!Matching(f)
<1>1. S \in SUBSET DirectoryUser
  OBVIOUS
<1>2. s = UM!InOrder(S)
  BY DEF UM!Matching
<1> HIDE DEF s
<1>3. /\ n \in Nat /\ s \in [1..n -> S]
      /\ \A i, j \in 1..n : i < j => UM!Latest(s[i], s[j])
  BY <1>1, <1>2, OrderExists
<1>4. n <= Cardinality(DirectoryUser) /\ Cardinality(DirectoryUser) \in Nat
  BY <1>1, DirectoryAssumption, FS_Subset, FS_CardinalityType
<1> HIDE DEF n
<1>5. s \in Seq(DirectoryUser) /\ Len(s) = n
  BY <1>1, <1>3
<1>6. \A i \in 1..n : UM!Matches(UM_row[s[i]], f)
  BY <1>3
<1>7. QED
  BY <1>3, <1>4, <1>5, <1>6 DEF s

\* A page of a list.
LEMMA PageIsPart ==
  ASSUME NEW s \in Seq(DirectoryUser), NEW p \in Nat \ {0}
  PROVE  /\ UM!PageOf(s, p) \in Seq(DirectoryUser)
         /\ Len(UM!PageOf(s, p)) = IF (p - 1) * PageSize >= Len(s) THEN 0
                                   ELSE IF Len(s) < p * PageSize
                                   THEN Len(s) - (p - 1) * PageSize ELSE PageSize
         /\ \A i \in 1..Len(UM!PageOf(s, p)) :
              /\ (p - 1) * PageSize + i \in 1..Len(s)
              /\ UM!PageOf(s, p)[i] = s[(p - 1) * PageSize + i]
<1> DEFINE a == (p - 1) * PageSize
           b == IF p * PageSize <= Len(s) THEN p * PageSize ELSE Len(s)
<1>1. PageSize \in Nat \ {0} /\ Len(s) \in Nat
  BY DirectoryAssumption
<1>2. a \in Nat /\ p * PageSize = a + PageSize
  BY <1>1
<1> HIDE DEF a
<1>3. UM!PageOf(s, p) = SubSeq(s, a + 1, b)
  BY DEF UM!PageOf, a
<1>4. b \in 0..Len(s)
  BY <1>1, <1>2
<1>5. /\ SubSeq(s, a + 1, b) \in Seq(DirectoryUser)
      /\ Len(SubSeq(s, a + 1, b)) = IF a + 1 <= b THEN b - a ELSE 0
      /\ \A i \in 1..Len(SubSeq(s, a + 1, b)) : SubSeq(s, a + 1, b)[i] = s[a + i]
  <2> HIDE DEF b
  <2>1. \A t \in Seq(DirectoryUser), c \in Nat \ {0}, d \in 0..Len(s) :
          t = s =>
            /\ SubSeq(t, c, d) \in Seq(DirectoryUser)
            /\ Len(SubSeq(t, c, d)) = IF c <= d THEN d - c + 1 ELSE 0
            /\ \A i \in 1..Len(SubSeq(t, c, d)) : SubSeq(t, c, d)[i] = t[c + i - 1]
    OBVIOUS
  <2>2. a + 1 \in Nat \ {0} /\ b - (a + 1) + 1 = b - a
    BY <1>1, <1>2, <1>4
  <2>3. \A i \in Nat : a + 1 + i - 1 = a + i
    BY <1>2
  <2>4. /\ SubSeq(s, a + 1, b) \in Seq(DirectoryUser)
        /\ Len(SubSeq(s, a + 1, b)) = IF a + 1 <= b THEN b - (a + 1) + 1 ELSE 0
        /\ \A i \in 1..Len(SubSeq(s, a + 1, b)) : SubSeq(s, a + 1, b)[i] = s[a + 1 + i - 1]
    BY <1>4, <2>1, <2>2
  <2>5. \A i \in 1..Len(SubSeq(s, a + 1, b)) : i \in Nat
    OBVIOUS
  <2>6. QED
    BY <2>2, <2>3, <2>4, <2>5
<1>6. /\ Len(SubSeq(s, a + 1, b)) = IF a >= Len(s) THEN 0
                                    ELSE IF Len(s) < p * PageSize THEN Len(s) - a ELSE PageSize
      /\ \A i \in 1..Len(SubSeq(s, a + 1, b)) : a + i \in 1..Len(s)
  BY <1>1, <1>2, <1>4, <1>5
<1>7. QED
  BY <1>3, <1>5, <1>6 DEF a

\* A page of a search keeps the order of the database, shows no account twice,
\* and shows what passes the filter.
LEMMA PageFitsSearch ==
  ASSUME NEW f, NEW p \in Nat \ {0}
  PROVE  LET s == UM!Matching(f)
             t == UM!PageOf(s, p)
         IN  /\ t \in Seq(DirectoryUser)
             /\ Len(t) = IF (p - 1) * PageSize >= Len(s) THEN 0
                         ELSE IF Len(s) < p * PageSize THEN Len(s) - (p - 1) * PageSize ELSE PageSize
             /\ \A i, j \in 1..Len(t) : i < j => UM!Latest(t[i], t[j])
             /\ \A i, j \in 1..Len(t) : t[i] = t[j] => i = j
             /\ \A i \in 1..Len(t) : UM!Matches(UM_row[t[i]], f)
<1> DEFINE s == UM!Matching(f)
           t == UM!PageOf(s, p)
<1>1. /\ s \in Seq(DirectoryUser) /\ (\A i \in 1..Len(s) : UM!Matches(UM_row[s[i]], f))
      /\ \A i, j \in 1..Len(s) : i < j => UM!Latest(s[i], s[j])
  BY SearchIsOrdered
<1> HIDE DEF s
<1>2. /\ t \in Seq(DirectoryUser)
      /\ Len(t) = IF (p - 1) * PageSize >= Len(s) THEN 0
                  ELSE IF Len(s) < p * PageSize THEN Len(s) - (p - 1) * PageSize ELSE PageSize
      /\ \A i \in 1..Len(t) :
           (p - 1) * PageSize + i \in 1..Len(s) /\ t[i] = s[(p - 1) * PageSize + i]
  BY <1>1, PageIsPart
<1>3. (p - 1) * PageSize \in Nat /\ Len(t) \in Nat
  BY <1>2, DirectoryAssumption
<1> HIDE DEF t
<1>4. ASSUME NEW i \in 1..Len(t), NEW j \in 1..Len(t), i < j PROVE UM!Latest(t[i], t[j])
  <2>1. (p - 1) * PageSize + i < (p - 1) * PageSize + j
    BY <1>2, <1>3, <1>4
  <2>2. QED
    BY <1>1, <1>2, <2>1
<1>5. ASSUME NEW i \in 1..Len(t), NEW j \in 1..Len(t), t[i] = t[j] PROVE i = j
  <2>1. t[i] \in DirectoryUser
    BY <1>2
  <2>2. ~ UM!Latest(t[i], t[j]) /\ ~ UM!Latest(t[j], t[i])
    BY <1>5, <2>1, LatestIsOrder
  <2>3. ~ (i < j) /\ ~ (j < i)
    BY <1>4, <2>2
  <2>4. QED
    BY <1>3, <2>3
<1>6. \A i \in 1..Len(t) : UM!Matches(UM_row[t[i]], f)
  BY <1>1, <1>2
<1>7. QED
  BY <1>2, <1>4, <1>5, <1>6 DEF s, t

\* The browser refuses a page only for two neighbours of one millisecond.
LEMMA PagesAreAccepted ==
  ASSUME NEW f, NEW p \in Nat \ {0}
  PROVE  LET s == UM!Matching(f)
             t == UM!PageOf(s, p)
         IN  \/ UM!Accepted(t, Len(s), p)
             \/ \E i \in 2..Len(t) : UM!Blurred(t[i - 1], t[i])
<1> DEFINE s == UM!Matching(f)
           t == UM!PageOf(s, p)
<1>1. /\ t \in Seq(DirectoryUser)
      /\ Len(t) = IF (p - 1) * PageSize >= Len(s) THEN 0
                  ELSE IF Len(s) < p * PageSize THEN Len(s) - (p - 1) * PageSize ELSE PageSize
      /\ \A i, j \in 1..Len(t) : i < j => UM!Latest(t[i], t[j])
      /\ \A i, j \in 1..Len(t) : t[i] = t[j] => i = j
  BY PageFitsSearch
<1> HIDE DEF s, t
<1>2. ASSUME NEW i \in 2..Len(t), ~ UM!Blurred(t[i - 1], t[i])
      PROVE  \/ UM!Millisecond(t[i - 1]) > UM!Millisecond(t[i])
             \/ UM!Millisecond(t[i - 1]) = UM!Millisecond(t[i]) /\ t[i - 1] <= t[i]
  <2>1. i - 1 \in 1..Len(t) /\ i \in 1..Len(t) /\ i - 1 < i
    BY <1>1
  <2>2. t[i - 1] \in DirectoryUser /\ t[i] \in DirectoryUser /\ UM!Latest(t[i - 1], t[i])
    BY <1>1, <2>1
  <2>3. /\ t[i - 1] \in Nat /\ t[i] \in Nat
        /\ Created[t[i - 1]] \in Int /\ Created[t[i]] \in Int
    BY <2>2, DirectoryAssumption
  <2>4. \A x, y \in Int : x >= y => x \div 1000 >= y \div 1000
    OBVIOUS
  <2>5. /\ UM!Millisecond(t[i - 1]) \in Int /\ UM!Millisecond(t[i]) \in Int
        /\ UM!Millisecond(t[i - 1]) >= UM!Millisecond(t[i])
        /\ Created[t[i - 1]] = Created[t[i]] =>
             UM!Millisecond(t[i - 1]) = UM!Millisecond(t[i]) /\ t[i - 1] < t[i]
    BY <2>2, <2>3, <2>4 DEF UM!Latest, UM!Millisecond
  <2>6. CASE Created[t[i - 1]] = Created[t[i]]
    BY <2>3, <2>5, <2>6
  <2>7. CASE Created[t[i - 1]] > Created[t[i]]
    BY <1>2, <2>3, <2>5, <2>7 DEF UM!Blurred
  <2>8. QED
    BY <2>2, <2>3, <2>6, <2>7 DEF UM!Latest
<1>3. QED
  BY <1>1, <1>2 DEF UM!Accepted, s, t

\* What is shown of the accounts on a page.
LEMMA DisplayShows ==
  ASSUME NEW t \in Seq(DirectoryUser), UM_row \in [DirectoryUser -> UM!Row]
  PROVE  /\ UM!OnDisplay(t, UM_row) \in [DirectoryUser -> UM!Row]
         /\ \A i \in 1..Len(t) : UM!OnDisplay(t, UM_row)[t[i]] = UM_row[t[i]]
<1>1. UM!Admin \in UM!Row
  BY DirectoryAssumption DEF UM!Admin, UM!Row, UM!Access
<1>2. UM!OnDisplay(t, UM_row) \in [DirectoryUser -> UM!Row]
  BY <1>1 DEF UM!OnDisplay
<1>3. ASSUME NEW i \in 1..Len(t) PROVE UM!OnDisplay(t, UM_row)[t[i]] = UM_row[t[i]]
  <2>1. t[i] \in DirectoryUser /\ UM!Contains(t, t[i])
    BY DEF UM!Contains
  <2>2. QED
    BY <2>1 DEF UM!OnDisplay
<1>4. QED
  BY <1>2, <1>3

\* The rows on display, of a page that is accepted or refused.
LEMMA DisplayedFits ==
  ASSUME NEW f, NEW q \in Nat \ {0}, UM_row \in [DirectoryUser -> UM!Row],
         NEW shown \in BOOLEAN
  PROVE  LET t == IF shown THEN UM!PageOf(UM!Matching(f), q) ELSE <<>>
         IN  /\ t \in Seq(DirectoryUser)
             /\ \A i, j \in 1..Len(t) : t[i] = t[j] => i = j
             /\ UM!OnDisplay(t, UM_row) \in [DirectoryUser -> UM!Row]
             /\ \A i \in 1..Len(t) : UM!Matches(UM!OnDisplay(t, UM_row)[t[i]], f)
<1> DEFINE t == IF shown THEN UM!PageOf(UM!Matching(f), q) ELSE <<>>
<1>1. /\ t \in Seq(DirectoryUser)
      /\ \A i, j \in 1..Len(t) : t[i] = t[j] => i = j
      /\ \A i \in 1..Len(t) : UM!Matches(UM_row[t[i]], f)
  <2>1. CASE shown
    BY <2>1, PageFitsSearch
  <2>2. CASE ~ shown
    BY <2>2
  <2>3. QED
    BY <2>1, <2>2
<1> HIDE DEF t
<1>2. /\ UM!OnDisplay(t, UM_row) \in [DirectoryUser -> UM!Row]
      /\ \A i \in 1..Len(t) : UM!OnDisplay(t, UM_row)[t[i]] = UM_row[t[i]]
  BY <1>1, DisplayShows
<1>3. \A i \in 1..Len(t) : UM!Matches(UM!OnDisplay(t, UM_row)[t[i]], f)
  BY <1>1, <1>2
<1>4. QED
  BY <1>1, <1>2, <1>3 DEF t

\* Without one of its rows, a list is in the same order.
LEMMA RemoveFirstRemoves ==
  ASSUME NEW s \in Seq(DirectoryUser), NEW k \in 1..Len(s),
         \A i, j \in 1..Len(s) : s[i] = s[j] => i = j
  PROVE  LET t == UM!RemoveFirst(s, s[k])
         IN  /\ t \in Seq(DirectoryUser)
             /\ \A i \in 1..Len(t) : IF i < k THEN i \in 1..Len(s) /\ t[i] = s[i]
                                     ELSE i + 1 \in 1..Len(s) /\ t[i] = s[i + 1]
<1> DEFINE I == {i \in 1..Len(s) : s[i] = s[k]}
           a == SubSeq(s, 1, k - 1)
           b == SubSeq(s, k + 1, Len(s))
<1>1. I = {k}
  OBVIOUS
<1>2. UM!Min(I) = k
  BY <1>1 DEF UM!Min
<1>3. UM!SelectInSeq(s, LAMBDA v : v = s[k]) = k
  BY <1>1, <1>2 DEF UM!SelectInSeq
<1>4. UM!RemoveFirst(s, s[k]) = a \o b
  BY <1>3 DEF UM!RemoveFirst, UM!RemoveAt
<1>5. Len(s) \in Nat /\ k \in Nat \ {0} /\ k <= Len(s)
  OBVIOUS
<1>6. /\ a \in Seq(DirectoryUser) /\ Len(a) = k - 1
      /\ \A i \in 1..(k - 1) : a[i] = s[i]
  <2>1. \A c \in Nat : c <= Len(s) =>
          /\ SubSeq(s, 1, c) \in Seq(DirectoryUser) /\ Len(SubSeq(s, 1, c)) = c
          /\ \A i \in 1..c : SubSeq(s, 1, c)[i] = s[i]
    OBVIOUS
  <2>2. k - 1 \in Nat /\ k - 1 <= Len(s)
    BY <1>5
  <2>3. QED
    BY <2>1, <2>2
<1>7. /\ b \in Seq(DirectoryUser) /\ Len(b) = Len(s) - k
      /\ \A i \in 1..(Len(s) - k) : b[i] = s[k + i]
  <2>1. \A c \in Nat \ {0} : c <= Len(s) + 1 =>
          /\ SubSeq(s, c, Len(s)) \in Seq(DirectoryUser) /\ Len(SubSeq(s, c, Len(s))) = Len(s) - c + 1
          /\ \A i \in 1..(Len(s) - c + 1) : SubSeq(s, c, Len(s))[i] = s[c + i - 1]
    OBVIOUS
  <2>2. k + 1 \in Nat \ {0} /\ k + 1 <= Len(s) + 1 /\ Len(s) - (k + 1) + 1 = Len(s) - k
    BY <1>5
  <2>3. \A i \in 1..(Len(s) - k) : k + 1 + i - 1 = k + i
    BY <1>5
  <2>4. /\ b \in Seq(DirectoryUser) /\ Len(b) = Len(s) - (k + 1) + 1
        /\ \A i \in 1..(Len(s) - (k + 1) + 1) : b[i] = s[k + 1 + i - 1]
    BY <2>1, <2>2
  <2>5. QED
    BY <2>2, <2>3, <2>4
<1> HIDE DEF a, b
<1>8. /\ a \o b \in Seq(DirectoryUser) /\ Len(a \o b) = Len(a) + Len(b)
      /\ \A i \in 1..Len(a \o b) : (a \o b)[i] = IF i <= Len(a) THEN a[i] ELSE b[i - Len(a)]
  <2>1. \A x, y \in Seq(DirectoryUser) :
          /\ x \o y \in Seq(DirectoryUser) /\ Len(x \o y) = Len(x) + Len(y)
          /\ \A i \in 1..(Len(x) + Len(y)) :
               (x \o y)[i] = IF i <= Len(x) THEN x[i] ELSE y[i - Len(x)]
    OBVIOUS
  <2>2. a \in Seq(DirectoryUser) /\ b \in Seq(DirectoryUser)
    BY <1>6, <1>7
  <2>3. QED
    BY <2>1, <2>2
<1>9. ASSUME NEW i \in 1..Len(a \o b)
      PROVE  IF i < k THEN i \in 1..Len(s) /\ (a \o b)[i] = s[i]
             ELSE i + 1 \in 1..Len(s) /\ (a \o b)[i] = s[i + 1]
  <2>1. i \in Nat /\ 1 <= i /\ i <= Len(s) - 1
    BY <1>5, <1>6, <1>7, <1>8
  <2>2. CASE i < k
    BY <1>5, <1>6, <1>8, <2>1, <2>2
  <2>3. CASE ~ (i < k)
    <3>1. ~ (i <= Len(a)) /\ i - Len(a) \in 1..(Len(s) - k) /\ k + (i - Len(a)) = i + 1
      BY <1>5, <1>6, <2>1, <2>3
    <3>2. (a \o b)[i] = s[i + 1]
      BY <1>7, <1>8, <3>1
    <3>3. QED
      BY <1>5, <2>1, <2>3, <3>2
  <2>4. QED
    BY <2>2, <2>3
<1>10. QED
  BY <1>4, <1>8, <1>9

LEMMA AdminIsRow == UM!Admin \in UM!Row
BY DirectoryAssumption DEF UM!Admin, UM!Row, UM!Access

LEMMA NothingPending ==
  /\ UM!NoChange \notin UM!Change
  /\ \A c \in UM!Change : c.user \in DirectoryUser
BY DEF UM!NoChange, UM!Change

LEMMA PagesExist == \A n \in Nat : UM!LastPage(n) \in Nat \ {0}
<1>1. \A n \in Nat \ {0}, p \in Nat \ {0} : (n + p - 1) \div p \in Nat \ {0}
  OBVIOUS
<1>2. QED
  BY <1>1, DirectoryAssumption DEF UM!LastPage, UM!Pages

\* A page as a server renders it.
LEMMA RenderedFits ==
  ASSUME NEW f \in Filter, NEW p \in Nat \ {0}, UM_row \in [DirectoryUser -> UM!Row],
         UM!Mounted(f, p)
  PROVE  UM!DirectoryInv'
<1> DEFINE s == UM!Matching(f)
<1>1. Len(s) \in 0..Cardinality(DirectoryUser) /\ 0 \in 0..Cardinality(DirectoryUser)
  BY SearchIsOrdered, DirectoryAssumption, FS_CardinalityType
<1>2. PICK q \in Nat \ {0}, ok \in BOOLEAN :
        /\ UM_filter' = f /\ UM_page' = q
        /\ UM_refused' = ~ ok
        /\ UM_users' = IF ok THEN UM!PageOf(s, q) ELSE <<>>
        /\ UM_seen' = UM!OnDisplay(UM_users', UM_row)
        /\ UM_total' = IF ok THEN Len(s) ELSE 0
  <2>1. Len(s) \in Nat
    BY <1>1
  <2>2. UM!LastPage(Len(s)) \in Nat \ {0}
    BY <2>1, PagesExist
  <2> DEFINE q == IF p > UM!LastPage(Len(s)) THEN UM!LastPage(Len(s)) ELSE p
  <2>3. q \in Nat \ {0}
    BY <2>2
  <2>4. /\ UM_filter' = f /\ UM_page' = q
        /\ UM_refused' = ~ UM!Accepted(UM!PageOf(s, q), Len(s), q)
        /\ UM_users' = IF UM_refused' THEN <<>> ELSE UM!PageOf(s, q)
        /\ UM_seen' = UM!OnDisplay(UM_users', UM_row)
        /\ UM_total' = IF UM_refused' THEN 0 ELSE Len(s)
    BY DEF UM!Mounted, UM!Rendered
  <2> HIDE DEF q, s
  <2>5. CASE UM!Accepted(UM!PageOf(s, q), Len(s), q)
    <3>1. UM_refused' = FALSE
      BY <2>4, <2>5
    <3>2. QED
      BY <2>3, <2>4, <3>1
  <2>6. CASE ~ UM!Accepted(UM!PageOf(s, q), Len(s), q)
    <3>1. UM_refused' = TRUE
      BY <2>4, <2>6
    <3>2. QED
      BY <2>3, <2>4, <3>1
  <2>7. QED
    BY <2>5, <2>6
<1>3. /\ UM_users' \in Seq(DirectoryUser)
      /\ \A i, j \in 1..Len(UM_users') : UM_users'[i] = UM_users'[j] => i = j
      /\ UM_seen' \in [DirectoryUser -> UM!Row]
      /\ \A i \in 1..Len(UM_users') : UM!Matches(UM_seen'[UM_users'[i]], UM_filter')
  BY <1>2, DisplayedFits
<1>4. /\ UM_row' = UM_row /\ UM_pending' = UM!NoChange
      /\ UM_answer' = "none" /\ UM_returned' = UM!Admin
  BY DEF UM!Mounted
<1>5. UM_total' \in 0..Cardinality(DirectoryUser) /\ UM_refused' \in BOOLEAN
  BY <1>1, <1>2
<1>6. UM!TypeOK'
  BY <1>2, <1>3, <1>4, <1>5, AdminIsRow, AccountsAreCounted DEF UM!TypeOK
<1>7. UM!OneRowEach' /\ UM!RowsFit' /\ UM!DialogFits'
  BY <1>3, <1>4 DEF UM!OneRowEach, UM!RowsFit, UM!DialogFits
<1>8. QED
  BY <1>6, <1>7 DEF UM!DirectoryInv

LEMMA DirectoryStarts == UM!Init => UM!DirectoryInv
<1> SUFFICES ASSUME UM!Init PROVE UM!DirectoryInv
  OBVIOUS
<1> DEFINE s == UM!Matching(UM_filter)
           ok == UM!Accepted(UM!PageOf(s, 1), Len(s), 1)
<1>1. /\ UM_row \in [DirectoryUser -> UM!Row] /\ UM_filter \in Filter /\ UM_page = 1
      /\ UM_refused = ~ ok
      /\ UM_users = IF UM_refused THEN <<>> ELSE UM!PageOf(s, 1)
      /\ UM_seen = UM!OnDisplay(UM_users, UM_row)
      /\ UM_total = IF UM_refused THEN 0 ELSE Len(s)
      /\ UM_pending = UM!NoChange /\ UM_answer = "none" /\ UM_returned = UM!Admin
  BY DEF UM!Init
<1>2. Len(s) \in 0..Cardinality(DirectoryUser) /\ 0 \in 0..Cardinality(DirectoryUser)
  BY SearchIsOrdered, DirectoryAssumption, FS_CardinalityType
<1> HIDE DEF s, ok
<1>3. PICK shown \in BOOLEAN : UM_refused = ~ shown
  <2>1. ok \/ ~ ok
    OBVIOUS
  <2>2. QED
    BY <1>1, <2>1
<1>4. UM_users = IF shown THEN UM!PageOf(UM!Matching(UM_filter), 1) ELSE <<>>
  BY <1>1, <1>3 DEF s
<1>5. /\ UM_users \in Seq(DirectoryUser)
      /\ \A i, j \in 1..Len(UM_users) : UM_users[i] = UM_users[j] => i = j
      /\ UM_seen \in [DirectoryUser -> UM!Row]
      /\ \A i \in 1..Len(UM_users) : UM!Matches(UM_seen[UM_users[i]], UM_filter)
  <2>1. UM_row \in [DirectoryUser -> UM!Row] /\ UM_seen = UM!OnDisplay(UM_users, UM_row)
    BY <1>1
  <2>2. QED
    BY <1>4, <2>1, DisplayedFits
<1>6. UM_total \in 0..Cardinality(DirectoryUser) /\ UM_refused \in BOOLEAN
  BY <1>1, <1>2, <1>3
<1>7. UM!TypeOK
  BY <1>1, <1>5, <1>6, AdminIsRow, AccountsAreCounted DEF UM!TypeOK
<1>8. UM!OneRowEach /\ UM!RowsFit /\ UM!DialogFits
  BY <1>1, <1>5 DEF UM!OneRowEach, UM!RowsFit, UM!DialogFits
<1>9. QED
  BY <1>7, <1>8 DEF UM!DirectoryInv

LEMMA DirectoryStutters == UM!DirectoryInv /\ UNCHANGED UMvars => UM!DirectoryInv'
BY DEF UMvars, UM!DirectoryInv, UM!TypeOK, UM!OneRowEach, UM!RowsFit, UM!DialogFits

LEMMA SearchKeepsDirectory ==
  ASSUME UM!DirectoryInv, NEW f \in Filter, UM!Search(f) PROVE UM!DirectoryInv'
<1>1. UM_row \in [DirectoryUser -> UM!Row]
  BY DEF UM!DirectoryInv, UM!TypeOK
<1>2. QED
  BY <1>1, RenderedFits DEF UM!Search

LEMMA TryAgainKeepsDirectory == UM!DirectoryInv /\ UM!TryAgain => UM!DirectoryInv'
<1>1. UM!DirectoryInv => /\ UM_row \in [DirectoryUser -> UM!Row]
                         /\ UM_filter \in Filter /\ UM_page \in Nat \ {0}
  BY DEF UM!DirectoryInv, UM!TypeOK
<1>2. QED
  BY <1>1, RenderedFits DEF UM!TryAgain

LEMMA FollowKeepsDirectory ==
  ASSUME UM!DirectoryInv, NEW f \in Filter, NEW p \in Nat, UM!Follow(f, p)
  PROVE  UM!DirectoryInv'
<1> DEFINE everyone == [role |-> AnyValue, access |-> AnyValue]
<1>1. /\ f = UM_filter \/ f = everyone
      /\ p \in Nat \ {0}
      /\ \/ /\ UM_filter' = f /\ UM_page' = p
            /\ UNCHANGED <<UM_row, UM_users, UM_seen, UM_total, UM_refused>>
            /\ UNCHANGED <<UM_pending, UM_answer, UM_returned>>
         \/ UM!Mounted(f, p)
  BY DEF UM!Follow, UM!dialog
<1>2. CASE UM!Mounted(f, p)
  <2>1. UM_row \in [DirectoryUser -> UM!Row]
    BY DEF UM!DirectoryInv, UM!TypeOK
  <2>2. QED
    BY <1>1, <1>2, <2>1, RenderedFits
<1>3. CASE /\ UM_filter' = f /\ UM_page' = p
           /\ UNCHANGED <<UM_row, UM_users, UM_seen, UM_total, UM_refused>>
           /\ UNCHANGED <<UM_pending, UM_answer, UM_returned>>
  <2>1. \A a : UM!Matches(a, everyone)
    BY DEF UM!Matches
  <2>2. UM!RowsFit'
    BY <1>1, <1>3, <2>1 DEF UM!DirectoryInv, UM!RowsFit
  <2>3. UM!TypeOK' /\ UM!OneRowEach' /\ UM!DialogFits'
    BY <1>1, <1>3 DEF UM!DirectoryInv, UM!TypeOK, UM!OneRowEach, UM!DialogFits
  <2>4. QED
    BY <2>2, <2>3 DEF UM!DirectoryInv
<1>4. QED
  BY <1>1, <1>2, <1>3

LEMMA DialogKeepsDirectory ==
  /\ UM!DirectoryInv
  /\ \/ \E c \in UM!Change : UM!Begin(c)
     \/ UM!Close \/ UM!Confirm \/ UM!Lose \/ UM!Fail
  => UM!DirectoryInv'
<1> SUFFICES ASSUME UM!DirectoryInv,
                    \/ \E c \in UM!Change : UM!Begin(c)
                    \/ UM!Close \/ UM!Confirm \/ UM!Lose \/ UM!Fail
             PROVE  UM!DirectoryInv'
  OBVIOUS
<1>1. UNCHANGED <<UM_row, UM_filter, UM_page, UM_users, UM_seen, UM_total, UM_refused>>
  BY DEF UM!Begin, UM!Close, UM!Confirm, UM!Lose, UM!Fail, UM!directory
<1>2. UM!OneRowEach' /\ UM!RowsFit'
  BY <1>1 DEF UM!DirectoryInv, UM!OneRowEach, UM!RowsFit
<1>3. UM!TypeOK /\ UM!DialogFits
  BY DEF UM!DirectoryInv
<1>4. UM!TypeOK'
  <2>1. CASE \E c \in UM!Change : UM!Begin(c)
    BY <1>1, <1>3, <2>1, NothingPending DEF UM!TypeOK, UM!Begin
  <2>2. CASE UM!Close \/ UM!Confirm
    BY <1>1, <1>3, <2>2 DEF UM!TypeOK, UM!Close, UM!Confirm
  <2>3. CASE UM!Lose
    BY <1>1, <1>3, <2>3, AdminIsRow DEF UM!TypeOK, UM!Lose
  <2>4. CASE UM!Fail
    BY <1>1, <1>3, <2>4 DEF UM!TypeOK, UM!Fail
  <2>5. QED
    BY <2>1, <2>2, <2>3, <2>4
<1>5. UM!DialogFits'
  BY <1>1, <1>3 DEF UM!DialogFits, UM!Contains, UM!Begin, UM!Close, UM!Confirm, UM!Lose, UM!Fail
<1>6. QED
  BY <1>2, <1>4, <1>5 DEF UM!DirectoryInv

LEMMA ServeKeepsDirectory == UM!DirectoryInv /\ UM!Serve => UM!DirectoryInv'
<1> SUFFICES ASSUME UM!DirectoryInv, UM!Serve PROVE UM!DirectoryInv'
  OBVIOUS
<1>1. /\ UNCHANGED <<UM_filter, UM_page, UM_users, UM_seen, UM_total, UM_refused, UM_pending>>
      /\ UM_answer' \in {"done", "failed"} /\ UM_pending # UM!NoChange
  BY DEF UM!Serve, UM!directory, UM!DirectoryInv, UM!TypeOK
<1>2. UM!OneRowEach' /\ UM!RowsFit' /\ UM!DialogFits'
  BY <1>1 DEF UM!DirectoryInv, UM!OneRowEach, UM!RowsFit, UM!DialogFits
<1>3. UM_row \in [DirectoryUser -> UM!Row] /\ UM_pending \in UM!Change /\ UM_returned \in UM!Row
  BY <1>1 DEF UM!DirectoryInv, UM!TypeOK
<1>4. UM!Apply(UM_pending) \in [DirectoryUser -> UM!Row]
  <2>1. \A r \in UM!Row : /\ \A v \in Roles : [r EXCEPT !["role"] = v] \in UM!Row
                          /\ \A v \in UM!Access : [r EXCEPT !["access"] = v] \in UM!Row
    BY DEF UM!Row
  <2>2. \/ UM_pending.field = "role" /\ UM_pending.value \in Roles
        \/ UM_pending.field = "access" /\ UM_pending.value \in UM!Access
    BY <1>3 DEF UM!Change
  <2>3. UM_pending.user \in DirectoryUser
    BY <1>3, NothingPending
  <2>4. [UM_row[UM_pending.user] EXCEPT ![UM_pending.field] = UM_pending.value] \in UM!Row
    BY <1>3, <2>1, <2>2, <2>3
  <2>5. QED
    BY <1>3, <2>3, <2>4 DEF UM!Apply
<1>5. UM_row' \in [DirectoryUser -> UM!Row] /\ UM_returned' \in UM!Row
  BY <1>3, <1>4, NothingPending DEF UM!Serve
<1>6. UM!TypeOK'
  BY <1>1, <1>5 DEF UM!DirectoryInv, UM!TypeOK
<1>7. QED
  BY <1>2, <1>6 DEF UM!DirectoryInv

LEMMA SucceedKeepsDirectory == UM!DirectoryInv /\ UM!Succeed => UM!DirectoryInv'
<1> SUFFICES ASSUME UM!DirectoryInv, UM!Succeed PROVE UM!DirectoryInv'
  OBVIOUS
<1> DEFINE u == UM_pending.user
<1>1. /\ UM_users \in Seq(DirectoryUser) /\ UM_seen \in [DirectoryUser -> UM!Row]
      /\ UM_returned \in UM!Row /\ UM_total \in 0..Cardinality(DirectoryUser)
      /\ UM_pending # UM!NoChange /\ UM_pending \in UM!Change
  BY AccountsAreCounted DEF UM!DirectoryInv, UM!TypeOK, UM!Succeed
<1>2. /\ \A i, j \in 1..Len(UM_users) : UM_users[i] = UM_users[j] => i = j
      /\ \A i \in 1..Len(UM_users) : UM!Matches(UM_seen[UM_users[i]], UM_filter)
  BY DEF UM!DirectoryInv, UM!OneRowEach, UM!RowsFit
<1>3. PICK k \in 1..Len(UM_users) : UM_users[k] = u
  BY <1>1 DEF UM!DirectoryInv, UM!DialogFits, UM!Contains
<1>4. u \in DirectoryUser
  BY <1>1, NothingPending
<1> HIDE DEF u
<1>5. /\ UM_seen' = UM!OnDisplay(UM_users', [UM_seen EXCEPT ![u] = UM_returned])
      /\ UM_pending' = UM!NoChange /\ UM_answer' = "none" /\ UM_returned' = UM!Admin
      /\ UNCHANGED <<UM_row, UM_filter, UM_page, UM_refused>>
  BY DEF UM!Succeed, u
<1>6. /\ UM_users' \in Seq(DirectoryUser)
      /\ UM_total' \in 0..Cardinality(DirectoryUser)
      /\ \A i, j \in 1..Len(UM_users') : UM_users'[i] = UM_users'[j] => i = j
      /\ \A i \in 1..Len(UM_users') :
           /\ \E j \in 1..Len(UM_users) : UM_users'[i] = UM_users[j]
           /\ UM_users'[i] = u => UM!Stays
  <2>1. CASE UM!Stays
    BY <1>1, <1>2, <2>1 DEF UM!Succeed
  <2>2. CASE ~ UM!Stays
    <3>1. /\ UM_users' = UM!RemoveFirst(UM_users, UM_users[k])
          /\ UM_total' = IF UM_total = 0 THEN 0 ELSE UM_total - 1
      BY <1>3, <2>2 DEF UM!Succeed, u
    <3>2. UM_total' \in 0..Cardinality(DirectoryUser)
      <4>1. \A n, m \in Nat : m <= n => (IF m = 0 THEN 0 ELSE m - 1) \in 0..n
        OBVIOUS
      <4>2. Cardinality(DirectoryUser) \in Nat
        BY DirectoryAssumption, FS_CardinalityType
      <4>3. QED
        BY <1>1, <3>1, <4>1, <4>2
    <3>3. /\ UM_users' \in Seq(DirectoryUser)
          /\ \A i \in 1..Len(UM_users') :
               IF i < k THEN i \in 1..Len(UM_users) /\ UM_users'[i] = UM_users[i]
               ELSE i + 1 \in 1..Len(UM_users) /\ UM_users'[i] = UM_users[i + 1]
      BY <1>1, <1>2, <3>1, RemoveFirstRemoves
    <3>4. ASSUME NEW i \in 1..Len(UM_users')
          PROVE  /\ \E j \in 1..Len(UM_users) : UM_users'[i] = UM_users[j]
                 /\ UM_users'[i] # u
      <4>1. PICK j \in 1..Len(UM_users) : UM_users'[i] = UM_users[j] /\ j # k
        BY <3>3
      <4>2. QED
        BY <1>2, <1>3, <4>1
    <3>5. ASSUME NEW i \in 1..Len(UM_users'), NEW j \in 1..Len(UM_users'), UM_users'[i] = UM_users'[j]
          PROVE  i = j
      <4>1. CASE i < k /\ j < k
        BY <1>2, <3>3, <3>5, <4>1
      <4>2. CASE ~ (i < k) /\ ~ (j < k)
        <5>1. i + 1 = j + 1
          BY <1>2, <3>3, <3>5, <4>2
        <5>2. QED
          BY <5>1
      <4>3. CASE i < k /\ ~ (j < k)
        <5>1. i = j + 1
          BY <1>2, <3>3, <3>5, <4>3
        <5>2. QED
          BY <4>3, <5>1
      <4>4. CASE ~ (i < k) /\ j < k
        <5>1. i + 1 = j
          BY <1>2, <3>3, <3>5, <4>4
        <5>2. QED
          BY <4>4, <5>1
      <4>5. QED
        BY <4>1, <4>2, <4>3, <4>4
    <3>6. QED
      BY <3>2, <3>3, <3>4, <3>5
  <2>3. QED
    BY <2>1, <2>2
<1>7. UM_seen' \in [DirectoryUser -> UM!Row]
  <2>1. [UM_seen EXCEPT ![u] = UM_returned] \in [DirectoryUser -> UM!Row]
    BY <1>1, <1>4
  <2>2. QED
    BY <1>5, <2>1, AdminIsRow DEF UM!OnDisplay
<1>8. ASSUME NEW i \in 1..Len(UM_users') PROVE UM!Matches(UM_seen'[UM_users'[i]], UM_filter')
  <2>1. UM_users'[i] \in DirectoryUser /\ UM!Contains(UM_users', UM_users'[i])
    BY <1>6 DEF UM!Contains
  <2>2. UM_seen'[UM_users'[i]] = [UM_seen EXCEPT ![u] = UM_returned][UM_users'[i]]
    BY <1>5, <2>1 DEF UM!OnDisplay
  <2>3. CASE UM_users'[i] = u
    <3>1. UM!Matches(UM_returned, UM_filter)
      BY <1>6, <2>3 DEF UM!Stays
    <3>2. UM_seen'[UM_users'[i]] = UM_returned
      BY <1>1, <1>4, <2>2, <2>3
    <3>3. QED
      BY <1>5, <3>1, <3>2
  <2>4. CASE UM_users'[i] # u
    <3>1. UM_seen'[UM_users'[i]] = UM_seen[UM_users'[i]]
      BY <1>1, <2>1, <2>2, <2>4
    <3>2. QED
      BY <1>2, <1>5, <1>6, <3>1
  <2>5. QED
    BY <2>3, <2>4
<1>9. UM!TypeOK'
  BY <1>5, <1>6, <1>7, AdminIsRow, AccountsAreCounted DEF UM!DirectoryInv, UM!TypeOK
<1>10. UM!OneRowEach' /\ UM!RowsFit' /\ UM!DialogFits'
  BY <1>5, <1>6, <1>8 DEF UM!OneRowEach, UM!RowsFit, UM!DialogFits
<1>11. QED
  BY <1>9, <1>10 DEF UM!DirectoryInv

LEMMA OthersKeepDirectory ==
  ASSUME UM!DirectoryInv, NEW u \in Elsewhere, UM!OthersChange(u) PROVE UM!DirectoryInv'
<1>1. UNCHANGED <<UM_filter, UM_page, UM_users, UM_seen, UM_total, UM_refused, UM_pending,
                 UM_answer, UM_returned>>
  BY DEF UM!OthersChange, UM!directory, UM!dialog
<1>2. UM_row' \in [DirectoryUser -> UM!Row]
  BY DEF UM!OthersChange, UM!DirectoryInv, UM!TypeOK
<1>3. QED
  BY <1>1, <1>2 DEF UM!DirectoryInv, UM!TypeOK, UM!OneRowEach, UM!RowsFit, UM!DialogFits

LEMMA DirectoryStep == UM!DirectoryInv /\ UM!Next => UM!DirectoryInv'
<1> SUFFICES ASSUME UM!DirectoryInv, UM!Next PROVE UM!DirectoryInv'
  OBVIOUS
<1>1. CASE \E f \in Filter : UM!Search(f) \/ \E p \in 1..UM!Cardinality(DirectoryUser) : UM!Follow(f, p)
  <2>1. PICK f \in Filter : UM!Search(f) \/ \E p \in 1..UM!Cardinality(DirectoryUser) : UM!Follow(f, p)
    BY <1>1
  <2>2. CASE UM!Search(f)
    BY <2>2, SearchKeepsDirectory
  <2>3. CASE \E p \in 1..UM!Cardinality(DirectoryUser) : UM!Follow(f, p)
    BY <2>3, FollowKeepsDirectory
  <2>4. QED
    BY <2>1, <2>2, <2>3
<1>2. CASE \/ \E c \in UM!Change : UM!Begin(c)
           \/ UM!Close \/ UM!Confirm \/ UM!Lose \/ UM!Fail
  BY <1>2, DialogKeepsDirectory
<1>3. CASE UM!Serve
  BY <1>3, ServeKeepsDirectory
<1>4. CASE UM!Succeed
  BY <1>4, SucceedKeepsDirectory
<1>5. CASE \E u \in Elsewhere : UM!OthersChange(u)
  BY <1>5, OthersKeepDirectory
<1>6. CASE UM!TryAgain
  BY <1>6, TryAgainKeepsDirectory
<1>7. QED
  BY <1>1, <1>2, <1>3, <1>4, <1>5, <1>6 DEF UM!Next

LEMMA StepOfUsers == [Next]_vars => UM!Next \/ UNCHANGED UMvars
BY DEF Next, vars, Still, UMvars

LEMMA DirectoryFits == Spec => []UM!DirectoryInv
<1>1. Init => UM!DirectoryInv
  BY DirectoryStarts DEF Init
<1>2. UM!DirectoryInv /\ [Next]_vars => UM!DirectoryInv'
  BY StepOfUsers, DirectoryStep, DirectoryStutters
<1>3. QED
  BY <1>1, <1>2, PTL DEF Spec

\* The page of the user directory that is on display belongs to the search in
\* use: every row passes its filter (matchesFilters), however the answer of a
\* change, the changes of others and the links of the page follow each other;
\* and the browser refuses a page of a search only for two neighbours that were
\* created within one millisecond, the greater id later (parseAdminUserPage
\* against findForAdministration).
THEOREM DirectoryPagesFit == Spec => []PageFitsTheSearch
<1>1. UM!DirectoryInv => PageFitsTheSearch
  <2> SUFFICES ASSUME UM!DirectoryInv PROVE PageFitsTheSearch
    OBVIOUS
  <2>1. \A i \in 1..Len(UM_users) : UM!Matches(UM_seen[UM_users[i]], UM_filter)
    BY DEF UM!DirectoryInv, UM!RowsFit
  <2>2. Cardinality(DirectoryUser) \in Nat
    BY DirectoryAssumption, FS_CardinalityType
  <2>3. ASSUME NEW f \in Filter, NEW p \in 1..(Cardinality(DirectoryUser) + 1)
        PROVE  LET s == UM!Matching(f)
                   t == UM!PageOf(s, p)
               IN  \/ UM!Accepted(t, Len(s), p)
                   \/ \E i \in 2..Len(t) : UM!Blurred(t[i - 1], t[i])
    BY <2>2, PagesAreAccepted
  <2>4. QED
    BY <2>1, <2>3, AccountsAreCounted DEF PageFitsTheSearch, UM!PageFitsTheSearch
<1>2. QED
  BY <1>1, DirectoryFits, PTL

\* Every tab and every script keeps its types: among them that a page behind the
\* sign-in is shown to an account that exists, that a connected socket is that
\* of one (the guards of the pages, handleConnection), and that a booking of an
\* import and a message on its way are always complete.
THEOREM PartsAreTyped == Spec => []TypeOK
<1>1. /\ RP!RoomsInv => RP!TypeOK
      /\ RM!EditorInv => RM!TypeOK
      /\ UM!DirectoryInv => UM!TypeOK
      /\ BP!PageInv => BP!TypeOK
      /\ SE!SessionInv => SE!TypeOK
      /\ CI!ImportInv => CI!TypeOK
  BY DEF RP!RoomsInv, RM!EditorInv, UM!DirectoryInv, BP!PageInv, SE!SessionInv, CI!ImportInv
<1>2. RP!TypeOK /\ RM!TypeOK /\ UM!TypeOK /\ BP!TypeOK /\ SE!TypeOK /\ CI!TypeOK => TypeOK
  BY DEF TypeOK
<1>3. QED
  BY <1>1, <1>2, RoomsFit, EditorFits, DirectoryFits, PageFits, SessionFits, ImportFits, PTL
=============================================================================
