------------------------------ MODULE Storage ------------------------------
(***************************************************************************)
(* The storage library (src/storage): revisions of an object list which    *)
(* share reference-counted object states.                                  *)
(*                                                                         *)
(* A revision maps objects to object states (`obstates'), each object to   *)
(* the object it is attached to (`parent'), and each object to the ordered *)
(* list of the objects attached to it (`children', entry NULL: the         *)
(* unattached ones).  A missing `children' entry and an empty one mean the *)
(* same to every function of the library and are not told apart.           *)
(*                                                                         *)
(* The library is called by one thread at a time.  A function whose effect *)
(* is a single update is one action; one that loops over objects           *)
(* (xorn_copy_object[s], xorn_delete_selected_objects) is entered by one   *)
(* action, makes one step per object and returns by another, `call'        *)
(* holding its local variables, so that an allocation may fail between any *)
(* two of its objects.  A call which reports an error before it has        *)
(* touched anything is a stuttering step and has no action.                *)
(***************************************************************************)
EXTENDS Integers, Sequences, FiniteSets, SequencesExt

CONSTANTS
  Rev,        \* revision handles
  Addr,       \* heap addresses at which an obstate can live
  MaxObject,  \* bound: how many object ids are ever handed out
  Types,      \* object types
  Text,       \* xornsch_obtype_text, the one type which can be attached
  Holders,    \* xornsch_obtype_net and _component, which can be attached to
  Data,       \* object data
  ValidData,  \* the <<type, data>> pairs which data_is_valid accepts
  Normal,     \* what is left of valid data when unused fields are zeroed
  Setters,    \* the set_attr<Attr> instantiations, each with its value
  None        \* no revision, no address, no object state

NULL == 0
Absent == -1
Object == 1..MaxObject
Node == 0..MaxObject
Value == Types \X Data

ASSUME StorageAssumption ==
  /\ MaxObject \in Nat
  /\ IsFiniteSet(Rev) /\ IsFiniteSet(Addr)
  /\ None \notin Rev /\ None \notin Addr /\ None \notin Value
  /\ Text \in Types /\ Holders \subseteq Types /\ Text \notin Holders
  /\ ValidData \subseteq Value
  /\ \A v \in ValidData : <<v[1], Normal[v]>> \in ValidData
  /\ \A f \in Setters : DOMAIN f \subseteq Value /\ \A v \in DOMAIN f : f[v] \in Data

VARIABLES
  live,            \* revisions which have been created and not freed
  is_transient,    \* can the revision be changed?
  obstates,        \* [Rev -> [Object -> Addr or None]]
  parent,          \* [Rev -> [Object -> Node or Absent]]
  children,        \* [Rev -> [Node -> Seq(Object)]]
  refcnt,          \* obstate::refcnt; zero: the address is free
  cell,            \* obstate::type and obstate::data; None: free memory
  next_object_id,  \* the global counter behind all object handles
  handles,         \* objects some call has made known to the caller
  call,            \* local variables of the function in progress
  entry            \* history variable: what call.dst held on entry

revVars == <<live, is_transient, obstates, parent, children>>
heapVars == <<refcnt, cell>>
vars == <<revVars, heapVars, next_object_id, handles, call, entry>>

Idle == [pc |-> "idle", dst |-> None, src |-> None, multi |-> FALSE,
         work |-> <<>>, list |-> <<>>]

NoObstates == [ob \in Object |-> None]
NoParents == [ob \in Object |-> Absent]
NoChildren == [n \in Node |-> <<>>]

Init ==
  /\ live = {}
  /\ is_transient = [r \in Rev |-> FALSE]
  /\ obstates = [r \in Rev |-> NoObstates]
  /\ parent = [r \in Rev |-> NoParents]
  /\ children = [r \in Rev |-> NoChildren]
  /\ refcnt = [p \in Addr |-> 0]
  /\ cell = [p \in Addr |-> None]
  /\ next_object_id = 0
  /\ handles = {}
  /\ call = Idle
  /\ entry = None

-----------------------------------------------------------------------------
(* Looking at a revision *)

Exists(r, ob) == obstates[r][ob] # None
ValueOf(r, ob) == IF Exists(r, ob) THEN cell[obstates[r][ob]] ELSE None
TypeOf(r, ob) == cell[obstates[r][ob]][1]

\* What a caller can see of a revision.
Contents(r) == [value |-> [ob \in Object |-> ValueOf(r, ob)],
                children |-> children[r]]

\* How many objects of S does revision r keep at address p?
Count(r, S, p) == Cardinality({ob \in S : obstates[r][ob] = p})

IsFree(p) == refcnt[p] = 0

\* obstate::obstate makes a copy of the data and normalizes it.
obstate(v) == <<v[1], Normal[v]>>

\* An obstate whose last reference is dropped deletes itself.
Reclaim(cnt, c) == [p \in Addr |-> IF cnt[p] = 0 THEN None ELSE c[p]]

\* A call which may change revision r can be entered.
Callable(r) == call = Idle /\ r \in live /\ is_transient[r]

-----------------------------------------------------------------------------
(* revision.cc *)

xorn_new_revision(r) ==
  /\ call = Idle /\ r \notin live
  /\ live' = live \cup {r}
  /\ is_transient' = [is_transient EXCEPT ![r] = TRUE]
  /\ UNCHANGED <<obstates, parent, children, heapVars, next_object_id,
                 handles, call, entry>>

\* Mutant: the object states are shared without being counted.
CopyUncounted(r, from) ==
  /\ call = Idle /\ r \notin live /\ from \in live
  /\ live' = live \cup {r}
  /\ is_transient' = [is_transient EXCEPT ![r] = TRUE]
  /\ obstates' = [obstates EXCEPT ![r] = obstates[from]]
  /\ parent' = [parent EXCEPT ![r] = parent[from]]
  /\ children' = [children EXCEPT ![r] = children[from]]
  /\ UNCHANGED <<heapVars, next_object_id, handles, call, entry>>

\* The copy shares all object states with the original.
copy_revision(r, from) ==
  /\ call = Idle /\ r \notin live /\ from \in live
  /\ live' = live \cup {r}
  /\ is_transient' = [is_transient EXCEPT ![r] = TRUE]
  /\ obstates' = [obstates EXCEPT ![r] = obstates[from]]
  /\ parent' = [parent EXCEPT ![r] = parent[from]]
  /\ children' = [children EXCEPT ![r] = children[from]]
  /\ refcnt' = [p \in Addr |-> refcnt[p] + Count(from, Object, p)]
  /\ UNCHANGED <<cell, next_object_id, handles, call, entry>>

xorn_finalize_revision(r) ==
  /\ call = Idle /\ r \in live
  /\ is_transient' = [is_transient EXCEPT ![r] = FALSE]
  /\ UNCHANGED <<live, obstates, parent, children, heapVars, next_object_id,
                 handles, call, entry>>

xorn_free_revision(r) ==
  /\ call = Idle /\ r \in live
  /\ live' = live \ {r}
  /\ is_transient' = [is_transient EXCEPT ![r] = FALSE]
  /\ obstates' = [obstates EXCEPT ![r] = NoObstates]
  /\ parent' = [parent EXCEPT ![r] = NoParents]
  /\ children' = [children EXCEPT ![r] = NoChildren]
  /\ refcnt' = [p \in Addr |-> refcnt[p] - Count(r, Object, p)]
  /\ cell' = Reclaim(refcnt', cell)
  /\ UNCHANGED <<next_object_id, handles, call, entry>>

-----------------------------------------------------------------------------
(* manipulate.cc: single objects *)

\* Mutant: an object which has an object state already keeps it.
SetInPlace(r, ob, v) ==
  \E p \in Addr :
    /\ IF Exists(r, ob) THEN p = obstates[r][ob] ELSE IsFree(p)
    /\ obstates' = [obstates EXCEPT ![r][ob] = p]
    /\ refcnt' = [refcnt EXCEPT ![p] = IF Exists(r, ob) THEN @ ELSE 1]
    /\ cell' = [cell EXCEPT ![p] = obstate(v)]

\* The new obstate is allocated before the reference to the old one is dropped.
set_object_data(r, ob, v) ==
  \E p \in Addr :
    LET old == obstates[r][ob] IN
    /\ IsFree(p)
    /\ obstates' = [obstates EXCEPT ![r][ob] = p]
    /\ refcnt' = [q \in Addr |-> IF q = p THEN 1
                                 ELSE IF q = old THEN refcnt[q] - 1
                                 ELSE refcnt[q]]
    /\ cell' = Reclaim(refcnt', [cell EXCEPT ![p] = obstate(v)])

xorn_add_object(r, v) ==
  LET ob == next_object_id + 1 IN
  /\ Callable(r) /\ v \in ValidData /\ next_object_id < MaxObject
  /\ next_object_id' = ob
  /\ children' = [children EXCEPT ![r][NULL] = Append(@, ob)]
  /\ parent' = [parent EXCEPT ![r][ob] = NULL]
  /\ set_object_data(r, ob, v)
  /\ handles' = handles \cup {ob}
  /\ UNCHANGED <<live, is_transient, call, entry>>

\* Mutant: the id is given back, but the entry in `parent' stays.
AddObjectNotUndone(r, stage) ==
  /\ Callable(r) /\ next_object_id < MaxObject
  /\ parent' = IF stage < 3 THEN parent
               ELSE [parent EXCEPT ![r][next_object_id + 1] = NULL]
  /\ UNCHANGED <<live, is_transient, obstates, children, heapVars,
                 next_object_id, handles, call, entry>>

\* Running out of memory while growing `children' (1), `parent' (2) or in
\* set_object_data (3): what has been done so far is undone.  The id is lost.
AddObjectFails(r, stage) ==
  LET ob == next_object_id + 1 IN
  /\ Callable(r) /\ next_object_id < MaxObject
  /\ next_object_id' = ob
  /\ children' = IF stage = 1 THEN children
                 ELSE [children EXCEPT ![r][NULL] = Front(Append(@, ob))]
  /\ parent' = IF stage < 3 THEN parent
               ELSE [parent EXCEPT ![r][ob] = Absent]
  /\ UNCHANGED <<live, is_transient, obstates, heapVars, handles, call, entry>>

\* Mutant: something attached may become anything.
CanBecomeAnything(r, ob, t) == t \notin Holders => children[r][ob] = <<>>

\* May the object become one of type t where it is?
CanBecome(r, ob, t) ==
  /\ t \notin Holders => children[r][ob] = <<>>
  /\ t # Text => parent[r][ob] \in {Absent, NULL}

xorn_set_object_data(r, ob, v) ==
  /\ Callable(r) /\ ob \in handles /\ v \in ValidData
  /\ CanBecome(r, ob, v[1])
  /\ IF parent[r][ob] = Absent
     THEN /\ children' = [children EXCEPT ![r][NULL] = Append(@, ob)]
          /\ parent' = [parent EXCEPT ![r][ob] = NULL]
     ELSE UNCHANGED <<children, parent>>
  /\ set_object_data(r, ob, v)
  /\ UNCHANGED <<live, is_transient, next_object_id, handles, call, entry>>

\* As for AddObjectFails; there is something to undo only for a re-added object.
SetObjectDataFails(r, ob, stage) ==
  LET add == parent[r][ob] = Absent IN
  /\ Callable(r) /\ ob \in handles
  /\ children' = IF add /\ stage > 1
                 THEN [children EXCEPT ![r][NULL] = Front(Append(@, ob))]
                 ELSE children
  /\ parent' = IF add /\ stage = 3
               THEN [parent EXCEPT ![r][ob] = Absent]
               ELSE parent
  /\ UNCHANGED <<live, is_transient, obstates, heapVars, next_object_id,
                 handles, call, entry>>

\* The index at which an element first occurs; one past the end if it doesn't.
Find(s, x) ==
  IF \E i \in DOMAIN s : s[i] = x
  THEN CHOOSE i \in DOMAIN s : s[i] = x /\ \A j \in 1..(i - 1) : s[j] # x
  ELSE Len(s) + 1

\* Mutant: the old place is taken to be where it was before the insertion.
RelocatedUnshifted(c, old, new, ob, insert_before) ==
  LET inserted == [c EXCEPT ![new] = IF insert_before = NULL
                                     THEN Append(@, ob)
                                     ELSE InsertAt(@, Find(@, insert_before), ob)]
  IN [inserted EXCEPT ![old] = RemoveAt(@, Find(c[old], ob))]

\* The object is entered at its new place before it is removed from its old
\* one; if both are in the same list, the old place may have moved by one.
Relocated(c, old, new, ob, insert_before) ==
  LET i == Find(c[old], ob)
      j == Find(c[new], insert_before)
      pos == IF insert_before # NULL /\ new = old /\ j <= i THEN i + 1 ELSE i
      inserted == [c EXCEPT ![new] = IF insert_before = NULL
                                     THEN Append(@, ob)
                                     ELSE InsertAt(@, j, ob)]
  IN [inserted EXCEPT ![old] = RemoveAt(@, pos)]

\* Text can be attached to a net or component; anything can be detached.
CanRelocate(r, ob, attach_to, insert_before) ==
  /\ Exists(r, ob)
  /\ attach_to # NULL =>
       /\ TypeOf(r, ob) = Text
       /\ Exists(r, attach_to) /\ TypeOf(r, attach_to) \in Holders
  /\ insert_before # NULL => insert_before \in ToSet(children[r][attach_to])

xorn_relocate_object(r, ob, attach_to, insert_before) ==
  /\ Callable(r) /\ ob \in handles
  /\ CanRelocate(r, ob, attach_to, insert_before)
  /\ children' = [children EXCEPT ![r] =
                    Relocated(@, parent[r][ob], attach_to, ob, insert_before)]
  /\ parent' = [parent EXCEPT ![r][ob] = attach_to]
  /\ UNCHANGED <<live, is_transient, obstates, heapVars, next_object_id,
                 handles, call, entry>>

\* Mutant: attached objects are left alone.
DoomedAlone(c, ob) == {ob}

\* delete_object_but_leave_entry: the object and what is attached to it.  The
\* code recurses further; nothing is ever attached to an attached object
\* (AttachmentsTyped), so one level is all there is.
Doomed(c, ob) == {ob} \cup ToSet(c[ob])

\* The state of revision r after xorn_delete_object, given its children.
DeleteFrom(r, ob) ==
  LET doomed == Doomed(children[r], ob)
      above == parent[r][ob]
      emptied == [n \in Node |-> IF n \in doomed THEN <<>> ELSE children[r][n]]
  IN /\ obstates' = [obstates EXCEPT ![r] =
                       [o \in Object |-> IF o \in doomed THEN None ELSE @[o]]]
     /\ refcnt' = [p \in Addr |-> refcnt[p] - Count(r, doomed, p)]
     /\ cell' = Reclaim(refcnt', cell)
     /\ parent' = [parent EXCEPT ![r] =
                     [o \in Object |-> IF o \in doomed THEN Absent ELSE @[o]]]
     /\ children' = [children EXCEPT ![r] =
                       [emptied EXCEPT ![above] = RemoveAt(@, Find(@, ob))]]

xorn_delete_object(r, ob) ==
  /\ Callable(r) /\ ob \in handles /\ parent[r][ob] # Absent
  /\ DeleteFrom(r, ob)
  /\ UNCHANGED <<live, is_transient, next_object_id, handles, call, entry>>

-----------------------------------------------------------------------------
(* manipulate.cc: loops over objects *)

\* A set of objects is walked through in the order of their ids.
Ascending(s, S) ==
  /\ ToSet(s) = S
  /\ \A i, j \in DOMAIN s : i < j => s[i] < s[j]

Enter(pc, dst, src, multi, work, list) ==
  /\ call' = [pc |-> pc, dst |-> dst, src |-> src, multi |-> multi,
              work |-> work, list |-> list]
  /\ entry' = Contents(dst)
  /\ UNCHANGED <<revVars, heapVars, next_object_id, handles>>

Return(known) ==
  /\ call' = Idle
  /\ entry' = None
  /\ handles' = handles \cup known
  /\ UNCHANGED <<revVars, heapVars, next_object_id>>

xorn_delete_selected_objects(r, sel) ==
  /\ Callable(r)
  /\ \E s \in [1..Cardinality(sel) -> sel] :
       Ascending(s, sel) /\ Enter("deleting", r, None, FALSE, <<>>, s)

\* One iteration, of this loop or of the one which undoes a failed copy.
\* Objects which are not there (any more) are passed over.
DeleteNext ==
  LET r == call.dst
      ob == Head(call.list)
  IN /\ call.pc = "deleting" /\ call.list # <<>>
     /\ call' = [call EXCEPT !.list = Tail(@)]
     /\ IF parent[r][ob] # Absent
        THEN DeleteFrom(r, ob)
        ELSE UNCHANGED <<obstates, parent, children, heapVars>>
     /\ UNCHANGED <<live, is_transient, next_object_id, handles, entry>>

DeleteReturns ==
  /\ call.pc = "deleting" /\ call.list = <<>>
  /\ Return({})

xorn_copy_object(dst, src, ob) ==
  /\ Callable(dst) /\ src \in live /\ ob \in handles /\ Exists(src, ob)
  /\ Enter("copying", dst, src, FALSE, <<<<ob, NULL>>>>, <<>>)

xorn_copy_objects(dst, src, sel) ==
  /\ Callable(dst) /\ src \in live
  /\ LET found == {ob \in sel : Exists(src, ob)} IN
     \E s \in [1..Cardinality(found) -> found] :
       /\ Ascending(s, found)
       /\ Enter("copying", dst, src, TRUE,
                [i \in DOMAIN s |-> <<s[i], NULL>>], <<>>)

\* The objects attached to ob are to be copied next, and attached to its copy.
Attached(src, ob, copy) ==
  [i \in DOMAIN children[src][ob] |-> <<children[src][ob][i], copy>>]

\* One invocation of the recursive copy_object, up to its recursive calls; the
\* stack of calls to be made is call.work.  The copy shares the obstate.
copy_object ==
  LET dst == call.dst
      ob == Head(call.work)[1]
      attach_to == Head(call.work)[2]
      copy == next_object_id + 1
      state == obstates[call.src][ob]
  IN /\ call.pc = "copying" /\ call.work # <<>> /\ next_object_id < MaxObject
     /\ next_object_id' = copy
     /\ children' = [children EXCEPT ![dst][attach_to] = Append(@, copy)]
     /\ parent' = [parent EXCEPT ![dst][copy] = attach_to]
     /\ obstates' = [obstates EXCEPT ![dst][copy] = state]
     /\ refcnt' = [refcnt EXCEPT ![state] = @ + 1]
     /\ call' = [call EXCEPT
                   !.work = Attached(call.src, ob, copy) \o Tail(@),
                   !.list = Append(@, copy)]
     /\ UNCHANGED <<live, is_transient, cell, handles, entry>>

\* Mutant: what has been copied so far is left in the revision.
UndoNothing == call' = [call EXCEPT !.pc = "deleting", !.work = <<>>, !.list = <<>>]

Undo == call' = [call EXCEPT !.pc = "deleting", !.work = <<>>]

\* Running out of memory in copy_object while growing `children' (1), `parent'
\* (2), `obstates' (3) or `copied' (4, when the new object is complete and is
\* deleted again).  The caller then deletes the objects copied so far.
CopyObjectFails(stage) ==
  LET dst == call.dst
      attach_to == Head(call.work)[2]
      copy == next_object_id + 1
      state == obstates[call.src][Head(call.work)[1]]
      grown == Append(children[dst][attach_to], copy)
  IN /\ call.pc = "copying" /\ call.work # <<>> /\ next_object_id < MaxObject
     /\ next_object_id' = copy
     /\ children' = [children EXCEPT ![dst][attach_to] =
                       CASE stage = 1 -> @
                         [] stage \in {2, 3} -> Front(grown)
                         [] stage = 4 -> RemoveAt(grown, Find(grown, copy))]
     /\ parent' = IF stage < 3 THEN parent
                  ELSE [parent EXCEPT ![dst][copy] = Absent]
     /\ obstates' = IF stage < 4 THEN obstates
                    ELSE [obstates EXCEPT ![dst][copy] = None]
     /\ refcnt' = IF stage < 4 THEN refcnt
                  ELSE [refcnt EXCEPT ![state] = (@ + 1) - 1]
     /\ Undo
     /\ UNCHANGED <<live, is_transient, cell, handles, entry>>

\* xorn_copy_objects can't enter a copied object into the selection it
\* returns, or no more ids are left within the bound.
CopyObjectsFails ==
  /\ call.pc = "copying"
  /\ \/ /\ call.multi /\ call.list # <<>>
        /\ call.work # <<>> => Head(call.work)[2] = NULL
     \/ call.work # <<>> /\ next_object_id = MaxObject
  /\ Undo
  /\ UNCHANGED <<revVars, heapVars, next_object_id, handles, entry>>

CopyReturns ==
  /\ call.pc = "copying" /\ call.work = <<>>
  /\ Return(ToSet(call.list))

-----------------------------------------------------------------------------
(* attributes.cc: set_attr.  A setter f maps the values of the types which    *)
(* have the attribute to the data with the attribute changed.                 *)

\* Mutant: the changed data isn't checked.
AffectedUnchecked(r, sel, f) ==
  {ob \in sel : Exists(r, ob) /\ ValueOf(r, ob) \in DOMAIN f}

\* Objects whose data would become invalid are silently passed over.
Affected(r, sel, f) ==
  {ob \in sel : /\ Exists(r, ob)
                /\ ValueOf(r, ob) \in DOMAIN f
                /\ <<TypeOf(r, ob), f[ValueOf(r, ob)]>> \in ValidData}

\* References are first taken on all object states (new_obstates), then moved
\* to new object states for the affected objects, then dropped by the revision.
set_attr(r, sel, f) ==
  LET affected == Affected(r, sel, f) IN
  /\ Callable(r)
  /\ \E new \in [affected -> Addr] :
       /\ \A ob \in affected : IsFree(new[ob])
       /\ \A o1, o2 \in affected : new[o1] = new[o2] => o1 = o2
       /\ obstates' = [obstates EXCEPT ![r] =
            [ob \in Object |-> IF ob \in affected THEN new[ob] ELSE @[ob]]]
       /\ refcnt' = [p \in Addr |->
            IF \E ob \in affected : p = new[ob] THEN 1
            ELSE (refcnt[p] + Count(r, Object, p))
                 - Count(r, affected, p) - Count(r, Object, p)]
       /\ cell' = Reclaim(refcnt', [p \in Addr |->
            IF \E ob \in affected : p = new[ob]
            THEN LET ob == CHOOSE o \in affected : p = new[o]
                 IN obstate(<<TypeOf(r, ob), f[ValueOf(r, ob)]>>)
            ELSE cell[p]])
  /\ UNCHANGED <<live, is_transient, parent, children, next_object_id,
                 handles, call, entry>>

\* Memory runs out when the objects in `done' have been moved: new_obstates is
\* given up, and with it the new object states, which nothing else refers to.
SetAttrFails(r, done) ==
  /\ Callable(r) /\ done \subseteq {ob \in Object : Exists(r, ob)}
  /\ refcnt' = [p \in Addr |->
       (refcnt[p] + Count(r, Object, p))
       - Count(r, done, p) - Count(r, Object \ done, p)]
  /\ cell' = Reclaim(refcnt', cell)
  /\ UNCHANGED <<revVars, next_object_id, handles, call, entry>>

-----------------------------------------------------------------------------

RevisionCall ==
  \E r \in Rev :
    \/ xorn_new_revision(r)
    \/ \E from \in Rev : copy_revision(r, from)
    \/ xorn_finalize_revision(r)
    \/ xorn_free_revision(r)

ObjectCall ==
  \E r \in Rev :
    \/ \E v \in Value : xorn_add_object(r, v)
    \/ \E stage \in 1..3 : AddObjectFails(r, stage)
    \/ \E ob \in handles, v \in Value : xorn_set_object_data(r, ob, v)
    \/ \E ob \in handles, stage \in 1..3 : SetObjectDataFails(r, ob, stage)
    \/ \E ob \in handles, to \in handles \cup {NULL}, before \in handles \cup {NULL} :
         xorn_relocate_object(r, ob, to, before)
    \/ \E ob \in handles : xorn_delete_object(r, ob)
    \/ \E sel \in SUBSET handles : xorn_delete_selected_objects(r, sel)
    \/ \E src \in Rev, ob \in handles : xorn_copy_object(r, src, ob)
    \/ \E src \in Rev, sel \in SUBSET handles : xorn_copy_objects(r, src, sel)
    \/ \E sel \in SUBSET handles, f \in Setters : set_attr(r, sel, f)
    \/ \E done \in SUBSET handles : SetAttrFails(r, done)

Progress ==
  \/ DeleteNext
  \/ DeleteReturns
  \/ copy_object
  \/ \E stage \in 1..4 : CopyObjectFails(stage)
  \/ CopyObjectsFails
  \/ CopyReturns

Next == RevisionCall \/ ObjectCall \/ Progress

Spec == Init /\ [][Next]_vars

-----------------------------------------------------------------------------
(* Properties *)

\* Types of all variables.  The snapshot in `entry' is only ever compared.
TypeOK ==
  /\ live \subseteq Rev
  /\ is_transient \in [Rev -> BOOLEAN]
  /\ obstates \in [Rev -> [Object -> Addr \cup {None}]]
  /\ parent \in [Rev -> [Object -> Node \cup {Absent}]]
  /\ children \in [Rev -> [Node -> Seq(Object)]]
  /\ refcnt \in [Addr -> Int]
  /\ cell \in [Addr -> ValidData \cup {None}]
  /\ next_object_id \in Node
  /\ handles \subseteq 1..next_object_id
  /\ call \in [pc : {"idle", "copying", "deleting"},
               dst : Rev \cup {None}, src : Rev \cup {None}, multi : BOOLEAN,
               work : Seq(Object \X Node), list : Seq(Object)]
  /\ ToSet(call.list) \subseteq 1..next_object_id
  /\ call.pc # "idle" => call.dst \in live /\ is_transient[call.dst]
  /\ call.pc = "copying" => call.src \in live

\* An object state's reference count is the number of places that refer to it,
\* over all revisions and all objects which share it: it is neither freed while
\* a revision still uses it nor leaked.  The counts are kept by hand in
\* revision.cc, manipulate.cc and attributes.cc, on success and on failure.
RefcountsExact ==
  \A p \in Addr :
    /\ refcnt[p] = Cardinality({x \in Rev \X Object : obstates[x[1]][x[2]] = p})
    /\ cell[p] = None <=> refcnt[p] = 0

\* An id which has not been handed out yet names nothing in any revision, not
\* even after a call which has used up ids and then failed: new objects can't
\* run into what is there.
IdsFresh ==
  \A r \in Rev, ob \in Object :
    ob > next_object_id => /\ obstates[r][ob] = None
                           /\ parent[r][ob] = Absent
                           /\ children[r][ob] = <<>>

\* The three maps of a revision describe one ordered forest: an object which
\* exists has exactly one parent and is listed once, there and nowhere else;
\* one which doesn't exist is not listed and has nothing attached to it.  This
\* is what the assertion and the unchecked find() calls in manipulate.cc rely on.
TreeConsistent ==
  \A r \in Rev :
    /\ \A ob \in Object : Exists(r, ob) <=> parent[r][ob] # Absent
    /\ \A n \in Node : IsInjective(children[r][n])
    /\ \A n \in Node, ob \in Object :
         ob \in ToSet(children[r][n]) <=> parent[r][ob] = n
    /\ \A ob \in Object : ~Exists(r, ob) => children[r][ob] = <<>>

\* Only text is attached, only to nets and components, and never to something
\* which is attached itself: what the recursions in copy_object, dump_children
\* and delete_object_but_leave_entry need in order to terminate.
AttachmentsTyped ==
  \A r \in Rev, ob \in Object :
    parent[r][ob] \in Object =>
      /\ TypeOf(r, ob) = Text
      /\ TypeOf(r, parent[r][ob]) \in Holders
      /\ parent[r][parent[r][ob]] = NULL

\* Once a revision has been finalized, nothing that happens to any other
\* revision it shares object states with changes what is seen through it.
FinalizedFrozen ==
  [][\A r \in live : (~is_transient[r] /\ r \in live') =>
       Contents(r)' = Contents(r) /\ ~is_transient'[r]]_vars

=============================================================================
