----------------------------- MODULE GraphLoad -----------------------------
(***************************************************************************)
(* What \i promises the user of a database, with no headers, caches,       *)
(* indexes or metadata in sight: the records of the two files become       *)
(* visible in their order, a later one over an earlier, in groups that     *)
(* appear at once; "success" means all of them; an orderly end keeps what  *)
(* was visible; any other end keeps, of the nodes and of the edges each,   *)
(* what was visible or what was already safe.                              *)
(***************************************************************************)
EXTENDS Sequences

CONSTANTS
  Loads,      \* what two files may hold: sequences of lines
  Yield(_)    \* the record in a line, if it holds one: its kind, id and value

Kinds == {"nodes", "edges"}

VARIABLES
  loading, result,
  todo,      \* lines that were not read
  held,      \* records read, by kind and id, and not yet visible
  visible,   \* records a reader of the database sees
  safe       \* records that survive the death of the process

vars == <<loading, result, todo, held, visible, safe>>

NoRecords == [kind \in Kinds |-> <<>>]

\* new laid over old, by kind and id.
Over(new, old) ==
  [kind \in Kinds |->
     [id \in DOMAIN new[kind] \cup DOMAIN old[kind] |->
        IF id \in DOMAIN new[kind] THEN new[kind][id] ELSE old[kind][id]]]

With(row, records) ==
  Over([NoRecords EXCEPT ![row.kind] = [id \in {row.id} |-> row.value]], records)

Init ==
  /\ loading = FALSE /\ result = "none" /\ todo = <<>>
  /\ held = NoRecords /\ visible = NoRecords /\ safe = NoRecords

Refuse ==
  /\ ~loading /\ result' \in {"rejected", "error"}
  /\ UNCHANGED <<loading, todo, held, visible, safe>>

Start ==
  /\ ~loading /\ loading' = TRUE
  /\ result' = "none" /\ todo' \in Loads
  /\ UNCHANGED <<held, visible, safe>>

\* A record is read; with it, everything held may become visible.
Read ==
  /\ loading /\ todo # <<>> /\ todo' = Tail(todo)
  /\ \E row \in Yield(Head(todo)) :
       \/ held' = With(row, held) /\ UNCHANGED visible
       \/ visible' = Over(With(row, held), visible) /\ held' = NoRecords
  /\ UNCHANGED <<loading, result, safe>>

\* A line without one.
Pass ==
  /\ loading /\ todo # <<>> /\ todo' = Tail(todo)
  /\ Yield(Head(todo)) = {}
  /\ UNCHANGED <<loading, result, held, visible, safe>>

Show ==
  /\ loading
  /\ visible' = Over(held, visible) /\ held' = NoRecords
  /\ UNCHANGED <<loading, result, todo, safe>>

\* An error, after which nothing more is read or becomes visible.
Stop ==
  /\ loading /\ result = "none" /\ result' = "error"
  /\ visible' \in {visible, Over(held, visible)}
  /\ todo' = <<>> /\ held' = NoRecords
  /\ UNCHANGED <<loading, safe>>

Succeed ==
  /\ loading /\ result = "none" /\ todo = <<>> /\ held = NoRecords
  /\ result' = "success"
  /\ UNCHANGED <<loading, todo, held, visible, safe>>

Settle(kind) ==
  /\ loading /\ safe' = [safe EXCEPT ![kind] = visible[kind]]
  /\ UNCHANGED <<loading, result, todo, held, visible>>

\* The end, after an outcome, of an orderly kind or not, and at any other time
\* by the death of the process.
End ==
  /\ loading /\ loading' = FALSE
  /\ visible' \in {[kind \in Kinds |-> IF kind \in kept THEN visible[kind] ELSE safe[kind]] :
                     kept \in IF result = "none" THEN {{}} ELSE SUBSET Kinds}
  /\ safe' = visible'
  /\ todo' = <<>> /\ held' = NoRecords
  /\ UNCHANGED result

Next ==
  \/ Refuse \/ Start \/ Read \/ Pass \/ Show \/ Stop \/ Succeed \/ End
  \/ \E kind \in Kinds : Settle(kind)

Spec == Init /\ [][Next]_vars
=============================================================================
