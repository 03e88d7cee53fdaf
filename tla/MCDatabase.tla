------------------------------ MODULE MCDatabase ------------------------------
(***************************************************************************)
(* Four versions of a workspace: users; with tables added; with a column   *)
(* and a key added; with a column changed.                                 *)
(***************************************************************************)
EXTENDS DatabaseLifecycle, TLC

Ranks == ("tags" :> 1) @@ ("tasks" :> 2) @@ ("users" :> 3)
PartKinds == ("id" :> "column") @@ ("pk" :> "primaryKey") @@ ("name" :> "column") @@ ("name_u" :> "unique")
    @@ ("id_i" :> "index") @@ ("id_ui" :> "uniqueIndex") @@ ("id_r" :> "relation")

With(parts) == [p \in Part |-> IF p \in parts THEN "text" ELSE Absent]
Users(parts) == [t \in Table |-> IF t = "users" THEN With(parts \cup {"id", "pk"}) ELSE Absent]

Grown == [Users({}) EXCEPT !["tags"] = With({"id", "pk", "name", "name_u"}),
                           !["tasks"] = With({"id", "pk", "id_i", "id_ui", "id_r"})]
Retyped == [Users({}) EXCEPT !["users"] = [@ EXCEPT !["id"] = "uuid"]]

Versions ==
    ("first" :> [tables |-> Users({}), enum |-> <<"open", "done">>])
    @@ ("tables" :> [tables |-> Grown, enum |-> <<"new", "open", "seen", "late", "done">>])
    @@ ("column" :> [tables |-> Users({"name", "name_u", "id_i"}), enum |-> <<"open", "late", "done", "gone", "lost">>])
    @@ ("changed" :> [tables |-> Retyped, enum |-> <<"open", "done">>])
=============================================================================
