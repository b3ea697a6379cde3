----------------------------- MODULE MCAdminPage ----------------------------
(* AdminPage on small instances. *)
EXTENDS AdminPage

CONSTANTS s1, t1, t2

Old(id, name) == [id |-> id, text |-> t1, name |-> name]

\* Two configs in one list.
OneList ==
  {(<<Xray, Default>> :> <<Old(1, Given), Old(2, NoName)>>)
   @@ (<<Mihomo, Default>> :> <<>>)}
=============================================================================
