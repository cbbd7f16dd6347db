---------------------------- MODULE MCAccessControl ----------------------------
(***************************************************************************)
(* An instance of AccessControl for TLC: ADMIN_USER at one browser, a user *)
(* the old mapping file knew at another; one scope and one token.          *)
(***************************************************************************)
EXTENDS AccessControl, TLC

CONSTANTS root, ann, ci, b1, b2, t1, read

OldMapping == ann :> {read}

AdminOrScope == {{}, {read}}

OneEach == b1 :> {root} @@ b2 :> {ann, t1}

Labelled == t1 :> ci
=============================================================================
