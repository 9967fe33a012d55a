--------------------------- MODULE MCSenderSession ---------------------------
(***************************************************************************)
(* The TLC instance of SenderSession: each kind of line that fits, and     *)
(* texts that are cut, with a rest that is no message, that asks for       *)
(* something else, or that ends the session.                               *)
(***************************************************************************)
EXTENDS SenderSession

FittingLines == {<<t>> : t \in Typed}

CutLines == {<<"sendall", "invalid">>, <<"sendall", "other">>, <<"sendall", "quit">>,
             <<"badname", "leave">>, <<"sendall", "invalid", "slogin">>}

\* a user name that fits, and names whose rest reads as each kind of request
AllLogins == {<<"slogin">>} \cup {<<"slogin", r>> : r \in Requests}

AllLines == FittingLines \cup CutLines
===============================================================================
