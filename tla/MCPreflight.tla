------------------------------ MODULE MCPreflight ------------------------------
(***************************************************************************)
(* Every PVC name of up to four characters, and namespace and PV names    *)
(* chosen for the cases the grammar turns on: empty (defaulted), dots     *)
(* next to '-' or to each other, a leading or trailing '-', a character   *)
(* outside the classes.                                                    *)
(***************************************************************************)
EXTENDS Preflight

MCPVCFlags == Strings(4)

MCNamespaceFlags == {<<>>, <<"0">>, <<"a", "-">>, <<"a", ".", "a">>}

MCPVFlags ==
    {<<>>, <<"a", ".", "0">>, <<"a", ".", ".", "a">>, <<"a", "-", ".", "a">>,
     <<"-", "a">>}

\* A kubeconfig namespace that is valid, and one that is not.
MCClientNamespaces == {<<"a", "a">>, <<"a", "A">>}

=============================================================================
