------------------------------ MODULE Preflight ------------------------------
(***************************************************************************)
(* The PersistentPreRun and Run of the install command (install.go lines  *)
(* 127-162): discoverInstallationEnvironment, processInstallationArguments *)
(* and validateInstallationArguments, then the choice between writing     *)
(* YAML files and installTrident (modelled by Installer).                 *)
(*                                                                         *)
(* Names are strings over a five-letter alphabet that stands for the      *)
(* character classes the two regexes tell apart: "a" any lower-case       *)
(* letter, "0" any digit, "-", ".", and "A" any other character (upper    *)
(* case, "_", ...).                                                        *)
(***************************************************************************)
EXTENDS Naturals, Sequences, SequencesExt

CONSTANTS
    NamespaceFlags,     \* values of -n/--namespace ("" when not given)
    PVCFlags,           \* values of --pvc
    PVFlags,            \* values of --pv
    ClientNamespaces    \* what client.Namespace() may answer (kubeconfig)

Alphabet == {"a", "0", "-", ".", "A"}
AlNum == {"a", "0"}
Strings(n) == BoundedSeq(Alphabet, n)

\* tridentconfig.OrchestratorName ("trident") and its "-csi" variant, with
\* each letter mapped to its class.
DefaultName(csi) ==
    IF csi THEN <<"a", "a", "a", "a", "a", "a", "a", "-", "a", "a", "a">>
           ELSE <<"a", "a", "a", "a", "a", "a", "a">>

ASSUME PreflightAssumption ==
    \A S \in {NamespaceFlags, PVCFlags, PVFlags, ClientNamespaces} :
        S # {} /\ S \subseteq Seq(Alphabet)

-----------------------------------------------------------------------------
(* The two regexes of lines 99-100.                                        *)

\* dns1123LabelRegex: ^[a-z0-9]([-a-z0-9]*[a-z0-9])?$
LabelMatch(s) ==
    /\ Len(s) >= 1 /\ s[1] \in AlNum /\ Last(s) \in AlNum
    /\ ToSet(s) \subseteq AlNum \cup {"-"}

\* Mutant: the subdomain regex written as ^[a-z0-9]([-a-z0-9.]*[a-z0-9])?$,
\* the grammar of the error message.
DomainMatchFlat(s) ==
    /\ Len(s) >= 1 /\ s[1] \in AlNum /\ Last(s) \in AlNum
    /\ ToSet(s) \subseteq AlNum \cup {"-", "."}

\* dns1123DomainRegex: a label, then any number of "." label.
RECURSIVE DomainMatch(_)
DomainMatch(s) ==
    IF "." \notin ToSet(s) THEN LabelMatch(s)
    ELSE LET d == CHOOSE i \in DOMAIN s :
                    s[i] = "." /\ \A j \in 1..(i - 1) : s[j] # "."
         IN  LabelMatch(SubSeq(s, 1, d - 1))
             /\ DomainMatch(SubSeq(s, d + 1, Len(s)))

-----------------------------------------------------------------------------

VARIABLES
    stage,        \* "discover", "process", "validate", "install",
                  \* "generate" or "fatal"
    err,          \* why the command exited in PersistentPreRun
    namespace,    \* TridentPodNamespace
    pvcName, pvName,
    csi, ucp,     \* --csi; whether --ucp-bearer-token or --ucp-host is set
    generateYAML, \* --generate-custom-yaml
    useK8sRBAC, appLabelCSI

vars == <<stage, err, namespace, pvcName, pvName, csi, ucp, generateYAML,
          useK8sRBAC, appLabelCSI>>

Init ==
    /\ stage = "discover" /\ err = "None"
    /\ namespace \in NamespaceFlags /\ pvcName \in PVCFlags
    /\ pvName \in PVFlags
    /\ csi \in BOOLEAN /\ ucp \in BOOLEAN /\ generateYAML \in BOOLEAN
    /\ useK8sRBAC = FALSE /\ appLabelCSI = FALSE

Fatal(e) == stage' = "fatal" /\ err' = e

\* discoverInstallationEnvironment: the OS check, the kubectl client, the
\* UCP client, the YAML paths may each fail; then the RBAC mode and the
\* namespace inferred from the client when -n was not given.
DiscoverInstallationEnvironment ==
    /\ stage = "discover"
    /\ \/ Fatal("Environment") /\ UNCHANGED <<useK8sRBAC, namespace>>
       \/ ucp /\ Fatal("UCPClient") /\ UNCHANGED <<useK8sRBAC, namespace>>
       \/ /\ stage' = "process" /\ useK8sRBAC' = ~ucp
          /\ \/ namespace # <<>> /\ UNCHANGED namespace
             \/ namespace = <<>> /\ namespace' \in ClientNamespaces
          /\ UNCHANGED err
    /\ UNCHANGED <<pvcName, pvName, csi, ucp, generateYAML, appLabelCSI>>

\* processInstallationArguments: default names, "-csi" for CSI, and the
\* label scheme of the topology.
ProcessInstallationArguments ==
    /\ stage = "process" /\ stage' = "validate"
    /\ pvcName' = IF pvcName = <<>> THEN DefaultName(csi) ELSE pvcName
    /\ pvName' = IF pvName = <<>> THEN DefaultName(csi) ELSE pvName
    /\ appLabelCSI' = csi
    /\ UNCHANGED <<err, namespace, csi, ucp, generateYAML, useK8sRBAC>>

\* validateInstallationArguments, then the Run of the command.
ValidateInstallationArguments ==
    /\ stage = "validate"
    /\ \/ ~LabelMatch(namespace) /\ Fatal("Namespace")
       \/ LabelMatch(namespace) /\ ~DomainMatch(pvcName) /\ Fatal("PVCName")
       \/ /\ LabelMatch(namespace) /\ DomainMatch(pvcName)
          /\ ~DomainMatch(pvName) /\ Fatal("PVName")
       \/ /\ LabelMatch(namespace) /\ DomainMatch(pvcName)
          /\ DomainMatch(pvName) /\ UNCHANGED err
          /\ stage' = IF generateYAML THEN "generate" ELSE "install"
    /\ UNCHANGED <<namespace, pvcName, pvName, csi, ucp, generateYAML,
                   useK8sRBAC, appLabelCSI>>

Next ==
    \/ DiscoverInstallationEnvironment
    \/ ProcessInstallationArguments
    \/ ValidateInstallationArguments

\* log.Fatalf ends the process; the command runs once.
Spec == Init /\ [][Next]_vars

-----------------------------------------------------------------------------
(* Properties.                                                             *)

\* The RFC 1123 grammar of spec 8: a label is lower-case alphanumerics and
\* '-', starting and ending alphanumeric; a subdomain is labels joined by
\* '.', so every '.' sits between two alphanumerics.
LabelGrammar(s) ==
    /\ s # <<>> /\ ToSet(s) \subseteq AlNum \cup {"-"}
    /\ s[1] \in AlNum /\ s[Len(s)] \in AlNum

SubdomainGrammar(s) ==
    /\ s # <<>> /\ ToSet(s) \subseteq AlNum \cup {"-", "."}
    /\ s[1] \in AlNum /\ s[Len(s)] \in AlNum
    /\ \A i \in 2..(Len(s) - 1) :
         s[i] = "." => s[i - 1] \in AlNum /\ s[i + 1] \in AlNum

\* Spec 8: the argument validator accepts exactly the names of the DNS-1123
\* grammar: the command goes on to install or to write YAML only with a
\* valid namespace, PVC and PV name (after defaulting), and an "invalid
\* name" exit names the first name, in the code's order, that is invalid.
ValidatorExact ==
    /\ stage \in {"install", "generate"} =>
         /\ LabelGrammar(namespace) /\ SubdomainGrammar(pvcName)
         /\ SubdomainGrammar(pvName)
    /\ err = "Namespace" => ~LabelGrammar(namespace)
    /\ err = "PVCName" => LabelGrammar(namespace) /\ ~SubdomainGrammar(pvcName)
    /\ err = "PVName" =>
         /\ LabelGrammar(namespace) /\ SubdomainGrammar(pvcName)
         /\ ~SubdomainGrammar(pvName)

=============================================================================
