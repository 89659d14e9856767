---------------------------- MODULE ApplyManifest ----------------------------
(***************************************************************************)
(* Client.ApplyManifest: the documents of a manifest are decoded, given    *)
(* their namespace, which is created, and created, replaced or deleted one *)
(* after the other, while others change the cluster.                       *)
(***************************************************************************)
EXTENDS Naturals, Sequences

CONSTANTS
    Documents,  \* the documents: records [kind, ns, name, known, short]
    Requests,   \* calls: records [documents, ns, update, delete, ignore]
    MaxOthers   \* bound: objects that others delete

VARIABLES
    request,  \* the call under way, <<>> when there is none
    next,     \* index of the document it is at
    space,    \* options.Namespace for this document
    step,     \* what is done next with the document
    result,   \* of the last call
    objects,  \* objects in the cluster: <<namespace, document>>
    spaces,   \* namespaces in the cluster
    others,   \* objects that others deleted
    settled   \* history: objects this call has dealt with

manifestVars == <<request, next, space, step, result, objects, spaces, others, settled>>

\* The empty string, of a field that is not set.
Unset == ""

ManifestInit ==
    /\ request = <<>> /\ next = 0 /\ space = Unset /\ step = "none" /\ result = "none"
    /\ objects = {} /\ spaces = {} /\ others = 0 /\ settled = {}

\* The document the call is at
Doc == request[1].documents[next]
-----------------------------------------------------------------------------
Begin(r) ==
    /\ request = <<>>
    /\ request' = <<r>>
    /\ next' = 1
    /\ step' = IF r.documents = <<>> THEN "return" ELSE "decode"
    /\ result' = "none"
    /\ settled' = {}
    /\ UNCHANGED <<space, objects, spaces, others>>

Advance ==
    /\ next' = next + 1
    /\ step' = IF next < Len(request[1].documents) THEN "decode" ELSE "return"
    /\ UNCHANGED result

\* An error ends the call unless errors are ignored.
Fail ==
    IF request[1].ignore THEN Advance
    ELSE step' = "return" /\ result' = "error" /\ UNCHANGED next

\* A document that cannot be decoded has no kind and is passed over also
\* when errors count; a kind the cluster does not know is an error.
Decode ==
    /\ step = "decode"
    /\ IF Doc.kind = Unset THEN Advance
       ELSE IF ~Doc.known THEN Fail
       ELSE step' = "namespace" /\ UNCHANGED <<next, result>>
    /\ space' = IF Doc.ns = Unset \/ Doc.short \/ request[1].ns # Unset THEN request[1].ns
                ELSE Doc.ns
    /\ UNCHANGED <<request, objects, spaces, others, settled>>

\* The namespace is created, also for a deletion.
CreateNamespaceIfNotExist ==
    /\ step = "namespace"
    /\ \/ /\ spaces' = IF space = Unset THEN spaces ELSE spaces \cup {space}
          /\ step' = "object" /\ UNCHANGED <<next, result>>
       \/ space # Unset /\ Fail /\ UNCHANGED spaces
    /\ UNCHANGED <<request, space, objects, others, settled>>

Target == <<space, Doc.name>>

\* A missing object is no error.
DeleteObject ==
    /\ step = "object"
    /\ request[1].delete
    /\ \/ /\ objects' = objects \ {Target}
          /\ settled' = settled \cup {Target}
          /\ Advance
       \/ Fail /\ UNCHANGED <<objects, settled>>
    /\ UNCHANGED <<request, space, spaces, others>>

\* Mutant: a failing Create does not count.
CreateObjectAnyway ==
    /\ step = "object"
    /\ ~request[1].delete
    /\ \/ objects' = objects \cup {Target}
       \/ UNCHANGED objects
    /\ settled' = settled \cup {Target}
    /\ Advance
    /\ UNCHANGED <<request, space, spaces, others>>

\* An object that exists is no error: with update it is replaced, and when
\* only an immutable field is in the way that is no error either.
CreateObject ==
    /\ step = "object"
    /\ ~request[1].delete
    /\ \/ /\ objects' = objects \cup {Target}
          /\ settled' = settled \cup {Target}
          /\ Advance
       \/ Fail /\ UNCHANGED <<objects, settled>>
    /\ UNCHANGED <<request, space, spaces, others>>

Return ==
    /\ step = "return"
    /\ request' = <<>>
    /\ next' = 0 /\ step' = "none" /\ space' = Unset
    /\ result' = IF result = "error" THEN result ELSE "ok"
    /\ UNCHANGED <<objects, spaces, others, settled>>

\* Another client deletes an object.
DeleteByOther(o) ==
    /\ others < MaxOthers
    /\ others' = others + 1
    /\ objects' = objects \ {o}
    /\ settled' = settled \ {o}
    /\ UNCHANGED <<request, next, space, step, result, spaces>>

ManifestNext ==
    \/ \E r \in Requests : Begin(r)
    \/ Decode \/ CreateNamespaceIfNotExist \/ DeleteObject \/ CreateObject \/ Return
    \/ \E o \in objects : DeleteByOther(o)
-----------------------------------------------------------------------------
ManifestTypeOK ==
    /\ request = <<>> \/ request[1] \in Requests
    /\ step \in {"none", "decode", "namespace", "object", "return"}
    /\ step \in {"decode", "namespace", "object"} =>
         next \in DOMAIN request[1].documents
    /\ result \in {"none", "ok", "error"}
    /\ others \in 0 .. MaxOthers

(***************************************************************************)
(* What a call has dealt with is in the cluster, or is not when it         *)
(* deletes, and in a namespace that exists: neither an object that was     *)
(* there already, nor an error that is ignored, nor the namespace the      *)
(* document itself names puts it elsewhere or leaves it out unnoticed.     *)
(***************************************************************************)
SettledAsAsked ==
    request # <<>> =>
        \A o \in settled :
            /\ o \in objects <=> ~request[1].delete
            /\ o[1] \in spaces \cup {Unset}
            /\ request[1].ns # Unset => o[1] = request[1].ns
=============================================================================
