-------------------------- MODULE MC_RemoteMutator --------------------------
(***************************************************************************)
(* Apply against the webhook protocol of spec section 6, for every Job    *)
(* object over two keys and two values and every answer the webhook may  *)
(* give, patches of up to two operations included.                        *)
(***************************************************************************)
EXTENDS RemoteMutator

VARIABLES doc, answer

vars == <<doc, answer>>

Init == doc \in Docs /\ answer \in Answers

\* Each state is one call of Apply; there is nothing to step to.
Spec == Init /\ [][FALSE]_vars

\* Spec 6: a non-2xx answer, an unparseable body, an invalid patch or a
\* refusal fails the mutation; an allowed answer leaves the Job its JSON
\* Patch describes (RFC 6902), or the Job as it was when there is none.
Protocol(d, a) ==
    CASE a.send = "failed" \/ a.code >= 300 -> Err
      [] a.body # "review" \/ ~a.response -> Err
      [] ~a.allowed -> Err
      [] a.patch.kind = "none" -> Ok(d)
      [] a.patch.kind = "invalid" -> Err
      [] OTHER -> LET res == JsonPatchApply(d, a.patch.ops)
                  IN  IF res.ok THEN Ok(res.doc) ELSE Err

\* The mutation step of buildJob keeps the protocol: mutators.Apply with
\* the remote mutator, the only one main.go registers, fails exactly when
\* the protocol says the mutation fails, never panics, and otherwise leaves
\* the Job the patch describes.
ApplyFollowsProtocol == RegistryApply(doc, <<answer>>) = Protocol(doc, answer)
=============================================================================
