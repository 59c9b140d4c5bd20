---------------------------- MODULE RemoteMutator ----------------------------
(***************************************************************************)
(* The remote mutator (pkg/mutators/remote_mutator.go): Apply posts the   *)
(* Job in an AdmissionReview to the webhook and applies the JSON Patch of  *)
(* its answer to the Job.                                                  *)
(*                                                                         *)
(* The part of the Job a patch touches is one JSON object (the Job's      *)
(* annotations, say): a function from Keys to Values, with Absent for a   *)
(* key the object does not hold.  The webhook's answer is a record of the *)
(* facts Apply and makeWebhookRequest branch on; the bytes, the logging   *)
(* and the request (buildAdmissionReview) carry nothing a branch reads.   *)
(* The outcome of Apply is [kind, job]: "ok" with the Job it leaves,      *)
(* "err" with an error returned, or "panic" for a nil pointer dereference.*)
(***************************************************************************)
EXTENDS Integers, Sequences, SequencesExt

CONSTANTS
    Keys,      \* the members of the object a patch may name
    Values,    \* the values they may hold
    MaxOps     \* the longest patch considered

Absent == "absent"

Docs == [Keys -> Values \cup {Absent}]

\* RFC 6902 operations on members of the object (move and copy are left out)
PatchOps == [op : {"add", "remove", "replace", "test"}, path : Keys, value : Values]

\* response.Patch: no bytes ("none"), bytes that do not decode as a JSON
\* Patch ("invalid"), or a JSON Patch, a list of operations ("ops")
Patches ==
    {[kind |-> k, ops |-> <<>>] : k \in {"none", "invalid"}}
    \cup {[kind |-> "ops", ops |-> o] : o \in UNION {[1..n -> PatchOps] : n \in 0..MaxOps}}

NoPatch == [kind |-> "none", ops |-> <<>>]

\* What the webhook does: send is "failed" when client.Do returns an
\* error; code is the HTTP status; body is "garbage" (does not decode as an
\* AdmissionReview), "null" (the JSON literal) or "review"; response,
\* allowed and result say whether the review has a response, whether it
\* allows the Job, and whether it carries a status object.
Answer(send, code, body, response, allowed, result, patch) ==
    [send |-> send, code |-> code, body |-> body, response |-> response,
     allowed |-> allowed, result |-> result, patch |-> patch]

Answers ==
    {Answer("failed", 0, "garbage", FALSE, FALSE, FALSE, NoPatch),
     Answer("ok", 400, "garbage", FALSE, FALSE, FALSE, NoPatch),
     Answer("ok", 200, "garbage", FALSE, FALSE, FALSE, NoPatch),
     Answer("ok", 200, "null", FALSE, FALSE, FALSE, NoPatch),
     Answer("ok", 200, "review", FALSE, FALSE, FALSE, NoPatch)}
    \cup {Answer("ok", 200, "review", TRUE, FALSE, r, NoPatch) : r \in BOOLEAN}
    \cup {Answer("ok", 200, "review", TRUE, TRUE, r, p) : r \in BOOLEAN, p \in Patches}

NoDoc == [k \in Keys |-> Absent]
Err == [kind |-> "err", job |-> NoDoc]
Panic == [kind |-> "panic", job |-> NoDoc]
Ok(doc) == [kind |-> "ok", job |-> doc]

\* jsonpatch's Apply, one operation: remove, replace and test need the
\* member to exist (test also needs the value); add sets it either way.
\* The first failed operation fails the patch: r is [ok, doc].
PatchStep(r, o) ==
    LET doc == r.doc
        fail == [r EXCEPT !.ok = FALSE]
    IN  IF ~r.ok THEN r
        ELSE CASE o.op = "add" -> [r EXCEPT !.doc[o.path] = o.value]
               [] doc[o.path] = Absent -> fail
               [] o.op = "remove" -> [r EXCEPT !.doc[o.path] = Absent]
               [] o.op = "replace" -> [r EXCEPT !.doc[o.path] = o.value]
               [] doc[o.path] = o.value -> r
               [] OTHER -> fail

\* DecodePatch, then Apply on the encoded Job
JsonPatchApply(doc, ops) == FoldLeft(PatchStep, [ok |-> TRUE, doc |-> doc], ops)

\* json.Unmarshal(res, &job) into the Job it was encoded from: the pointer
\* is not nil, so the existing Job is decoded into; a map keeps the
\* entries the JSON does not name, and a field the JSON leaves out keeps
\* its value.  A member the patch removed is therefore still there.
UnmarshalOnto(old, new) ==
    [k \in Keys |-> IF new[k] = Absent THEN old[k] ELSE new[k]]

\* makeWebhookRequest: the error of the send, of a status >= 300 or of
\* the decode; a JSON null decodes into a nil *AdmissionReview, and
\* response.Response dereferences it; otherwise response.Response, which
\* is nil when the review has no response.
MakeWebhookRequest(a) ==
    CASE a.send = "failed" -> Err
      [] a.code >= 300 -> Err
      [] a.body = "garbage" -> Err
      [] a.body = "null" -> Panic
      [] OTHER -> [kind |-> "ok", job |-> NoDoc]

\* remoteMutator.Apply: a nil response is dereferenced by response.Allowed,
\* a nil Result by the error message of a refusal.
Apply(doc, a) ==
    LET r == MakeWebhookRequest(a) IN
    CASE r.kind # "ok" -> r
      [] ~a.response -> Panic
      [] ~a.allowed /\ ~a.result -> Panic
      [] ~a.allowed -> Err
      [] a.patch.kind = "none" -> Ok(doc)
      [] a.patch.kind = "invalid" -> Err
      [] OTHER -> LET res == JsonPatchApply(doc, a.patch.ops)
                  IN  IF res.ok THEN Ok(UnmarshalOnto(doc, res.doc)) ELSE Err


\* mutators.Apply (registry.go): the registered mutators in turn, on a
\* deep copy of the Job, stopping at the first that fails; answers holds
\* each one's webhook answer in the map's iteration order.  A failure
\* returns no Job (the error is wrapped with the mutator's name).
RegistryApply(doc, answers) ==
    FoldLeft(LAMBDA res, a : IF res.kind = "ok" THEN Apply(res.job, a) ELSE res,
             Ok(doc), answers)

=============================================================================
