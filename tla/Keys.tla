-------------------------------- MODULE Keys --------------------------------
(***************************************************************************)
(* openonce/keys.py: which fields of a call go into its idempotency key    *)
(* and its fingerprint.  A canonical object stands for its serialisation;  *)
(* the hash is taken to be injective.  Scopes and tools are sequences,     *)
(* because the material joins them with a separator that neither of them   *)
(* is barred from containing.                                              *)
(***************************************************************************)
EXTENDS Sequences

\* idempotency_fields of a call with these args: `fields` is {} for None, which
\* means every arg, and {names} for a list of names.
FieldsOf(args, fields) == IF fields = {} THEN DOMAIN args ELSE UNION fields

\* The names of the args that select_fields keeps.
KeyFields(args, fields) == FieldsOf(args, fields) \cap DOMAIN args

\* select_fields
SelectFields(args, fields) == [f \in KeyFields(args, fields) |-> args[f]]

Bar == <<"|">>

\* derive_key: the hashed material, sha256(version|scope|tool|canonical).
DeriveKey(tool, args, scope, fields) ==
  scope \o Bar \o tool \o Bar \o <<SelectFields(args, fields)>>

\* Runtime._key_and_fingerprint: an explicit key is used as it is and its
\* fingerprint covers every arg; a derived key's covers what is in the key.
CallKey(call) ==
  IF call.explicit # << >> THEN call.explicit
  ELSE DeriveKey(call.tool, call.args, call.scope, call.fields)

Fingerprint(call) ==
  IF call.explicit # << >> THEN call.args ELSE SelectFields(call.args, call.fields)

\* canonicalize: a float in what is serialised is an error, and no call.
Derivable(call) == \A f \in DOMAIN Fingerprint(call) : Fingerprint(call)[f] # "float"

\* _thread_scope of the LangGraph tools and _resolve_scope of the OpenAI ones:
\* an ambient oo.scope wins, the tool call's id narrows what is found else.
ToolScope(ambient, ofRun, callId) == (IF ambient # << >> THEN ambient ELSE ofRun) \o callId
=============================================================================
