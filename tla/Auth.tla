-------------------------------- MODULE Auth --------------------------------
(***************************************************************************)
(* Permissions of a request (jsonrpc/auth): the HTTP handler that looks at *)
(* the token, and the proxy through which a method is called.              *)
(*                                                                         *)
(* The credentials of a request are [header, form, token]: what its        *)
(* Authorization header holds ("none", "bearer" or "other"), whether it    *)
(* has a form value token, and the token, from the header when it has one. *)
(* verify[t] is what the Verify function of the program says of t: a set   *)
(* of permissions, or Invalid.                                             *)
(***************************************************************************)
EXTENDS Naturals, Sequences

Invalid == {"invalid"}   \* Verify returned an error
NoPerm == "none"         \* the method is not behind a PermissionedProxy

(* A header wins over the form value, which counts as a bearer token.      *)
HasToken(cred) == cred.header # "none" \/ cred.form

(* ServeHTTP answers 401: no "Bearer " prefix, or Verify failed.           *)
Rejected_Lenient(cred, verify) ==  \* Mutant: a token that does not verify counts as none.
  cred.header = "other"

Rejected(cred, verify) ==
  cred.header = "other" \/ (HasToken(cred) /\ verify[cred.token] = Invalid)

(* The permissions in the context, those of the proxy without a token.     *)
CallerPerms(cred, verify, defaultPerms) ==
  IF HasToken(cred) /\ verify[cred.token] # Invalid THEN verify[cred.token] ELSE defaultPerms

HasPerm(cred, verify, defaultPerms, perm) ==
  perm \in CallerPerms(cred, verify, defaultPerms)

(* PermissionedProxy panics, when it is set up, unless every field has a   *)
(* tag among validPerms.                                                   *)
ProxyAccepts(validPerms, tags) == tags \subseteq validPerms

(* What the proxy returns without calling the method: an error, in the     *)
(* place of the last of two results or as the only one.  Any other         *)
(* function type makes reflection panic.                                   *)
Denied(ft) ==
  [panics |-> ~(Len(ft.outs) = 2 \/ ft.outs = <<"error">>), val |-> "zero",
   err |-> Len(ft.outs) = 2 \/ ft.outs = <<"error">>]

(* The proxy takes the first argument for the context, or panics.          *)
HasContext(ft) == ft.ins # <<>> /\ ft.ins[1] = "ctx"

=============================================================================
