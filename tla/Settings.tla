------------------------------ MODULE Settings ------------------------------
(***************************************************************************)
(* From the configuration file to the metadata of a VM: Load and Validate  *)
(* of internal/config/config.go, New and Render of                         *)
(* internal/cloudinit/render.go.  Render parses again what Validate has    *)
(* parsed and drops the errors, so it relies on Validate having looked at  *)
(* the same settings.                                                      *)
(*                                                                         *)
(* A value is "ok", "bad" (not an address, where one is needed), "" (empty *)
(* or missing) or "var": ${VAR}, replaced by the environment's value.      *)
(***************************************************************************)
EXTENDS Integers, SequencesExt, Selection

NeededFields == {"listen", "auth_token", "url", "user", "password", "datastore",
                 "gold_vm", "folder", "nic_name", "default_user", "path"}

AddressFields == {"pool_start", "pool_end", "gateway"}

Fields == NeededFields \cup AddressFields

Values == {"ok", "bad", "", "var"}

\* os.Getenv of a variable that is not set is "".
ExpandValue(x, env) == IF x = "var" THEN env ELSE x

Expand(file, env) ==
  [file EXCEPT !.text = [f \in Fields |-> ExpandValue(file.text[f], env)],
               !.dns  = [i \in DOMAIN file.dns |-> ExpandValue(file.dns[i], env)]]

\* Wrong on purpose: the name servers are not looked at.
ValidateButDns(c) ==
  /\ \A f \in NeededFields : c.text[f] # ""
  /\ \A f \in AddressFields : c.text[f] = "ok"
  /\ c.prefix \in 1..32

Validate(c) ==
  /\ \A f \in NeededFields : c.text[f] # ""
  /\ \A f \in AddressFields : c.text[f] = "ok"
  /\ \A i \in DOMAIN c.dns : c.dns[i] = "ok"
  /\ c.prefix \in 1..32

Loads(file, env) == Validate(Expand(file, env))

\* loadKeysFile: no path and no file are no keys; blank lines and comments go.
KeysOf(keysFile) ==
  Selected(keysFile, ToSet(keysFile) \ {"blank", "comment"})

Or(given, default) == IF given = "" THEN default ELSE given

\* Render: what the caller leaves out comes from the configuration; "invalid"
\* is what the template shows of the zero Addr.
Render(v, c, keysFile) ==
  [ok      |-> v.id # "" /\ v.host # "" /\ v.ip = "ok",
   nic     |-> Or(v.nic, c.text["nic_name"]),
   user    |-> Or(v.user, c.text["default_user"]),
   prefix  |-> IF v.prefix = 0 THEN c.prefix ELSE v.prefix,
   gateway |-> IF v.gateway = "ok" THEN "ok"
               ELSE IF c.text["gateway"] = "ok" THEN "ok" ELSE "invalid",
   dns     |-> IF v.dns = <<>> THEN Selected(c.dns, {"ok"}) ELSE v.dns,
   keys    |-> IF v.keys = <<>> THEN KeysOf(keysFile) ELSE v.keys]

\* What runProvision passes; the address is the zero Addr when the walk of the
\* allocator ran past the end of the family.
VarsOfProvision(ip) ==
  [id |-> "ok", host |-> "ok", ip |-> ip, nic |-> "", user |-> "", prefix |-> 0,
   gateway |-> "", dns |-> <<>>, keys |-> <<>>]

-----------------------------------------------------------------------------

\* config.go:5-6, "we fail fast at startup rather than later, mid-request": what
\* Load accepted, Render turns into complete metadata for every VM whose address
\* is one: interface, user, prefix and gateway are there, no name server of the
\* file was dropped on the way, and no comment became a key.
RendersComplete(file, env, keysFile, ip) ==
  LET r == Render(VarsOfProvision(ip), Expand(file, env), keysFile)
  IN  /\ r.ok <=> ip = "ok"
      /\ r.nic # "" /\ r.user # ""
      /\ r.prefix \in 1..32
      /\ r.gateway = "ok"
      /\ Len(r.dns) = Len(file.dns)
      /\ ToSet(r.keys) = ToSet(keysFile) \ {"blank", "comment"}
=============================================================================
