------------------------------ MODULE VmxPatch ------------------------------
(***************************************************************************)
(* Patch of internal/clone/vmx.go.  A .vmx is a sequence of lines; a line  *)
(* has a key, the VM its value is about, and the number of newlines after  *)
(* it (more than one: blank lines follow; none: the text ends with it).    *)
(*                                                                         *)
(* The regular expressions are multi-line, but \s matches newlines too:    *)
(* `\s*$` takes the blank lines after a line and, at the end of the text,  *)
(* its last newline; `\s*\n` takes blank lines and needs a newline.        *)
(***************************************************************************)
EXTENDS Integers, SequencesExt, Selection

\* Rewritten in this order, or appended.
NamedKeys == <<"displayName", "nvram", "scsi0:0.fileName">>

\* All four alternatives of stripRE are treated alike: two stand for them.
IdentityKeys == {"uuid.bios", "ethernet0.generatedAddress"}

VmxKeys == ToSet(NamedKeys) \cup IdentityKeys \cup {"other"}

NewLine(key, nls) == [key |-> key, of |-> "clone", nls |-> nls]

HasKey(text, key) == \E i \in DOMAIN text : text[i].key = key

ReplaceKey(text, key) ==
  [i \in DOMAIN text |->
     IF text[i].key # key THEN text[i]
     ELSE NewLine(key, IF i = Len(text) THEN 0 ELSE 1)]

\* TrimRight, a newline, the line, a newline.
AppendKey(text, key) ==
  Append([i \in DOMAIN text |-> IF i < Len(text) THEN text[i] ELSE [text[i] EXCEPT !.nls = 1]],
         NewLine(key, 1))

\* Wrong on purpose: a key the gold image does not have stays missing.
ReplaceOnly(text, key) == ReplaceKey(text, key)

PatchKey(text, key) ==
  IF HasKey(text, key) THEN ReplaceKey(text, key) ELSE AppendKey(text, key)

\* Wrong on purpose: the identity is stripped by its first key alone.
StripUuidOnly(text) ==
  Selected(text, {l \in ToSet(text) : ~(l.key = "uuid.bios" /\ l.nls > 0)})

\* The line goes with the newlines after it.
StripIdentity(text) ==
  Selected(text, {l \in ToSet(text) : ~(l.key \in IdentityKeys /\ l.nls > 0)})

Patch(text) ==
  StripIdentity(PatchKey(PatchKey(PatchKey(text, NamedKeys[1]), NamedKeys[2]),
                         NamedKeys[3]))

-----------------------------------------------------------------------------

Others(text) == Selected(text, {l \in ToSet(text) : l.key = "other"})

KeyAndOwner(text) == [i \in DOMAIN text |-> <<text[i].key, text[i].of>>]

\* vmx.go:1-3, "so the clone doesn't accidentally point its disk/nvram at the
\* gold image's files": the patched text has each of the three keys, always
\* about the clone; it has every other setting of the gold image, in order; no
\* two lines have run into one; and a patch of it again, as after an upload
\* whose reply was lost, says the same.
PointsAtClone(text, new) ==
  /\ \A k \in ToSet(NamedKeys) : HasKey(new, k)
  /\ \A i \in DOMAIN new : new[i].key \in ToSet(NamedKeys) => new[i].of = "clone"
  /\ KeyAndOwner(Others(new)) = KeyAndOwner(Others(text))
  /\ \A i \in DOMAIN new : i < Len(new) => new[i].nls > 0
  /\ KeyAndOwner(Patch(new)) = KeyAndOwner(new)

\* HOW_IT_WORKS.md:136-138: the clone gets a UUID and a MAC of its own.  One
\* line can survive: the last of a text that does not end with a newline and
\* that has all three keys already.
IdentityIsFresh(text, new) ==
  LET survives == /\ text[Len(text)].nls = 0
                  /\ text[Len(text)].key \in IdentityKeys
                  /\ \A k \in ToSet(NamedKeys) : HasKey(text, k)
  IN  \A i \in DOMAIN new :
        new[i].key \in IdentityKeys => survives /\ i = Len(new)
=============================================================================
