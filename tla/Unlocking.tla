------------------------------ MODULE Unlocking ------------------------------
(***************************************************************************)
(* The ways into one protected file - a vault (VLTV) or a sealed file      *)
(* (VLTF) - and the commands of the command line that change them.  The    *)
(* header holds a list of stanzas; each wraps the data key of the body     *)
(* under what its factor yields.  A command reads the file, opens it with  *)
(* what the owner typed and plugged in, edits the stanzas in memory and    *)
(* writes the file: here one step, since what interleaved writers do to a  *)
(* vault file is the subject of VaultFile.  A refused command writes       *)
(* nothing and is no step, except where it has changed the token already.  *)
(*                                                                         *)
(* Secrets are numbers: the master password, a mistyped one, and the       *)
(* recovery codes in the order they are generated.                         *)
(***************************************************************************)
EXTENDS Integers, Sequences, SequencesExt

CONSTANTS MaxCodes,     \* recovery codes generated
          MaxKdf,       \* Argon2 settings the owner upgrades to
          MaxKeys,      \* data keys
          MaxSlots,     \* times slot 2 of the YubiKey is programmed
          MaxPcr        \* values PCR 7 takes

ASSUME BoundsAssumption == {MaxCodes, MaxKdf, MaxKeys, MaxSlots, MaxPcr} \subseteq Nat \ {0}

VARIABLES file,         \* kind, stanzas, and the kdf and key that are current
          slot,         \* the secret in slot 2 of the YubiKey
          pcr,          \* the state of the machine the TPM seals to
          code,         \* the recovery code shown last, 0 when none was
          told,         \* the ways in the owner was told of
          lapsed        \* those a command has ended without a word
vars == <<file, slot, pcr, code, told, lapsed>>

Master == -1
Typo == -2
NoFactor == 0
MyKeyfile == 1
OtherKeyfile == 2
Composite == {"yubikey", "keyfile"}
Hardware == {"fido2", "tpm"}
Ways == {"password", "recovery", "factor"} \cup Composite \cup Hardware

\* What the owner brings to a command: the text typed at the password
\* prompt, --recovery, the file of --keyfile, the devices plugged in.
Secrets == {Master, Typo} \cup 1..code
Brought == [typed : Secrets, recovery : BOOLEAN,
            keyfile : {NoFactor, MyKeyfile, OtherKeyfile},
            plugged : SUBSET ({"yubikey"} \cup Hardware)]

-----------------------------------------------------------------------------
(* Stanzas *)

\* The header lists its stanzas.  Only among the password stanzas does their
\* order tell anything apart, so they are a list here, and the others a set:
\* no command leaves two of a type among these.
Stanzas(f) == f.others \cup ToSet(f.passwords)

\* A stanza whose wrapping key is derived with Argon2 from a secret and,
\* for a composite one, the second factor.
Argon(type, secret, factor, f) ==
  [type |-> type, secret |-> secret, factor |-> factor, kdf |-> f.kdf, key |-> f.key]

Password(secret, f) == Argon("password", secret, NoFactor, f)

\* Mutant: the key of a device goes through Argon2 too.
DeviceStretched(type, factor, f) == Argon(type, Master, factor, f)

\* A FIDO2 or TPM stanza: the device yields the wrapping key by itself.
Device(type, factor, f) ==
  [type |-> type, secret |-> Master, factor |-> factor, kdf |-> 0, key |-> f.key]

Has(f, type) == \E s \in f.others : s.type = type
Is2fa(f) == \E type \in Composite : Has(f, type)
HasRecovery(f) == Len(f.passwords) > 1 \/ (Is2fa(f) /\ Len(f.passwords) = 1)

\* A stanza opens under the kdf parameters of the header, and what it
\* yields must be the key the header was authenticated with.
Unwraps(f, type, secret, factor) == Argon(type, secret, factor, f) \in Stanzas(f)

DeviceUnwraps(f, plugged) ==
  \E type \in Hardware \cap plugged :
     Device(type, IF type = "tpm" THEN pcr ELSE NoFactor, f) \in f.others

\* The stanza that is tried: a composite one if the file has it and
\* --recovery was not given, with no other to fall back to; else any
\* password stanza.
ByStanza(f, b) ==
  IF Has(f, "yubikey") /\ ~b.recovery
  THEN "yubikey" \in b.plugged /\ Unwraps(f, "yubikey", b.typed, slot)
  ELSE IF Has(f, "keyfile") /\ ~b.recovery
  THEN b.keyfile # NoFactor /\ Unwraps(f, "keyfile", b.typed, b.keyfile)
  ELSE Unwraps(f, "password", b.typed, NoFactor)

\* A vault without a second factor tries the devices first, and if one
\* opens it nothing looks at what was typed.
OpensVault(f, b) ==
  \/ ~b.recovery /\ ~Is2fa(f) /\ DeviceUnwraps(f, b.plugged)
  \/ ByStanza(f, b)

\* A sealed file never asks a device for a FIDO2 or TPM stanza.
OpensSealed(f, b) == ByStanza(f, b)

Opens(f, b) == IF f.kind = "vault" THEN OpensVault(f, b) ELSE OpensSealed(f, b)

\* Every command below starts by opening the file.
Opening == {b \in Brought : Opens(file, b)}

-----------------------------------------------------------------------------
(* Saving *)

\* A save of a vault that has a YubiKey stanza makes that stanza anew under
\* a new challenge, and keeps next to it the first password stanza only.
\* Without the key a strict save fails (no step), a graceful one keeps all.
Refreshes(f, b) == f.kind = "vault" /\ Has(f, "yubikey") /\ "yubikey" \in b.plugged

\* Mutant: the refreshed stanza replaces the recovery one as well.
SavedAlone(f, b) ==
  IF Refreshes(f, b)
  THEN [f EXCEPT !.others = {Argon("yubikey", b.typed, slot', f)}, !.passwords = << >>]
  ELSE f

Saved(f, b) ==
  IF Refreshes(f, b)
  THEN [f EXCEPT !.others = {Argon("yubikey", b.typed, slot', f)},
                 !.passwords = <<f.passwords[1]>>]
  ELSE f

-----------------------------------------------------------------------------
(* What the owner may count on *)

Sealed(l, way, right) == IF right THEN l \ {way} ELSE l \cup {way}

SaveLapses(l, f, b) ==
  IF Refreshes(f, b) THEN Sealed(l, "yubikey", b.typed = Master) \cup Hardware ELSE l

\* A device is only ever asked for by a vault without a second factor.
Added(l, f, type) == Sealed(l, type, f.kind = "vault" /\ ~Is2fa(f))

-----------------------------------------------------------------------------
(* The commands *)

Created(kind, c) ==
  LET f == [kind |-> kind, kdf |-> 1, key |-> 1, passwords |-> << >>, others |-> {}]
      first == Password(Master, f)
  IN  [f EXCEPT !.passwords = IF c = 0 THEN <<first>> ELSE <<first, Password(c, f)>>]

\* blindkey init, with or without a recovery code; blindkey seal.
Init == /\ \/ code \in {0, 1} /\ file = Created("vault", code)
           \/ code = 0 /\ file = Created("sealed", code)
        /\ slot = 1
        /\ pcr = 1
        /\ told = {"password"} \cup (IF code = 0 THEN {} ELSE {"recovery"})
        /\ lapsed = {}

\* add, edit, rm, import, pad, get: an entry changes and the vault is saved.
ChangeEntries(b) ==
  /\ file.kind = "vault"
  /\ UNCHANGED <<slot, pcr, code, told>>
  /\ file' = Saved(file, b)
  /\ lapsed' = SaveLapses(lapsed, file, b)

\* A second factor takes the place of every other stanza.
TwoFactor(f, b, type, factor, new) ==
  [f EXCEPT !.others = {Argon(type, b.typed, factor, f)},
            !.passwords = <<Password(new, f)>>]

Enroll2fa(b, type, factor, s) ==
  LET f == TwoFactor(file, b, type, factor, code + 1)
  IN  /\ code < MaxCodes
      /\ code' = code + 1
      /\ slot' = s
      /\ file' = Saved(f, b)
      /\ told' = {type, "recovery"}
      /\ lapsed' = SaveLapses(Sealed({}, type, b.typed = Master), f, b)
      /\ UNCHANGED pcr

EnrollKeyfile(b) ==
  /\ ~Is2fa(file)
  /\ Enroll2fa(b, "keyfile", MyKeyfile, slot)

\* Slot 2 of the key is programmed anew.  A sealed file is opened only
\* afterwards, with the new secret already in the slot.
EnrollYubikey(b) ==
  /\ slot < MaxSlots
  /\ "yubikey" \in b.plugged
  /\ ~Is2fa(file)
  /\ Enroll2fa(b, "yubikey", slot + 1, slot + 1)

EnrollYubikeyRefused(b) ==
  /\ slot < MaxSlots
  /\ "yubikey" \in b.plugged
  /\ file.kind = "sealed"
  /\ Is2fa(file) \/ b \notin Opening
  /\ slot' = slot + 1
  /\ lapsed' = lapsed \cup {"yubikey"}
  /\ UNCHANGED <<file, pcr, code, told>>

Fido2Added(f) == [f EXCEPT !.others = @ \cup {Device("fido2", NoFactor, f)}]

EnrollFido2(b) ==
  LET f == Fido2Added(file)
  IN  /\ "fido2" \in b.plugged
      /\ ~Has(file, "fido2")
      /\ UNCHANGED <<slot, pcr, code>>
      /\ file' = Saved(f, b)
      /\ told' = told \cup {"fido2"}
      /\ lapsed' = SaveLapses(Added(lapsed, file, "fido2"), f, b)

Without(f, type) == [f EXCEPT !.others = {s \in @ : s.type # type}]

\* The new stanza takes the place of the old one.
TpmSealed(f) == [f EXCEPT !.others = Without(f, "tpm").others \cup {Device("tpm", pcr, f)}]

\* enroll-tpm and re-enroll-tpm seal to the present state of the machine.
EnrollTpm(b) ==
  LET f == TpmSealed(file)
  IN  /\ "tpm" \in b.plugged
      /\ UNCHANGED <<slot, pcr, code>>
      /\ file' = Saved(f, b)
      /\ told' = told \cup {"tpm"}
      /\ lapsed' = SaveLapses(Added(lapsed, file, "tpm"), f, b)

\* stanzas remove: any stanza but the password ones.
RemoveStanza(b, type) ==
  LET f == Without(file, type)
  IN  /\ type # "password"
      /\ Has(file, type)
      /\ UNCHANGED <<slot, pcr, code>>
      /\ file' = Saved(f, b)
      /\ told' = told \ {type}
      /\ lapsed' = SaveLapses(lapsed, f, b)

\* The first password stanza is made anew, under what was typed; any other
\* stanza that Argon2 protects keeps the old parameters.
Upgraded(f, typed) ==
  LET g == [f EXCEPT !.kdf = @ + 1]
  IN  [g EXCEPT !.passwords[1] = Password(typed, g)]

UpgradeKdf(b) ==
  LET f == Upgraded(file, b.typed)
      l == Sealed(Sealed(lapsed \cup Composite, "recovery", b.typed = code),
                  "password", b.typed = Master)
  IN  /\ file.kdf < MaxKdf
      /\ UNCHANGED <<slot, pcr, code, told>>
      /\ file' = Saved(f, b)
      /\ lapsed' = SaveLapses(Sealed(l, "factor", ~(Is2fa(file) /\ b.typed = Master)), f, b)

\* Mutant: only the place of a password stanza tells which secret it takes.
RecoversByPlace(f, i) == i # 1

\* Whether the password stanza at i is the recovery one.
Recovers(f, i) == Is2fa(f) \/ i # 1

\* Mutant: FIDO2 and TPM stanzas are left as they are.
RotatableAnyhow(f) == TRUE

Rotatable(f) == \A type \in Hardware : ~Has(f, type)

\* The stanzas of f wrapped anew around the key of g.
Rewrapped(f, g, b, again) ==
  LET factor(s) == IF s.type = "yubikey" THEN slot ELSE b.keyfile
      wrapped(s) == IF s.type \in Composite THEN Argon(s.type, b.typed, factor(s), g) ELSE s
  IN  [g EXCEPT !.others = {wrapped(s) : s \in f.others},
                !.passwords = [i \in DOMAIN f.passwords |->
                   Password(IF Recovers(f, i) THEN again ELSE b.typed, g)]]

\* The recovery stanza takes the code typed again, which nothing compares
\* with the one it had; the password of a command that a device opened is
\* not compared either.
RotateDataKey(b, again) ==
  LET g == [file EXCEPT !.key = @ + 1]
      f == Rewrapped(file, g, b, again)
      shown == IF HasRecovery(file) THEN again ELSE b.typed
      ok == b.typed = Master
      passwords == Sealed(Sealed(Sealed(lapsed, "recovery", shown = code),
                                 "factor", shown # Master), "password", ok)
  IN  /\ file.key < MaxKeys
      /\ Rotatable(file)
      /\ Has(file, "yubikey") => "yubikey" \in b.plugged
      /\ Has(file, "keyfile") => b.keyfile # NoFactor
      /\ UNCHANGED <<slot, pcr, code, told>>
      /\ file' = Saved(f, b)
      /\ lapsed' = Sealed(Sealed(passwords, "yubikey", ok),
                          "keyfile", ok /\ b.keyfile = MyKeyfile)

\* A firmware or kernel update: the owner was told to enrol the TPM again.
MachineChanges ==
  /\ pcr < MaxPcr
  /\ pcr' = pcr + 1
  /\ told' = told \ {"tpm"}
  /\ UNCHANGED <<file, slot, code, lapsed>>

Next ==
  \/ \E b \in Opening :
        \/ ChangeEntries(b)
        \/ EnrollKeyfile(b)
        \/ EnrollYubikey(b)
        \/ EnrollFido2(b)
        \/ EnrollTpm(b)
        \/ \E type \in Composite \cup Hardware : RemoveStanza(b, type)
        \/ UpgradeKdf(b)
        \/ \E again \in Secrets : RotateDataKey(b, again)
  \/ \E b \in Brought : EnrollYubikeyRefused(b)
  \/ MachineChanges

Spec == Init /\ [][Next]_vars

-----------------------------------------------------------------------------
(* Properties *)

TypeOK ==
  /\ file.kind \in {"vault", "sealed"}
  /\ file.kdf \in 1..MaxKdf /\ file.key \in 1..MaxKeys
  /\ Len(file.passwords) \in 1..2
  /\ \A s \in file.others : s.type \in Composite \cup Hardware
  /\ \A s, t \in file.others : s.type = t.type => s = t
  /\ slot \in 1..MaxSlots /\ pcr \in 1..MaxPcr /\ code \in 0..MaxCodes
  /\ told \subseteq Ways /\ lapsed \subseteq Ways

\* What the owner brings to use a way in.
With(way) ==
  [typed |-> CASE way = "recovery" -> code [] way \in Hardware -> Typo [] OTHER -> Master,
   recovery |-> way = "recovery",
   keyfile |-> IF way = "keyfile" THEN MyKeyfile ELSE NoFactor,
   plugged |-> {way} \cap ({"yubikey"} \cup Hardware)]

\* Every way in that a command told the owner of opens the file, in any
\* sequence of commands, typing errors and changes of the machine, except
\* those a command is known to end without a word (lapsed).
PromisesKept == \A way \in told \ lapsed : Opens(file, With(way))

\* The header is well formed, and rotation leaves no stanza behind that yields another
\* key than the body's: opening through it would end in "header tampered".
OneKey == TypeOK /\ \A s \in Stanzas(file) : s.key = file.key

\* C5: whatever is enrolled, removed, upgraded or rotated, some password
\* stanza opens without any device - if only under what was typed last.
NeverShut == \E secret \in Secrets : Unwraps(file, "password", secret, NoFactor)

\* The master password alone opens no file that has a second factor, with
\* or without --recovery, unless upgrade-kdf or a rotation has put it into
\* the recovery stanza.
MasterAlone == {b \in Brought : b.typed = Master /\ b.keyfile = NoFactor /\ "yubikey" \notin b.plugged}
SecondFactorHolds ==
  Is2fa(file) /\ "factor" \notin lapsed => \A b \in MasterAlone : ~Opens(file, b)

=============================================================================
