-------------------------- MODULE Unlocking_proofs --------------------------
(***************************************************************************)
(* Proofs of the safety properties of Unlocking, for every number of       *)
(* recovery codes, Argon2 settings, data keys, YubiKey secrets and machine *)
(* states.                                                                 *)
(*                                                                         *)
(* A command edits the stanzas and then saves them, which may edit them    *)
(* again.  So what is known is said of a file f in memory, of the ways     *)
(* told and lapsed so far, and of the world (c, sl, p: the code shown      *)
(* last, slot 2, PCR 7), and each edit has a lemma that keeps it.          *)
(***************************************************************************)
EXTENDS Unlocking, SequenceTheorems, TLAPS

Stanza == [type : {"password"} \cup Composite \cup Hardware,
           secret : Int, factor : Int, kdf : Int, key : Int]

File == [kind : {"vault", "sealed"}, kdf : Int, key : Int,
         passwords : Seq(Stanza), others : SUBSET Stanza]

Known(c) == {Master, Typo} \cup 1..c

\* At most one stanza of each type beside the password ones, at most one
\* second factor, and next to that one password stanza only.  All of them
\* yield the current key, and the first password stanza opens under the
\* current parameters: no edit but an upgrade changes these, and an upgrade
\* makes that stanza anew.
Shape(f, c) ==
  /\ f \in File
  /\ Len(f.passwords) \in 1..2
  /\ \A s \in f.others : s.type \in Composite \cup Hardware /\ s.key = f.key
  /\ \A s, t \in f.others : s.type = t.type => s = t
  /\ ~(Has(f, "yubikey") /\ Has(f, "keyfile"))
  /\ \A i \in 1..Len(f.passwords) :
        f.passwords[i].type = "password" /\ f.passwords[i].key = f.key
  /\ Is2fa(f) => Len(f.passwords) = 1
  /\ \E s \in Known(c) : f.passwords[1] = Password(s, f)

\* The stanza behind each way in that the owner was told of.
Keeps(f, t, l, c, sl, p) ==
  /\ "password" \in t => ~Is2fa(f)
  /\ "password" \in t \ l => f.passwords[1] = Password(Master, f)
  /\ "recovery" \in t \ l => \E i \in 1..Len(f.passwords) : f.passwords[i] = Password(c, f)
  /\ \A type \in Composite \cap t : Has(f, type)
  /\ "yubikey" \in t \ l => Argon("yubikey", Master, sl, f) \in f.others
  /\ "keyfile" \in t \ l => Argon("keyfile", Master, MyKeyfile, f) \in f.others
  /\ (Hardware \cap t) \ l # {} => f.kind = "vault" /\ ~Is2fa(f)
  /\ "fido2" \in t \ l => Device("fido2", NoFactor, f) \in f.others
  /\ "tpm" \in t \ l => Device("tpm", p, f) \in f.others

\* What keeps the master password alone from opening the file.
Required(f, l) == Is2fa(f) /\ "factor" \notin l => f.passwords[1].secret # Master

\* The variables besides file.
Rest ==
  /\ slot \in 1..MaxSlots /\ pcr \in 1..MaxPcr /\ code \in 0..MaxCodes
  /\ told \subseteq Ways \ {"factor"} /\ lapsed \subseteq Ways

Sound(f, t, l, c, sl, p) == Shape(f, c) /\ Keeps(f, t, l, c, sl, p) /\ Required(f, l)

IInv ==
  /\ Rest
  /\ file.kdf \in 1..MaxKdf /\ file.key \in 1..MaxKeys
  /\ Sound(file, told, lapsed, code, slot, pcr)

-----------------------------------------------------------------------------
(* The invariant gives the properties *)

LEMMA InvOneKey == IInv => OneKey
  <1> SUFFICES ASSUME IInv PROVE OneKey
    OBVIOUS
  <1>1. TypeOK
    BY DEF IInv, Rest, Sound, Shape, File, TypeOK
  <1>2. \A s \in Stanzas(file) : s.key = file.key
    <2>1. file.passwords \in Seq(Stanza)
      BY DEF IInv, Sound, Shape, File
    <2>2. DOMAIN file.passwords = 1..Len(file.passwords)
      BY <2>1, LenProperties
    <2> QED
      BY <2>2 DEF IInv, Sound, Shape, Stanzas, ToSet
  <1> QED
    BY <1>1, <1>2 DEF OneKey

LEMMA InvNeverShut == IInv => NeverShut
  <1> SUFFICES ASSUME IInv PROVE NeverShut
    OBVIOUS
  <1>1. file.passwords \in Seq(Stanza) /\ Len(file.passwords) \in 1..2
    BY DEF IInv, Sound, Shape, File
  <1>2. 1 \in DOMAIN file.passwords
    BY <1>1, LenProperties
  <1>3. PICK s \in Known(code) : file.passwords[1] = Password(s, file)
    BY DEF IInv, Sound, Shape
  <1>4. s \in Secrets
    BY <1>3 DEF Known, Secrets
  <1>5. Unwraps(file, "password", s, NoFactor)
    BY <1>2, <1>3 DEF Unwraps, Password, Stanzas, ToSet
  <1> QED
    BY <1>4, <1>5 DEF NeverShut

LEMMA InvPromisesKept == IInv => PromisesKept
  <1> SUFFICES ASSUME IInv, NEW way \in told \ lapsed
               PROVE  Opens(file, With(way))
    BY DEF PromisesKept
  <1> DEFINE b == With(way)
  <1>1. /\ b.recovery = (way = "recovery")
        /\ b.keyfile = IF way = "keyfile" THEN MyKeyfile ELSE NoFactor
        /\ b.plugged = {way} \cap ({"yubikey"} \cup Hardware)
    BY DEF With
  <1>2. DOMAIN file.passwords = 1..Len(file.passwords) /\ 1 \in DOMAIN file.passwords
    BY LenProperties DEF IInv, Sound, Shape, File
  <1>3. file.kind \in {"vault", "sealed"}
    BY DEF IInv, Sound, Shape, File
  <1>4. Keeps(file, told, lapsed, code, slot, pcr)
    BY DEF IInv, Sound
  <1>5. ByStanza(file, b) => Opens(file, b)
    BY DEF Opens, OpensVault, OpensSealed
  <1>6. CASE way = "password"
    <2>1. b.typed = Master
      BY <1>6 DEF With, Hardware
    <2>2. ~Is2fa(file) /\ file.passwords[1] = Password(Master, file)
      BY <1>4, <1>6 DEF Keeps
    <2>3. Unwraps(file, "password", Master, NoFactor)
      BY <2>2, <1>2 DEF Unwraps, Password, Stanzas, ToSet
    <2>4. ByStanza(file, b)
      BY <2>1, <2>2, <2>3, <1>1, <1>6 DEF ByStanza, Is2fa, Composite
    <2> QED
      BY <2>4, <1>5
  <1>7. CASE way = "recovery"
    <2>1. b.typed = code
      BY <1>7 DEF With, Hardware
    <2>2. PICK i \in DOMAIN file.passwords : file.passwords[i] = Password(code, file)
      BY <1>2, <1>4, <1>7 DEF Keeps
    <2>3. Unwraps(file, "password", code, NoFactor)
      BY <2>2 DEF Unwraps, Password, Stanzas, ToSet
    <2>4. ByStanza(file, b)
      BY <2>1, <2>3, <1>1, <1>7 DEF ByStanza
    <2> QED
      BY <2>4, <1>5
  <1>8. CASE way = "yubikey"
    <2>1. b.typed = Master
      BY <1>8 DEF With, Hardware
    <2>2. Has(file, "yubikey") /\ Unwraps(file, "yubikey", Master, slot)
      BY <1>4, <1>8 DEF Keeps, Unwraps, Stanzas, Composite
    <2>3. ~b.recovery /\ "yubikey" \in b.plugged
      BY <1>8 DEF With
    <2>4. ByStanza(file, b)
      BY <2>1, <2>2, <2>3 DEF ByStanza
    <2> QED
      BY <2>4, <1>5
  <1>9. CASE way = "keyfile"
    <2>1. b.typed = Master
      BY <1>9 DEF With, Hardware
    <2>2. Has(file, "keyfile") /\ Unwraps(file, "keyfile", Master, MyKeyfile)
      BY <1>4, <1>9 DEF Keeps, Unwraps, Stanzas, Composite
    <2>3. ~Has(file, "yubikey")
      BY <2>2 DEF IInv, Sound, Shape
    <2>4. ~b.recovery /\ b.keyfile = MyKeyfile
      BY <1>9 DEF With
    <2>5. ByStanza(file, b)
      BY <2>1, <2>2, <2>3, <2>4 DEF ByStanza, MyKeyfile, NoFactor
    <2> QED
      BY <2>5, <1>5
  <1>10. CASE way \in Hardware
    <2>1. file.kind = "vault" /\ ~Is2fa(file)
      BY <1>4, <1>10 DEF Keeps
    <2>2. Device(way, IF way = "tpm" THEN pcr ELSE NoFactor, file) \in file.others
      BY <1>4, <1>10 DEF Keeps, Hardware
    <2>3. DeviceUnwraps(file, b.plugged)
      BY <2>2, <1>1, <1>10 DEF DeviceUnwraps
    <2>4. ~b.recovery
      BY <1>10 DEF With, Hardware
    <2>5. OpensVault(file, b)
      BY <2>1, <2>3, <2>4 DEF OpensVault
    <2> QED
      BY <2>1, <2>5 DEF Opens
  <1> QED
    BY <1>6, <1>7, <1>8, <1>9, <1>10 DEF IInv, Rest, Ways, Composite

LEMMA InvSecondFactorHolds == IInv => SecondFactorHolds
  <1> SUFFICES ASSUME IInv, Is2fa(file), "factor" \notin lapsed,
                      NEW b \in MasterAlone, Opens(file, b)
               PROVE  FALSE
    BY DEF SecondFactorHolds
  <1>1. ByStanza(file, b)
    BY DEF Opens, OpensVault, OpensSealed
  <1>2. Unwraps(file, "password", Master, NoFactor)
    BY <1>1 DEF ByStanza, MasterAlone
  <1>3. /\ DOMAIN file.passwords = 1..1
        /\ file.passwords[1].secret # Master
    BY LenProperties DEF IInv, Sound, Shape, Required, File
  <1>4. \A s \in file.others : s.type # "password"
    BY DEF IInv, Sound, Shape, Composite, Hardware
  <1>5. Argon("password", Master, NoFactor, file).type = "password"
        /\ Argon("password", Master, NoFactor, file).secret = Master
    BY DEF Argon
  <1>6. Argon("password", Master, NoFactor, file) \notin file.others
    BY <1>4, <1>5
  <1>7. Argon("password", Master, NoFactor, file) \notin ToSet(file.passwords)
    BY <1>3, <1>5 DEF ToSet
  <1> QED
    BY <1>2, <1>6, <1>7 DEF Unwraps, Stanzas

-----------------------------------------------------------------------------
(* Each edit of the stanzas keeps the invariant *)

LEMMA ArgonType ==
  ASSUME NEW f \in File, NEW secret \in Int, NEW factor \in Int,
         NEW type \in {"password"} \cup Composite
  PROVE  /\ Argon(type, secret, factor, f) \in Stanza
         /\ Argon(type, secret, factor, f).type = type
         /\ Argon(type, secret, factor, f).key = f.key
  BY DEF Argon, Stanza, File

LEMMA DeviceType ==
  ASSUME NEW f \in File, NEW factor \in Int, NEW type \in Hardware
  PROVE  /\ Device(type, factor, f) \in Stanza
         /\ Device(type, factor, f).type = type
         /\ Device(type, factor, f).key = f.key
  BY DEF Device, Stanza, File, Master

LEMMA PasswordType ==
  ASSUME NEW f \in File, NEW secret \in Int
  PROVE  /\ Password(secret, f) \in Stanza
         /\ Password(secret, f).type = "password"
         /\ Password(secret, f).secret = secret
         /\ Password(secret, f).key = f.key
  BY DEF Password, Argon, Stanza, File, NoFactor

LEMMA KnownInt == ASSUME NEW c \in Nat PROVE Known(c) \subseteq Int
  BY DEF Known, Master, Typo

LEMMA Lengths ==
  ASSUME NEW f, NEW c, Shape(f, c)
  PROVE  /\ f.passwords \in Seq(Stanza)
         /\ DOMAIN f.passwords = 1..Len(f.passwords)
         /\ Len(f.passwords) \in 1..Len(f.passwords)
         /\ 1 \in 1..Len(f.passwords)
         /\ HasRecovery(f) <=> Recovers(f, Len(f.passwords))
         /\ Is2fa(f) => HasRecovery(f)
  <1>1. f.passwords \in Seq(Stanza) /\ Len(f.passwords) \in 1..2
    BY DEF Shape, File
  <1>2. DOMAIN f.passwords = 1..Len(f.passwords)
    BY <1>1, LenProperties
  <1> DEFINE k == Len(f.passwords)
  <1>3. k \in 1..2
    BY <1>1
  <1>4. HasRecovery(f) <=> k > 1 \/ (Is2fa(f) /\ k = 1)
    BY DEF HasRecovery
  <1>5. Recovers(f, k) <=> Is2fa(f) \/ k # 1
    BY DEF Recovers
  <1>6. Is2fa(f) => k = 1
    BY DEF Shape
  <1> HIDE DEF k
  <1>7. k \in 1..k /\ 1 \in 1..k /\ (k > 1 <=> k # 1)
    BY <1>3
  <1>8. (HasRecovery(f) <=> Recovers(f, k)) /\ (Is2fa(f) => HasRecovery(f))
    BY <1>4, <1>5, <1>6, <1>7, Zenon
  <1> QED
    BY <1>1, <1>2, <1>7, <1>8 DEF k

\* A second factor takes the place of every other stanza.
LEMMA TwoFactorSound ==
  ASSUME NEW f, NEW c \in Nat, Shape(f, c),
         NEW b, b.typed \in Int,
         NEW factor \in Int, NEW sl, NEW p, NEW type \in Composite,
         type = "yubikey" => factor = sl,
         type = "keyfile" => factor = MyKeyfile
  PROVE  Sound(TwoFactor(f, b, type, factor, c + 1), {type, "recovery"},
               Sealed({}, type, b.typed = Master), c + 1, sl, p)
  <1> DEFINE g == TwoFactor(f, b, type, factor, c + 1)
             s == Argon(type, b.typed, factor, f)
             w == Password(c + 1, f)
             l == Sealed({}, type, b.typed = Master)
  <1>1. f \in File
    BY DEF Shape
  <1>2. s \in Stanza /\ s.type = type /\ s.key = f.key
    <2>1. type \in {"password"} \cup Composite
      OBVIOUS
    <2> QED
      BY <2>1, <1>1, ArgonType
  <1>3. w \in Stanza /\ w.type = "password" /\ w.key = f.key /\ w.secret = c + 1
    BY <1>1, PasswordType
  <1>4. /\ g \in File
        /\ g.kind = f.kind /\ g.kdf = f.kdf /\ g.key = f.key
        /\ g.others = {s} /\ g.passwords = <<w>>
    <2>1. g = [f EXCEPT !.others = {s}, !.passwords = <<w>>]
      BY DEF TwoFactor
    <2>2. <<w>> \in Seq(Stanza) /\ {s} \in SUBSET Stanza
      BY <1>2, <1>3
    <2> HIDE DEF s, w, g
    <2> QED
      BY <1>1, <2>1, <2>2 DEF File
  <1>5. \A a1, a2, a3 : Argon(a1, a2, a3, g) = Argon(a1, a2, a3, f)
    BY <1>4 DEF Argon
  <1>6. \A a1 : Password(a1, g) = Password(a1, f)
    BY <1>5 DEF Password
  <1>7. Len(g.passwords) = 1 /\ g.passwords[1] = w
    BY <1>4
  <1>8. \A x : Has(g, x) <=> x = type
    BY <1>2, <1>4 DEF Has
  <1>9. Shape(g, c + 1)
    <2>1. ~(Has(g, "yubikey") /\ Has(g, "keyfile"))
      BY <1>8
    <2>2. c + 1 \in Known(c + 1)
      BY DEF Known
    <2> QED
      BY <2>1, <2>2, <1>2, <1>3, <1>4, <1>6, <1>7 DEF Shape
  <1>10. "recovery" \notin l /\ Hardware \cap {type, "recovery"} = {}
         /\ "password" # type /\ (type \notin l => b.typed = Master)
    BY DEF Sealed, Hardware, Composite
  <1>11. Keeps(g, {type, "recovery"}, l, c + 1, sl, p)
    <2>1. type \notin l => Argon(type, Master, factor, g) \in g.others
      BY <1>10, <1>4, <1>5
    <2> QED
      BY <2>1, <1>4, <1>6, <1>7, <1>8, <1>10 DEF Keeps, Hardware, Composite
  <1>12. Required(g, l)
    BY <1>3, <1>7 DEF Required, Master
  <1> QED
    BY <1>9, <1>11, <1>12 DEF Sound

\* A stanza for a device is added, or takes the place of the one there was.
LEMMA DeviceSound ==
  ASSUME NEW f, NEW t, NEW l, NEW c \in Nat, NEW sl, NEW p \in Int, Sound(f, t, l, c, sl, p),
         NEW type \in Hardware, NEW factor \in Int,
         factor = IF type = "tpm" THEN p ELSE NoFactor,
         NEW g,
         g = [f EXCEPT !.others = Without(f, type).others \cup {Device(type, factor, f)}]
  PROVE  Sound(g, t \cup {type}, Added(l, f, type), c, sl, p)
  <1> DEFINE d == Device(type, factor, f)
             m == Added(l, f, type)
  <1>1. f \in File
    BY DEF Sound, Shape
  <1>2. d \in Stanza /\ d.type = type /\ d.key = f.key
    BY <1>1, DeviceType
  <1>3. Without(f, type).others = {s \in f.others : s.type # type}
    BY <1>1 DEF Without, File
  <1>4. /\ g \in File
        /\ g.kind = f.kind /\ g.kdf = f.kdf /\ g.key = f.key
        /\ g.passwords = f.passwords
        /\ g.others = {s \in f.others : s.type # type} \cup {d}
    BY <1>1, <1>2, <1>3 DEF File
  <1>5. \A a1, a2, a3 : Argon(a1, a2, a3, g) = Argon(a1, a2, a3, f)
    BY <1>4 DEF Argon
  <1>6. \A a1 : Password(a1, g) = Password(a1, f)
    BY <1>5 DEF Password
  <1>7. \A a1, a2 : Device(a1, a2, g) = Device(a1, a2, f)
    BY <1>4 DEF Device
  <1>8. \A x : x # type => (Has(g, x) <=> Has(f, x))
    BY <1>2, <1>4 DEF Has
  <1>9. \A x \in Composite : Has(g, x) <=> Has(f, x)
    BY <1>8 DEF Composite, Hardware
  <1>10. Is2fa(g) <=> Is2fa(f)
    BY <1>9 DEF Is2fa
  <1>11. Shape(g, c)
    <2>1. \A s \in g.others : s.type \in Composite \cup Hardware /\ s.key = g.key
      BY <1>2, <1>4 DEF Sound, Shape
    <2>2. \A s, u \in g.others : s.type = u.type => s = u
      BY <1>2, <1>4 DEF Sound, Shape
    <2> QED
      BY <2>1, <2>2, <1>4, <1>6, <1>9, <1>10 DEF Sound, Shape, Composite
  <1>12. /\ \A x : x # type => (x \in m <=> x \in l)
         /\ type \notin m => f.kind = "vault" /\ ~Is2fa(f)
    BY DEF Added, Sealed
  <1>13. \A s \in f.others : s.type # type => s \in g.others
    BY <1>4
  <1>14. Keeps(g, t \cup {type}, m, c, sl, p)
    <2> USE DEF Sound, Keeps
    <2>1. \A x \in Composite \cap (t \cup {type}) : Has(g, x)
      BY <1>9 DEF Composite, Hardware
    <2>2. "yubikey" \in (t \cup {type}) \ m => Argon("yubikey", Master, sl, g) \in g.others
      BY <1>5, <1>12, <1>13 DEF Hardware, Argon
    <2>3. "keyfile" \in (t \cup {type}) \ m => Argon("keyfile", Master, MyKeyfile, g) \in g.others
      BY <1>5, <1>12, <1>13 DEF Hardware, Argon
    <2>4. (Hardware \cap (t \cup {type})) \ m # {} => f.kind = "vault" /\ ~Is2fa(f)
      BY <1>12
    <2>5. "fido2" \in (t \cup {type}) \ m => Device("fido2", NoFactor, g) \in g.others
      BY <1>4, <1>7, <1>12, <1>13 DEF Hardware, Device
    <2>6. "tpm" \in (t \cup {type}) \ m => Device("tpm", p, g) \in g.others
      BY <1>4, <1>7, <1>12, <1>13 DEF Hardware, Device
    <2>7. /\ "password" \in t \cup {type} => ~Is2fa(g)
          /\ "password" \in (t \cup {type}) \ m => g.passwords[1] = Password(Master, g)
      BY <1>4, <1>6, <1>10, <1>12 DEF Hardware
    <2>8. "recovery" \in (t \cup {type}) \ m =>
             \E i \in 1..Len(g.passwords) : g.passwords[i] = Password(c, g)
      BY <1>4, <1>6, <1>12 DEF Hardware
    <2> QED
      BY <2>1, <2>2, <2>3, <2>4, <2>5, <2>6, <2>7, <2>8, <1>4, <1>10
  <1>15. Required(g, m)
    BY <1>4, <1>10, <1>12 DEF Sound, Required, Hardware
  <1> QED
    BY <1>11, <1>14, <1>15 DEF Sound

\* No edit but this shuts a way in as it was asked to.
LEMMA WithoutSound ==
  ASSUME NEW f, NEW t, NEW l, NEW c \in Nat, NEW sl, NEW p, Sound(f, t, l, c, sl, p),
         NEW type \in Composite \cup Hardware
  PROVE  Sound(Without(f, type), t \ {type}, l, c, sl, p)
  <1> DEFINE g == Without(f, type)
             u == t \ {type}
  <1>1. f \in File
    BY DEF Sound, Shape
  <1>2. /\ g \in File
        /\ g.kind = f.kind /\ g.kdf = f.kdf /\ g.key = f.key
        /\ g.passwords = f.passwords
        /\ g.others = {s \in f.others : s.type # type}
    BY <1>1 DEF File, Without
  <1>3. \A a1, a2, a3 : Argon(a1, a2, a3, g) = Argon(a1, a2, a3, f)
    BY <1>2 DEF Argon
  <1>4. \A a1 : Password(a1, g) = Password(a1, f)
    BY <1>3 DEF Password
  <1>5. \A a1, a2 : Device(a1, a2, g) = Device(a1, a2, f)
    BY <1>2 DEF Device
  <1>6. \A x : Has(g, x) <=> x # type /\ Has(f, x)
    BY <1>2 DEF Has
  <1>7. Is2fa(g) => Is2fa(f)
    BY <1>6 DEF Is2fa
  <1>8. Shape(g, c)
    BY <1>2, <1>4, <1>6, <1>7 DEF Sound, Shape
  <1>9. \A s \in f.others : s.type # type => s \in g.others
    BY <1>2
  <1>10. Keeps(g, u, l, c, sl, p)
    <2> USE DEF Sound, Keeps
    <2>1. \A x \in Composite \cap u : Has(g, x)
      BY <1>6
    <2>2. "yubikey" \in u \ l => Argon("yubikey", Master, sl, g) \in g.others
      BY <1>3, <1>9 DEF Argon
    <2>3. "keyfile" \in u \ l => Argon("keyfile", Master, MyKeyfile, g) \in g.others
      BY <1>3, <1>9 DEF Argon
    <2>4. "fido2" \in u \ l => Device("fido2", NoFactor, g) \in g.others
      BY <1>5, <1>9 DEF Device
    <2>5. "tpm" \in u \ l => Device("tpm", p, g) \in g.others
      BY <1>5, <1>9 DEF Device
    <2>6. "recovery" \in u \ l => \E i \in 1..Len(g.passwords) : g.passwords[i] = Password(c, g)
      BY <1>2, <1>4
    <2> QED
      BY <2>1, <2>2, <2>3, <2>4, <2>5, <2>6, <1>2, <1>4, <1>7
  <1>11. Required(g, l)
    BY <1>2, <1>7 DEF Sound, Required
  <1> QED
    BY <1>8, <1>10, <1>11 DEF Sound

\* An upgrade makes the first password stanza anew, and leaves every other
\* one that Argon2 protects under parameters that are no longer current.
LEMMA UpgradedSound ==
  ASSUME NEW f, NEW t, NEW l, NEW c \in Nat, NEW sl, NEW p, Sound(f, t, l, c, sl, p),
         NEW typed \in Known(c)
  PROVE  LET m == Sealed(Sealed(l \cup Composite, "recovery", typed = c),
                         "password", typed = Master)
         IN  Sound(Upgraded(f, typed), t,
                   Sealed(m, "factor", ~(Is2fa(f) /\ typed = Master)), c, sl, p)
  <1> DEFINE g == [f EXCEPT !.kdf = @ + 1]
             h == Upgraded(f, typed)
             w == Password(typed, g)
             m == Sealed(Sealed(l \cup Composite, "recovery", typed = c),
                         "password", typed = Master)
             n == Sealed(m, "factor", ~(Is2fa(f) /\ typed = Master))
  <1>1. f \in File /\ f.passwords \in Seq(Stanza) /\ Len(f.passwords) \in 1..2
    BY DEF Sound, Shape, File
  <1>2. /\ g \in File
        /\ g.kind = f.kind /\ g.kdf = f.kdf + 1 /\ g.key = f.key
        /\ g.passwords = f.passwords /\ g.others = f.others
    BY <1>1 DEF File
  <1>3. w \in Stanza /\ w.type = "password" /\ w.key = f.key /\ w.secret = typed
    BY <1>2, PasswordType, KnownInt
  <1>4. h = [g EXCEPT !.passwords = [@ EXCEPT ![1] = w]]
    BY DEF Upgraded
  <1>5. /\ [f.passwords EXCEPT ![1] = w] \in Seq(Stanza)
        /\ Len([f.passwords EXCEPT ![1] = w]) = Len(f.passwords)
        /\ [f.passwords EXCEPT ![1] = w][1] = w
        /\ \A i \in 1..Len(f.passwords) :
             i # 1 => [f.passwords EXCEPT ![1] = w][i] = f.passwords[i]
    <2>1. DOMAIN f.passwords = 1..Len(f.passwords) /\ 1 \in 1..Len(f.passwords)
      BY <1>1, LenProperties
    <2> HIDE DEF w
    <2>2. [f.passwords EXCEPT ![1] = w] \in Seq(Stanza)
          /\ Len([f.passwords EXCEPT ![1] = w]) = Len(f.passwords)
      BY <2>1, <1>1, <1>3, ExceptSeq
    <2> QED
      BY <2>1, <2>2
  <1>6. /\ h \in File
        /\ h.kind = g.kind /\ h.kdf = g.kdf /\ h.key = g.key
        /\ h.passwords = [f.passwords EXCEPT ![1] = w] /\ h.others = f.others
    <2> HIDE DEF g, w, h
    <2> QED
      BY <1>2, <1>4, <1>5 DEF File
  <1>7. \A a1 : Password(a1, h) = Password(a1, g)
    BY <1>6 DEF Password, Argon
  <1>8. \A a1, a2 : Device(a1, a2, h) = Device(a1, a2, f)
    BY <1>2, <1>6 DEF Device
  <1>9. \A x : Has(h, x) <=> Has(f, x)
    BY <1>6 DEF Has
  <1>10. Is2fa(h) <=> Is2fa(f)
    BY <1>9 DEF Is2fa
  <1>11. Shape(h, c)
    <2>1. /\ Len(h.passwords) \in 1..2
          /\ Is2fa(h) => Len(h.passwords) = 1
          /\ \A i \in 1..Len(h.passwords) :
                h.passwords[i].type = "password" /\ h.passwords[i].key = h.key
      BY <1>2, <1>3, <1>5, <1>6, <1>10 DEF Sound, Shape
    <2>2. h.passwords[1] = Password(typed, h)
      BY <1>5, <1>6, <1>7
    <2>3. /\ \A s \in h.others : s.type \in Composite \cup Hardware /\ s.key = h.key
          /\ \A s, u \in h.others : s.type = u.type => s = u
      BY <1>2, <1>6 DEF Sound, Shape
    <2> QED
      BY <2>1, <2>2, <2>3, <1>6, <1>9 DEF Sound, Shape
  <1>12. /\ "yubikey" \in n /\ "keyfile" \in n
         /\ "recovery" \notin n => typed = c
         /\ "password" \notin n => typed = Master
         /\ "factor" \notin n => ~(Is2fa(f) /\ typed = Master)
         /\ \A x \in Hardware : x \in n <=> x \in l
    BY DEF Sealed, Composite, Hardware
  <1>13. Keeps(h, t, n, c, sl, p)
    <2> HIDE DEF n, m, h, g, w
    <2> USE DEF Sound, Keeps
    <2>1. \A x \in Composite \cap t : Has(h, x)
      BY <1>9
    <2>2. "recovery" \in t \ n => \E i \in 1..Len(h.passwords) : h.passwords[i] = Password(c, h)
      BY <1>1, <1>5, <1>6, <1>7, <1>12 DEF w
    <2>3. /\ "password" \in t => ~Is2fa(h)
          /\ "password" \in t \ n => h.passwords[1] = Password(Master, h)
      BY <1>5, <1>6, <1>7, <1>10, <1>12 DEF w
    <2>4. (Hardware \cap t) \ n # {} => h.kind = "vault" /\ ~Is2fa(h)
      BY <1>2, <1>6, <1>10, <1>12
    <2>5. /\ "fido2" \in t \ n => Device("fido2", NoFactor, h) \in h.others
          /\ "tpm" \in t \ n => Device("tpm", p, h) \in h.others
      BY <1>6, <1>8, <1>12 DEF Hardware
    <2> QED
      BY <2>1, <2>2, <2>3, <2>4, <2>5, <1>12
  <1>14. Required(h, n)
    BY <1>3, <1>5, <1>6, <1>10, <1>12 DEF Required
  <1> QED
    BY <1>11, <1>13, <1>14 DEF Sound

\* A rotation wraps every stanza anew, around a new key.
LEMMA RewrappedSound ==
  ASSUME NEW f, NEW t, NEW l, NEW c \in Nat, NEW sl, NEW p, Sound(f, t, l, c, sl, p),
         slot \in Int, NEW b, b.typed \in Known(c), b.keyfile \in Int,
         NEW again \in Known(c), Rotatable(f),
         NEW n, NEW shown, shown = IF HasRecovery(f) THEN again ELSE b.typed,
         "recovery" \notin n => shown = c,
         "factor" \notin n => shown # Master,
         "password" \notin n => b.typed = Master,
         "yubikey" \notin n => b.typed = Master,
         "keyfile" \notin n => b.typed = Master /\ b.keyfile = MyKeyfile,
         \A x \in Hardware : x \notin n => x \notin l
  PROVE  LET h == Rewrapped(f, [f EXCEPT !.key = @ + 1], b, again)
         IN  /\ Sound(h, t, n, c, slot, p)
             /\ h.kind = f.kind /\ h.kdf = f.kdf /\ h.key = f.key + 1
             /\ \A type : Has(h, type) <=> Has(f, type)
             /\ Has(f, "yubikey") => Argon("yubikey", b.typed, slot, h) \in h.others
  <1> DEFINE g == [f EXCEPT !.key = @ + 1]
             h == Rewrapped(f, g, b, again)
             with(s) == IF s.type = "yubikey" THEN slot ELSE b.keyfile
             text(i) == IF Recovers(f, i) THEN again ELSE b.typed
             O == {Argon(s.type, b.typed, with(s), g) : s \in f.others}
             P == [i \in DOMAIN f.passwords |-> Password(text(i), g)]
  <1>0. /\ HasRecovery(f) => shown = again
        /\ ~HasRecovery(f) => shown = b.typed
    OBVIOUS
  <1>1. f \in File /\ f.passwords \in Seq(Stanza) /\ Len(f.passwords) \in 1..2
    BY DEF Sound, Shape, File
  <1>2. /\ g \in File
        /\ g.kind = f.kind /\ g.kdf = f.kdf /\ g.key = f.key + 1
        /\ g.passwords = f.passwords /\ g.others = f.others
    BY <1>1 DEF File
  <1>3. \A s \in f.others : s.type \in Composite
    BY DEF Sound, Shape, Rotatable, Has
  <1>4. h = [g EXCEPT !.others = O, !.passwords = P]
    <2>1. h = [g EXCEPT !.others = {IF s.type \in Composite
                                    THEN Argon(s.type, b.typed, with(s), g) ELSE s : s \in f.others},
                        !.passwords = P]
      BY DEF Rewrapped
    <2> HIDE DEF g, h, P, with
    <2>2. O = {IF s.type \in Composite
               THEN Argon(s.type, b.typed, with(s), g) ELSE s : s \in f.others}
      BY <1>3
    <2> QED
      BY <2>1, <2>2
  <1>5. b.typed \in Int /\ again \in Int /\ \A i : text(i) \in Int
    BY KnownInt
  <1>6. O \in SUBSET Stanza
    <2>1. \A s \in f.others : Argon(s.type, b.typed, with(s), g) \in Stanza
      <3> TAKE s \in f.others
      <3>1. s.type \in {"password"} \cup Composite /\ with(s) \in Int
        BY <1>3
      <3> QED
        BY <3>1, <1>2, <1>5, ArgonType
    <2> QED
      BY <2>1
  <1>7. /\ DOMAIN f.passwords = 1..Len(f.passwords)
        /\ Len(f.passwords) \in 1..Len(f.passwords) /\ 1 \in 1..Len(f.passwords)
        /\ HasRecovery(f) <=> Recovers(f, Len(f.passwords))
        /\ Is2fa(f) => HasRecovery(f)
    <2>1. Shape(f, c)
      BY DEF Sound
    <2> QED
      BY <2>1, Lengths, Zenon
  <1>8. P \in Seq(Stanza) /\ Len(P) = Len(f.passwords)
        /\ \A i \in 1..Len(f.passwords) : P[i] = Password(text(i), g)
    <2>1. \A i \in 1..Len(f.passwords) : Password(text(i), g) \in Stanza
      BY <1>2, <1>5, PasswordType
    <2> HIDE DEF text, g
    <2>2. Len(f.passwords) \in Nat
      BY <1>1
    <2>3. P \in Seq(Stanza)
      BY <2>1, <2>2, <1>7, IsASeq
    <2> QED
      BY <2>2, <2>3, <1>7, LenProperties
  <1>9. /\ h \in File
        /\ h.kind = g.kind /\ h.kdf = g.kdf /\ h.key = g.key
        /\ h.passwords = P /\ h.others = O
    <2> HIDE DEF g, h, O, P
    <2> QED
      BY <1>2, <1>4, <1>6, <1>8 DEF File
  <1>10. \A a1, a2, a3 : Argon(a1, a2, a3, h) = Argon(a1, a2, a3, g)
    BY <1>9 DEF Argon
  <1>11. \A a1 : Password(a1, h) = Password(a1, g)
    BY <1>10 DEF Password
  <1>12. \A x : Has(h, x) <=> Has(f, x)
    <2>1. \A s \in f.others : Argon(s.type, b.typed, with(s), g).type = s.type
      BY DEF Argon
    <2> HIDE DEF with, g, h
    <2> QED
      BY <2>1, <1>9 DEF Has
  <1>13. Is2fa(h) <=> Is2fa(f)
    BY <1>12 DEF Is2fa
  <1>14. \A i \in 1..Len(f.passwords) :
            P[i].type = "password" /\ P[i].key = g.key /\ P[i].secret = text(i)
    <2> HIDE DEF text, g, P
    <2> QED
      BY <1>2, <1>5, <1>8, PasswordType
  <1>15. Shape(h, c)
    <2>1. /\ \A s \in h.others : s.type \in Composite \cup Hardware /\ s.key = h.key
          /\ \A s, u \in h.others : s.type = u.type => s = u
      <3>1. \A s \in f.others : Argon(s.type, b.typed, with(s), g).type = s.type
                              /\ Argon(s.type, b.typed, with(s), g).key = g.key
        BY DEF Argon
      <3> HIDE DEF with, g, h
      <3> QED
        BY <3>1, <1>3, <1>9 DEF Sound, Shape
    <2>2. text(1) \in Known(c) /\ h.passwords[1] = Password(text(1), h)
      BY <1>1, <1>8, <1>9, <1>11
    <2> HIDE DEF text, g, h, O, P
    <2> QED
      BY <2>1, <2>2, <1>8, <1>9, <1>12, <1>13, <1>14 DEF Sound, Shape
  <1>16. \A type \in Composite : Has(f, type) =>
            \E s \in f.others : s.type = type /\ Argon(type, b.typed, with(s), h) \in h.others
    BY <1>9, <1>10 DEF Has
  <1>17. \A x \in Hardware : x \notin t \ n
    BY DEF Sound, Keeps, Rotatable, Has, Device, Hardware
  <1>18. Keeps(h, t, n, c, slot, p)
    <2>1. /\ \A x \in Composite \cap t : Has(f, x)
          /\ "password" \in t => ~Is2fa(f)
      BY DEF Sound, Keeps
    <2>2. "yubikey" \in t \ n => Argon("yubikey", Master, slot, h) \in h.others
      BY <2>1, <1>16 DEF Composite
    <2>3. "keyfile" \in t \ n => Argon("keyfile", Master, MyKeyfile, h) \in h.others
      BY <2>1, <1>16 DEF Composite
    <2>4. ASSUME "password" \in t \ n PROVE h.passwords[1] = Password(Master, h)
      <3>1. ~Recovers(f, 1)
        BY <2>1, <2>4 DEF Recovers
      <3> QED
        BY <3>1, <2>4, <1>1, <1>8, <1>9, <1>11
    <2>5. ASSUME "recovery" \in t \ n
          PROVE  \E i \in 1..Len(h.passwords) : h.passwords[i] = Password(c, h)
      <3>3. text(Len(f.passwords)) = shown
        BY <1>0, <1>7, Zenon
      <3> HIDE DEF text, g, h, O, P, with
      <3>5. P[Len(f.passwords)] = Password(shown, g)
        BY <3>3, <1>7, <1>8, Zenon
      <3>6. h.passwords[Len(f.passwords)] = Password(c, h)
        BY <2>5, <3>5, <1>9, <1>11, Zenon
      <3> QED
        BY <3>6, <1>7, <1>8, <1>9, Zenon
    <2> HIDE DEF h
    <2> QED
      BY <2>1, <2>2, <2>3, <2>4, <2>5, <1>12, <1>13, <1>17 DEF Keeps, Hardware
  <1>19. Required(h, n)
    <2> SUFFICES ASSUME Is2fa(f), "factor" \notin n PROVE h.passwords[1].secret # Master
      BY <1>13 DEF Required
    <2>1. HasRecovery(f) /\ Recovers(f, 1)
      BY <1>7, Zenon DEF Recovers
    <2>2. text(1) # Master
      BY <1>0, <2>1
    <2> HIDE DEF text, g, h, O, P, with
    <2>4. P[1].secret = text(1)
      BY <1>7, <1>14, Zenon
    <2> QED
      BY <2>2, <2>4, <1>9, Zenon
  <1>20. Has(f, "yubikey") => Argon("yubikey", b.typed, slot, h) \in h.others
    BY <1>16 DEF Composite
  <1>21. h.kind = f.kind /\ h.kdf = f.kdf /\ h.key = f.key + 1
    <2> HIDE DEF g, h, P, O, with, text
    <2> QED
      BY <1>2, <1>9
  <1>22. Sound(h, t, n, c, slot, p)
    BY <1>15, <1>18, <1>19, Zenon DEF Sound
  <1> QED
    BY <1>12, <1>20, <1>21, <1>22, Zenon

\* A save that makes the YubiKey stanza anew drops the hardware ones and all
\* password stanzas but the first, which beside a second factor is the only one.
LEMMA SavedSound ==
  ASSUME NEW f, NEW t, NEW l, NEW c \in Nat, NEW p, Sound(f, t, l, c, slot', p),
         slot' \in Int, NEW b, b.typed \in Known(c)
  PROVE  /\ Sound(Saved(f, b), t, SaveLapses(l, f, b), c, slot', p)
         /\ Saved(f, b).kdf = f.kdf /\ Saved(f, b).key = f.key
  <1>1. CASE ~Refreshes(f, b)
    <2>1. Saved(f, b) = f /\ SaveLapses(l, f, b) = l
      BY <1>1 DEF Saved, SaveLapses
    <2> QED
      BY <2>1
  <1>2. CASE Refreshes(f, b)
    <2> DEFINE s == Argon("yubikey", b.typed, slot', f)
               w == f.passwords[1]
               g == [f EXCEPT !.others = {s}, !.passwords = <<w>>]
               n == Sealed(l, "yubikey", b.typed = Master) \cup Hardware
    <2>1. Saved(f, b) = g /\ SaveLapses(l, f, b) = n
      BY <1>2 DEF Saved, SaveLapses
    <2>2. f \in File /\ Shape(f, c) /\ Has(f, "yubikey") /\ Is2fa(f)
      BY <1>2 DEF Sound, Shape, Refreshes, Is2fa, Composite
    <2>3. /\ 1 \in 1..Len(f.passwords) /\ f.passwords \in Seq(Stanza)
          /\ DOMAIN f.passwords = 1..Len(f.passwords) /\ Len(f.passwords) = 1
      BY <2>2, Lengths DEF Shape
    <2>4. w \in Stanza /\ w.type = "password" /\ w.key = f.key
      BY <2>2, <2>3 DEF Shape
    <2>5. s \in Stanza /\ s.type = "yubikey" /\ s.key = f.key
      <3>1. "yubikey" \in {"password"} \cup Composite /\ b.typed \in Int
        BY KnownInt DEF Composite
      <3> QED
        BY <3>1, <2>2, ArgonType
    <2>6. /\ g \in File
          /\ g.kind = f.kind /\ g.kdf = f.kdf /\ g.key = f.key
          /\ g.others = {s} /\ g.passwords = <<w>>
      <3>1. <<w>> \in Seq(Stanza) /\ {s} \in SUBSET Stanza
        BY <2>4, <2>5
      <3> HIDE DEF s, w
      <3> QED
        BY <2>2, <3>1 DEF File
    <2> HIDE DEF s, w, g
    <2>7. \A a1, a2, a3 : Argon(a1, a2, a3, g) = Argon(a1, a2, a3, f)
      BY <2>6 DEF Argon
    <2>8. \A a1 : Password(a1, g) = Password(a1, f)
      BY <2>7 DEF Password
    <2>9. \A x : Has(g, x) <=> x = "yubikey"
      BY <2>5, <2>6 DEF Has
    <2>10. Is2fa(g) /\ Len(g.passwords) = 1 /\ g.passwords[1] = w
      BY <2>6, <2>9 DEF Is2fa, Composite
    <2>11. Shape(g, c)
      <3>1. \E x \in Known(c) : g.passwords[1] = Password(x, g)
        BY <2>2, <2>8, <2>10 DEF Shape, w
      <3> QED
        BY <3>1, <2>4, <2>5, <2>6, <2>9, <2>10 DEF Shape, Composite
    <2>12. /\ Hardware \subseteq n
           /\ "yubikey" \notin n => b.typed = Master
           /\ \A x : x \notin n /\ x # "yubikey" => x \notin l
      BY DEF Sealed
    <2> HIDE DEF n
    <2>13. Keeps(g, t, n, c, slot', p)
      <3>1. "keyfile" \notin t /\ "password" \notin t
        BY <2>2 DEF Sound, Keeps, Shape, Composite
      <3>2. "recovery" \in t \ n => \E i \in 1..Len(g.passwords) : g.passwords[i] = Password(c, g)
        <4> SUFFICES ASSUME "recovery" \in t \ n PROVE g.passwords[1] = Password(c, g)
          BY <2>10
        <4>1. \E i \in 1..Len(f.passwords) : f.passwords[i] = Password(c, f)
          BY <2>12 DEF Sound, Keeps
        <4>2. f.passwords[1] = Password(c, f)
          BY <4>1, <2>3
        <4> QED
          BY <4>2, <2>8, <2>10 DEF w
      <3>3. "yubikey" \in t \ n => Argon("yubikey", Master, slot', g) \in g.others
        BY <2>6, <2>7, <2>12 DEF s
      <3>4. \A type \in Composite \cap t : Has(g, type)
        BY <3>1, <2>9 DEF Composite
      <3> QED
        BY <3>1, <3>2, <3>3, <3>4, <2>12 DEF Keeps, Hardware
    <2>14. Required(g, n)
      BY <2>2, <2>10, <2>12 DEF Sound, Required, w, Hardware
    <2> QED
      BY <2>1, <2>6, <2>11, <2>13, <2>14 DEF Sound
  <1> QED
    BY <1>1, <1>2

\* A save after a rotation finds the YubiKey stanza as it would make it.
LEMMA RotatedSaved ==
  ASSUME NEW f, NEW c \in Nat, Shape(f, c), Rotatable(f), NEW b,
         Refreshes(f, b) =>
            Argon("yubikey", b.typed, slot', f) \in f.others
  PROVE  Saved(f, b) = f
  <1> SUFFICES ASSUME Refreshes(f, b) PROVE Saved(f, b) = f
    BY DEF Saved
  <1> DEFINE s == Argon("yubikey", b.typed, slot', f)
  <1>1. s \in f.others /\ s.type = "yubikey" /\ Has(f, "yubikey")
    BY DEF Refreshes, Argon
  <1>2. \A u \in f.others : u.type = "yubikey"
    BY <1>1 DEF Shape, Rotatable, Has, Composite, Hardware
  <1>3. f.others = {s}
    BY <1>1, <1>2 DEF Shape
  <1>4. f.passwords = <<f.passwords[1]>>
    <2>1. Len(f.passwords) = 1 /\ f.passwords \in Seq(Stanza)
      BY <1>1 DEF Shape, Is2fa, Composite, File
    <2> QED
      BY <2>1
  <1>5. f = [f EXCEPT !.others = {s}, !.passwords = <<f.passwords[1]>>]
    <2> HIDE DEF s
    <2> QED
      BY <1>3, <1>4 DEF Shape, File
  <1> QED
    BY <1>5 DEF Saved

-----------------------------------------------------------------------------
(* The invariant is inductive *)

LEMMA BoundsArePositive ==
  /\ MaxCodes \in Nat /\ MaxKdf \in Nat /\ MaxKeys \in Nat /\ MaxSlots \in Nat /\ MaxPcr \in Nat
  /\ MaxCodes >= 1 /\ MaxKdf >= 1 /\ MaxKeys >= 1 /\ MaxSlots >= 1 /\ MaxPcr >= 1
  BY BoundsAssumption

LEMMA InitInv == Init => IInv
  <1> SUFFICES ASSUME Init PROVE IInv
    OBVIOUS
  <1>1. PICK kind \in {"vault", "sealed"} : file = Created(kind, code)
    BY DEF Init
  <1>2. code \in {0, 1} /\ slot = 1 /\ pcr = 1 /\ lapsed = {}
        /\ told = {"password"} \cup (IF code = 0 THEN {} ELSE {"recovery"})
    BY DEF Init
  <1> DEFINE e == [kind |-> kind, kdf |-> 1, key |-> 1, passwords |-> << >>, others |-> {}]
             v == Password(Master, e)
             w == Password(code, e)
  <1>3. v \in Stanza /\ w \in Stanza
        /\ v.type = "password" /\ w.type = "password" /\ v.key = 1 /\ w.key = 1
    BY <1>2 DEF Password, Argon, Stanza, Master, NoFactor
  <1>4. file = [e EXCEPT !.passwords = IF code = 0 THEN <<v>> ELSE <<v, w>>]
    BY <1>1 DEF Created
  <1>5. /\ file \in File
        /\ file.kind = kind /\ file.kdf = 1 /\ file.key = 1 /\ file.others = {}
        /\ file.passwords = IF code = 0 THEN <<v>> ELSE <<v, w>>
    <2>1. /\ e \in File /\ e.kind = kind /\ e.kdf = 1 /\ e.key = 1 /\ e.others = {}
      BY DEF File
    <2> HIDE DEF v, w, e
    <2> DEFINE ws == IF code = 0 THEN <<v>> ELSE <<v, w>>
    <2>2. ws \in Seq(Stanza)
      BY <1>3
    <2>3. file = [e EXCEPT !.passwords = ws]
      BY <1>4
    <2> HIDE DEF ws
    <2>4. /\ file \in File
          /\ file.kind = kind /\ file.kdf = 1 /\ file.key = 1 /\ file.others = {}
          /\ file.passwords = ws
      BY <2>1, <2>2, <2>3 DEF File
    <2> QED
      BY <2>4 DEF ws
  <1>6. Password(Master, file) = v /\ Password(code, file) = w
    BY <1>5 DEF Password, Argon
  <1> HIDE DEF v, w, e
  <1>7. /\ Len(file.passwords) \in 1..2 /\ file.passwords[1] = v
        /\ code # 0 => Len(file.passwords) = 2 /\ file.passwords[2] = w
        /\ \A i \in 1..Len(file.passwords) :
              file.passwords[i].type = "password" /\ file.passwords[i].key = 1
    BY <1>3, <1>5
  <1>8. \A x : ~Has(file, x)
    BY <1>5 DEF Has
  <1>9. ~Is2fa(file)
    BY <1>8 DEF Is2fa
  <1>10. Shape(file, code)
    <2>1. Master \in Known(code)
      BY DEF Known
    <2> QED
      BY <2>1, <1>5, <1>6, <1>7, <1>8, <1>9 DEF Shape
  <1>11. Keeps(file, told, lapsed, code, slot, pcr)
    BY <1>2, <1>6, <1>7, <1>9 DEF Keeps, Composite, Hardware
  <1>12. Required(file, lapsed)
    BY <1>9 DEF Required
  <1>13. Rest
    BY <1>2, BoundsArePositive DEF Rest, Ways
  <1>14. file.kdf \in 1..MaxKdf /\ file.key \in 1..MaxKeys
    BY <1>5, BoundsArePositive
  <1> QED
    BY <1>10, <1>11, <1>12, <1>13, <1>14 DEF IInv, Sound

LEMMA SaveStep ==
  ASSUME NEW f, NEW m \in SUBSET Ways, NEW b, b.typed \in Known(code'),
         Sound(f, told', m, code', slot', pcr'),
         f.kdf \in 1..MaxKdf, f.key \in 1..MaxKeys,
         slot' \in 1..MaxSlots, pcr' \in 1..MaxPcr, code' \in 0..MaxCodes,
         told' \subseteq Ways \ {"factor"},
         file' = Saved(f, b), lapsed' = SaveLapses(m, f, b)
  PROVE  IInv'
  <1>1. slot' \in Int /\ code' \in Nat
    BY BoundsArePositive
  <1>2. /\ Sound(file', told', lapsed', code', slot', pcr')
        /\ file'.kdf = f.kdf /\ file'.key = f.key
    BY <1>1, SavedSound
  <1>3. lapsed' \subseteq Ways
    BY DEF SaveLapses, Sealed, Ways, Composite, Hardware
  <1>4. Rest'
    BY <1>3 DEF Rest
  <1>5. file'.kdf \in 1..MaxKdf /\ file'.key \in 1..MaxKeys
    BY <1>2
  <1> QED
    BY <1>2, <1>4, <1>5 DEF IInv

\* What the owner brings, in terms of the world.
LEMMA BroughtType ==
  ASSUME Rest, NEW b \in Brought
  PROVE  /\ b.typed \in Known(code) /\ b.typed \in Int /\ b.keyfile \in Int
         /\ code \in Nat /\ code + 1 \in Nat /\ b.typed \in Known(code + 1)
         /\ slot \in Int /\ slot + 1 \in Int /\ pcr \in Int
  <1>1. code \in Nat /\ slot \in Int /\ pcr \in Int
    BY BoundsArePositive DEF Rest
  <1>2. b.typed \in Known(code) /\ b.keyfile \in Int
    BY DEF Brought, Known, Secrets, NoFactor, MyKeyfile, OtherKeyfile
  <1>3. b.typed \in Known(code + 1)
    BY <1>1, <1>2 DEF Known
  <1> QED
    BY <1>1, <1>2, <1>3, KnownInt

LEMMA NextInv == IInv /\ [Next]_vars => IInv'
  <1> SUFFICES ASSUME IInv, [Next]_vars PROVE IInv'
    OBVIOUS
  <1>1. /\ Rest /\ Sound(file, told, lapsed, code, slot, pcr)
        /\ file.kdf \in 1..MaxKdf /\ file.key \in 1..MaxKeys
    BY DEF IInv
  <1>2. /\ slot \in 1..MaxSlots /\ pcr \in 1..MaxPcr /\ code \in 0..MaxCodes
        /\ told \subseteq Ways \ {"factor"} /\ lapsed \in SUBSET Ways
    BY <1>1 DEF Rest
  <1>3. Shape(file, code) /\ file \in File
    BY <1>1 DEF Sound, Shape
  <1>4. ASSUME NEW b \in Brought, ChangeEntries(b) PROVE IInv'
    <2>1. b.typed \in Known(code')
      BY <1>1, <1>4, BroughtType DEF ChangeEntries
    <2> QED
      BY <1>1, <1>2, <1>4, <2>1, SaveStep DEF ChangeEntries
  <1>5. ASSUME NEW b \in Brought, NEW type \in Composite, NEW factor, NEW s \in 1..MaxSlots,
               Enroll2fa(b, type, factor, s),
               factor \in Int, type = "yubikey" => factor = s,
               type = "keyfile" => factor = MyKeyfile
        PROVE  IInv'
    <2> DEFINE f == TwoFactor(file, b, type, factor, code + 1)
               m == Sealed({}, type, b.typed = Master)
    <2>1. b.typed \in Int /\ code \in Nat /\ b.typed \in Known(code + 1)
      BY <1>1, BroughtType
    <2>2. /\ code < MaxCodes /\ code' = code + 1 /\ slot' = s /\ pcr' = pcr
          /\ file' = Saved(f, b) /\ told' = {type, "recovery"}
          /\ lapsed' = SaveLapses(m, f, b)
      BY <1>5 DEF Enroll2fa
    <2>3. Sound(f, {type, "recovery"}, m, code + 1, s, pcr)
      BY <1>3, <1>5, <2>1, TwoFactorSound
    <2>4. f.kdf = file.kdf /\ f.key = file.key
      BY <1>3 DEF TwoFactor, File
    <2>5. m \in SUBSET Ways /\ {type, "recovery"} \subseteq Ways \ {"factor"}
      BY DEF Sealed, Ways, Composite
    <2>6. code + 1 \in 0..MaxCodes
      BY <1>2, <2>1, <2>2, BoundsArePositive
    <2> HIDE DEF f, m
    <2> QED
      BY <1>1, <1>2, <2>1, <2>2, <2>3, <2>4, <2>5, <2>6, SaveStep
  <1>6. ASSUME NEW b \in Brought, EnrollKeyfile(b) PROVE IInv'
    BY <1>2, <1>5, <1>6 DEF EnrollKeyfile, Composite, MyKeyfile
  <1>7. ASSUME NEW b \in Brought, EnrollYubikey(b) PROVE IInv'
    <2>1. slot + 1 \in 1..MaxSlots /\ slot + 1 \in Int
      BY <1>2, <1>7, BoundsArePositive DEF EnrollYubikey
    <2> QED
      BY <1>5, <1>7, <2>1 DEF EnrollYubikey, Composite
  <1>8. ASSUME NEW b \in Brought, NEW type \in Hardware, NEW factor \in Int, NEW f,
               factor = IF type = "tpm" THEN pcr ELSE NoFactor,
               f = [file EXCEPT !.others = Without(file, type).others
                                            \cup {Device(type, factor, file)}],
               UNCHANGED <<slot, pcr, code>>,
               file' = Saved(f, b), told' = told \cup {type},
               lapsed' = SaveLapses(Added(lapsed, file, type), f, b)
        PROVE  IInv'
    <2> DEFINE m == Added(lapsed, file, type)
    <2>1. b.typed \in Known(code) /\ code \in Nat /\ pcr \in Int
      BY <1>1, BroughtType
    <2>2. Sound(f, told \cup {type}, m, code, slot, pcr)
      BY <1>1, <1>8, <2>1, DeviceSound
    <2>3. f.kdf = file.kdf /\ f.key = file.key
      BY <1>3, <1>8 DEF File
    <2>4. m \in SUBSET Ways /\ told \cup {type} \subseteq Ways \ {"factor"}
      BY <1>2 DEF Added, Sealed, Ways, Hardware
    <2> HIDE DEF m
    <2> QED
      BY <1>1, <1>2, <1>8, <2>1, <2>2, <2>3, <2>4, SaveStep DEF m
  <1>9. ASSUME NEW b \in Brought, EnrollFido2(b) PROVE IInv'
    <2>1. Without(file, "fido2").others = file.others
      BY <1>3, <1>9 DEF EnrollFido2, Without, Has, File
    <2>2. Fido2Added(file) = [file EXCEPT !.others = Without(file, "fido2").others
                                            \cup {Device("fido2", NoFactor, file)}]
      BY <1>3, <2>1 DEF Fido2Added, File
    <2>3. "fido2" \in Hardware /\ NoFactor \in Int
      BY DEF Hardware, NoFactor
    <2> QED
      BY <1>8, <1>9, <2>2, <2>3 DEF EnrollFido2
  <1>10. ASSUME NEW b \in Brought, EnrollTpm(b) PROVE IInv'
    <2>1. "tpm" \in Hardware /\ pcr \in Int
      BY <1>1, BroughtType DEF Hardware
    <2> QED
      BY <1>8, <1>10, <2>1 DEF EnrollTpm, TpmSealed
  <1>11. ASSUME NEW b \in Brought, NEW type \in Composite \cup Hardware, RemoveStanza(b, type)
         PROVE  IInv'
    <2>1. b.typed \in Known(code) /\ code \in Nat
      BY <1>1, BroughtType
    <2>2. Sound(Without(file, type), told \ {type}, lapsed, code, slot, pcr)
      BY <1>1, <2>1, WithoutSound
    <2>3. Without(file, type).kdf = file.kdf /\ Without(file, type).key = file.key
      BY <1>3 DEF Without, File
    <2> QED
      BY <1>1, <1>2, <1>11, <2>1, <2>2, <2>3, SaveStep DEF RemoveStanza
  <1>12. ASSUME NEW b \in Brought, UpgradeKdf(b) PROVE IInv'
    <2> DEFINE f == Upgraded(file, b.typed)
               l == Sealed(Sealed(lapsed \cup Composite, "recovery", b.typed = code),
                           "password", b.typed = Master)
               m == Sealed(l, "factor", ~(Is2fa(file) /\ b.typed = Master))
    <2>1. b.typed \in Known(code) /\ code \in Nat
      BY <1>1, BroughtType
    <2>2. Sound(f, told, m, code, slot, pcr)
      BY <1>1, <2>1, UpgradedSound
    <2>3. f.kdf = file.kdf + 1 /\ f.key = file.key
      <3> DEFINE g == [file EXCEPT !.kdf = @ + 1]
                 w == Password(b.typed, g)
      <3>1. g \in File /\ g.kdf = file.kdf + 1 /\ g.key = file.key
        BY <1>3 DEF File
      <3>2. f = [g EXCEPT !.passwords = [@ EXCEPT ![1] = w]]
        BY DEF Upgraded
      <3> HIDE DEF f, g, w
      <3> QED
        BY <3>1, <3>2 DEF File
    <2>4. /\ file.kdf < MaxKdf /\ UNCHANGED <<slot, pcr, code, told>>
          /\ file' = Saved(f, b) /\ lapsed' = SaveLapses(m, f, b)
      BY <1>12 DEF UpgradeKdf
    <2>5. m \in SUBSET Ways
      BY <1>2 DEF Sealed, Ways, Composite
    <2> HIDE DEF f, m
    <2>6. f.kdf \in 1..MaxKdf
      BY <1>1, <2>3, <2>4, BoundsArePositive
    <2> QED
      BY <1>1, <1>2, <2>1, <2>2, <2>3, <2>4, <2>5, <2>6, SaveStep
  <1>13. ASSUME NEW b \in Brought, NEW again \in Secrets, RotateDataKey(b, again) PROVE IInv'
    <2> DEFINE g == [file EXCEPT !.key = @ + 1]
               f == Rewrapped(file, g, b, again)
               shown == IF HasRecovery(file) THEN again ELSE b.typed
               ok == b.typed = Master
               n == Sealed(Sealed(Sealed(lapsed, "recovery", shown = code),
                                  "factor", shown # Master), "password", ok)
               m == Sealed(Sealed(n, "yubikey", ok), "keyfile", ok /\ b.keyfile = MyKeyfile)
    <2>1. /\ b.typed \in Known(code) /\ code \in Nat /\ slot \in Int /\ b.keyfile \in Int
          /\ again \in Known(code)
      BY <1>1, BroughtType DEF Secrets, Known
    <2>2. /\ file.key < MaxKeys /\ Rotatable(file)
          /\ UNCHANGED <<slot, pcr, code, told>>
          /\ file' = Saved(f, b) /\ lapsed' = m
      BY <1>13 DEF RotateDataKey
    <2>3. /\ "recovery" \notin m => shown = code
          /\ "factor" \notin m => shown # Master
          /\ "password" \notin m => b.typed = Master
          /\ "yubikey" \notin m => b.typed = Master
          /\ "keyfile" \notin m => b.typed = Master /\ b.keyfile = MyKeyfile
          /\ \A x \in Hardware : x \notin m => x \notin lapsed
      BY DEF Sealed, Hardware
    <2>4. m \in SUBSET Ways
      BY <1>2 DEF Sealed, Ways, Composite
    <2> HIDE DEF m
    <2>5. Sound(f, told, m, code, slot, pcr)
      BY <1>1, <2>1, <2>2, <2>3, RewrappedSound
    <2>6. /\ f.kdf = file.kdf /\ f.key = file.key + 1
          /\ \A type : Has(f, type) <=> Has(file, type)
          /\ Has(file, "yubikey") => Argon("yubikey", b.typed, slot, f) \in f.others
      BY <1>1, <2>1, <2>2, <2>3, RewrappedSound
    <2> HIDE DEF f
    <2>7. Saved(f, b) = f
      <3>1. Rotatable(f)
        BY <2>2, <2>6 DEF Rotatable
      <3>2. Refreshes(f, b) => Argon("yubikey", b.typed, slot', f) \in f.others
        BY <2>2, <2>6 DEF Refreshes
      <3> QED
        BY <2>1, <2>5, <3>1, <3>2, RotatedSaved DEF Sound
    <2>8. f.key \in 1..MaxKeys
      BY <1>1, <2>2, <2>6, BoundsArePositive
    <2> QED
      BY <1>1, <1>2, <2>2, <2>4, <2>5, <2>6, <2>7, <2>8 DEF IInv, Rest
  <1>14. ASSUME NEW b \in Brought, EnrollYubikeyRefused(b) PROVE IInv'
    <2>1. /\ slot' = slot + 1 /\ slot' \in 1..MaxSlots
          /\ UNCHANGED <<file, pcr, code, told>> /\ lapsed' = lapsed \cup {"yubikey"}
      BY <1>2, <1>14, BoundsArePositive DEF EnrollYubikeyRefused
    <2>2. Keeps(file, told, lapsed \cup {"yubikey"}, code, slot + 1, pcr)
      BY <1>1 DEF Sound, Keeps
    <2>3. Required(file, lapsed \cup {"yubikey"})
      BY <1>1 DEF Sound, Required
    <2>4. Rest'
      BY <1>2, <2>1 DEF Rest, Ways, Composite
    <2> QED
      BY <1>1, <1>3, <2>1, <2>2, <2>3, <2>4 DEF IInv, Sound
  <1>15. ASSUME MachineChanges PROVE IInv'
    <2>1. /\ pcr' \in 1..MaxPcr /\ told' = told \ {"tpm"}
          /\ UNCHANGED <<file, slot, code, lapsed>>
      BY <1>2, <1>15, BoundsArePositive DEF MachineChanges
    <2>2. Keeps(file, told \ {"tpm"}, lapsed, code, slot, pcr')
      BY <1>1 DEF Sound, Keeps
    <2>3. Rest'
      BY <1>2, <2>1 DEF Rest
    <2> QED
      BY <1>1, <2>1, <2>2, <2>3 DEF IInv, Sound
  <1>16. ASSUME UNCHANGED vars PROVE IInv'
    BY <1>16 DEF vars, IInv, Rest
  <1> QED
    BY <1>4, <1>6, <1>7, <1>9, <1>10, <1>11, <1>12, <1>13, <1>14, <1>15, <1>16
       DEF Next, Opening

-----------------------------------------------------------------------------
(* The theorems *)

THEOREM InvHolds == Spec => []IInv
  <1>1. Init => IInv
    BY InitInv
  <1>2. IInv /\ [Next]_vars => IInv'
    BY NextInv
  <1> QED
    BY <1>1, <1>2, PTL DEF Spec

\* The header stays well formed and all its stanzas yield the body's key,
\* whatever is enrolled, removed, upgraded or rotated.
THEOREM OneKeyHolds == Spec => []OneKey
  BY InvHolds, InvOneKey, PTL

\* Some password stanza opens the file without any device, always.
THEOREM NeverShutHolds == Spec => []NeverShut
  BY InvHolds, InvNeverShut, PTL

\* Every way in that the owner was told of opens the file, unless a command
\* named by lapsed has ended it.
THEOREM PromisesKeptHolds == Spec => []PromisesKept
  BY InvHolds, InvPromisesKept, PTL

\* The master password alone opens no file that has a second factor.
THEOREM SecondFactorHoldsAlways == Spec => []SecondFactorHolds
  BY InvHolds, InvSecondFactorHolds, PTL

=============================================================================
