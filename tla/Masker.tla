-------------------------------- MODULE Masker --------------------------------
(***************************************************************************)
(* The class Masker of esdoctor/mask.py and what handoff.render() does     *)
(* with it: names of the bundle are registered one after the other and get *)
(* an alias each, then the summary is written part by part.  Its cells are *)
(* masked, each on its own, which may register addresses that only the     *)
(* cell holds; headings, versions, states, roles and names of rules stand  *)
(* as they are.  The whole is refused when leaks() finds a name in it.     *)
(* Whoever gets an answer reads it back with the map.                      *)
(*                                                                         *)
(* A text is a sequence of pieces: the tokens between delimiters, values   *)
(* that are not looked up by token (they hold spaces or commas), the       *)
(* spaces between words and IP addresses.  A value is the sequence of      *)
(* pieces it is spelled with; values that differ in case only are one.  An *)
(* alias such as node-001 is spelled with two pieces as well, so it may be *)
(* taken for a name and a name for an alias.  Between two parts stand      *)
(* characters that no name holds, and cells hold no | and no line break,   *)
(* which _cell() replaces when a cell is masked.  What truncate() left of  *)
(* an observation is a text like any other; its last piece may be the      *)
(* beginning of a name, which is then none.                                *)
(***************************************************************************)
EXTENDS Integers, SequencesExt

CONSTANTS
    Kind,       \* kinds of identifiers, the prefixes of their aliases
    ip,         \* the kind of addresses
    Piece,      \* the pieces of texts and values
    Special,    \* pieces that hold spaces or commas
    Ip,         \* pieces that are addresses
    Value,      \* the values that may be registered
    Collected,  \* pairs of kind and value that _collect may find in a bundle
    Kept,       \* kind -> values that add() turns down (common words, loopback)
    Short,      \* values of fewer than 6 characters, not searched by leaks()
    Inside,     \* piece -> values inside a longer word
    Drafts,     \* summaries to be written, as sequences of parts
    MaxNames    \* bound on the values registered by _collect

(* A part is a cell of a table or a title, or what stands around them.     *)
Part == [cell : BOOLEAN, text : Seq(Piece)]

(* A kind is a word; what holds a space is a single piece, and neither a   *)
(* kind nor a number, and so is an address.                                *)
ASSUME MaskerAssumption ==
    /\ ip \in Kind /\ Kind \cap Nat = {} /\ (Special \cup Ip) \cap (Kind \cup Nat) = {}
    /\ Ip \subseteq Piece \ Special
    /\ Value \subseteq Seq(Piece) \ {<<>>}
    /\ \A v \in Value : Len(v) > 1 => \A i \in DOMAIN v : v[i] \notin Special
    /\ Collected \subseteq Kind \X Value
    /\ \A i \in Ip : <<i>> \in Value
    /\ Drafts \subseteq Seq(Part)

VARIABLES
    stage,      \* "collect", "render", "released" or "refused"
    alias,      \* value -> alias
    orig,       \* alias -> value, the map
    seq,        \* kind -> number of its aliases
    draft,      \* the parts of the summary
    out         \* the texts written so far, one per part

maskerVars == <<stage, alias, orig, seq, draft, out>>

MInit ==
    /\ stage = "collect"
    /\ alias = [v \in {} |-> <<>>]
    /\ orig = [a \in {} |-> <<>>]
    /\ seq = [k \in Kind |-> 0]
    /\ draft = <<>> /\ out = <<>>

Alias(k, n) == <<k, n>>

-----------------------------------------------------------------------------
(* Mutant: a value that is registered gets another alias. *)
AddAgain(k, v) ==
    LET a == Alias(k, seq[k] + 1)
    IN  /\ v \notin Kept[k]
        /\ seq' = [seq EXCEPT ![k] = @ + 1]
        /\ alias' = [w \in DOMAIN alias \cup {v} |-> IF w = v THEN a ELSE alias[w]]
        /\ orig' = [b \in DOMAIN orig \cup {a} |-> IF b = a THEN v ELSE orig[b]]

(* Mutant: the count of the kind does not go up. *)
AddUncounted(k, v) ==
    LET a == Alias(k, seq[k] + 1)
    IN  /\ v \notin DOMAIN alias \cup Kept[k]
        /\ alias' = [w \in DOMAIN alias \cup {v} |-> IF w = v THEN a ELSE alias[w]]
        /\ orig' = [b \in DOMAIN orig \cup {a} |-> IF b = a THEN v ELSE orig[b]]
        /\ UNCHANGED seq

(* add(): the next number of the kind; a call that is turned down changes  *)
(* nothing.                                                                *)
Add(k, v) ==
    LET a == Alias(k, seq[k] + 1)
    IN  /\ v \notin DOMAIN alias \cup Kept[k]
        /\ seq' = [seq EXCEPT ![k] = @ + 1]
        /\ alias' = [w \in DOMAIN alias \cup {v} |-> IF w = v THEN a ELSE alias[w]]
        /\ orig' = [b \in DOMAIN orig \cup {a} |-> IF b = a THEN v ELSE orig[b]]

Register(k, v) ==
    /\ stage = "collect"
    /\ Cardinality(DOMAIN alias) < MaxNames
    /\ Add(k, v)
    /\ UNCHANGED <<stage, draft, out>>

Render(d) ==
    /\ stage = "collect"
    /\ stage' = "render"
    /\ draft' = d
    /\ UNCHANGED <<alias, orig, seq, out>>

-----------------------------------------------------------------------------
(* A text is read from the left: of what is left of it some pieces are     *)
(* taken and others given for them.                                        *)
Rest(s, i) == SubSeq(s, i, Len(s))

Read(s, Taken(_), Given(_)) ==
    LET m[i \in 1 .. Len(s) + 1] ==
            IF i > Len(s) THEN <<>> ELSE Given(Rest(s, i)) \o m[i + Taken(Rest(s, i))]
    IN  m[1]

Single(s) == 1

(* text(): first the values with spaces. *)
SpecialsMasked(al, s) ==
    LET Given(r) == IF r[1] \in Special /\ <<r[1]>> \in DOMAIN al THEN al[<<r[1]>>] ELSE <<r[1]>>
    IN  Read(s, Single, Given)

Simple(al) == {v \in DOMAIN al : \A i \in DOMAIN v : v[i] \notin Special}

(* Mutant: only single pieces are looked up. *)
NarrowWindow(al) == 1

(* How far _span looks ahead: 2 * _max_parts, which counts the delimiters. *)
Window(al) == IF Simple(al) = {} THEN 1 ELSE 2 * Max({Len(v) : v \in Simple(al)}) - 1

(* _span: from the left, the longest name that begins here. *)
Heads(al, s) == {j \in 1 .. Len(s) : j <= Window(al) /\ SubSeq(s, 1, j) \in Simple(al)}

(* Mutant: after a name of several pieces its last piece is read again.    *)
NamesMaskedTwice(al, s) ==
    LET Longest(r) == Max(Heads(al, r))
        Taken(r) == IF Heads(al, r) = {} THEN 1 ELSE Max({1, Longest(r) - 1})
        Given(r) == IF Heads(al, r) = {} THEN <<r[1]>> ELSE al[SubSeq(r, 1, Longest(r))]
    IN  Read(s, Taken, Given)

NamesMasked(al, s) ==
    LET Taken(r) == IF Heads(al, r) = {} THEN 1 ELSE Max(Heads(al, r))
        Given(r) == IF Heads(al, r) = {} THEN <<r[1]>> ELSE al[SubSeq(r, 1, Taken(r))]
    IN  Read(s, Taken, Given)

Masked(al, s) == NamesMasked(al, SpecialsMasked(al, s))

(* Mutant: titles and cells go out as they are. *)
WrittenPlain(al, part) == part.text

(* _cell() and the title of a finding are masked, nothing else is. *)
Written(al, part) == IF part.cell THEN Masked(al, part.text) ELSE part.text

-----------------------------------------------------------------------------
Here == draft[Len(out) + 1]

(* Addresses that the bundle's lists lack and no name holds get their alias*)
(* when a cell is masked, in the order of its text.                        *)
NewIps ==
    LET w == Written(alias, Here)
    IN  {i \in DOMAIN w : Here.cell /\ w[i] \in Ip /\ <<w[i]>> \notin DOMAIN alias \cup Kept[ip]}

AllocateIp ==
    /\ stage = "render" /\ Len(out) < Len(draft)
    /\ \E i \in NewIps :
         /\ \A j \in NewIps : i <= j
         /\ Add(ip, <<Written(alias, Here)[i]>>)
    /\ UNCHANGED <<stage, draft, out>>

Write ==
    /\ stage = "render" /\ Len(out) < Len(draft)
    /\ NewIps = {}
    /\ out' = Append(out, Written(alias, Here))
    /\ UNCHANGED <<stage, alias, orig, seq, draft>>

Occurs(v, s) == \E i \in DOMAIN s : i + Len(v) - 1 <= Len(s)
                                    /\ SubSeq(s, i, i + Len(v) - 1) = v

WithinAWord(v, s) == \E i \in DOMAIN s : v \in Inside[s[i]]

HasAddress(s) == \E i \in DOMAIN s : s[i] \in Ip /\ <<s[i]>> \notin Kept[ip]

(* leaks(): every registered value is searched in all that was written,    *)
(* masked or not, whether or not it stands between delimiters, and then    *)
(* any address.                                                            *)
Leaks(al, o) ==
    \E p \in DOMAIN o :
        \/ HasAddress(o[p])
        \/ \E v \in DOMAIN al \ Short : Occurs(v, o[p]) \/ WithinAWord(v, o[p])

Check ==
    /\ stage = "render" /\ Len(out) = Len(draft)
    /\ stage' = IF Leaks(alias, out) THEN "refused" ELSE "released"
    /\ UNCHANGED <<alias, orig, seq, draft, out>>

MNext ==
    \/ \E c \in Collected : Register(c[1], c[2])
    \/ \E d \in Drafts : Render(d)
    \/ AllocateIp
    \/ Write
    \/ Check

MSpec == MInit /\ [][MNext]_maskerVars

-----------------------------------------------------------------------------
(* What whoever has the map does with the aliases in a text. *)
Restored(or, s) ==
    LET Known(r) == Len(r) > 1 /\ <<r[1], r[2]>> \in DOMAIN or
        Taken(r) == IF Known(r) THEN 2 ELSE 1
        Given(r) == IF Known(r) THEN or[<<r[1], r[2]>>] ELSE <<r[1]>>
    IN  Read(s, Taken, Given)

(* The types, and that every alias in use has a number given out already.  *)
MTypeOK ==
    /\ stage \in {"collect", "render", "released", "refused"}
    /\ seq \in [Kind -> Nat]
    /\ alias \in [DOMAIN alias -> Kind \X Nat]
    /\ DOMAIN alias \subseteq Value /\ IsFiniteSet(DOMAIN alias)
    /\ draft \in Seq(Part)

NumbersGivenOut == \A a \in DOMAIN orig : a \in Kind \X Nat /\ a[2] <= seq[a[1]]

(* The map leads from every alias back to the one value that has it, and   *)
(* it lists every alias: no two values share one, whatever kinds they were *)
(* registered under and however late.                                      *)
AliasesAreInvertible ==
    /\ \A v \in DOMAIN alias : alias[v] \in DOMAIN orig /\ orig[alias[v]] = v
    /\ \A a \in DOMAIN orig : orig[a] \in DOMAIN alias /\ alias[orig[a]] = a

(* The inductive invariant: what add() keeps whoever calls it. *)
MInv == MTypeOK /\ NumbersGivenOut /\ AliasesAreInvertible

(* "The same value always gets the same alias": nothing that is registered *)
(* later, in particular while a cell is being masked, changes an alias     *)
(* that an earlier cell may have been masked with.                         *)
AliasesAreStable ==
    [][\A v \in DOMAIN alias : v \in DOMAIN alias' /\ alias'[v] = alias[v]]_maskerVars

(* An alias stands in a text or, in a name, may overlap with one.          *)
HoldsAlias(s) == \E i \in 1 .. Len(s) - 1 : s[i] \in Kind /\ s[i + 1] \in Nat

Lookalike(v) == HoldsAlias(v) \/ v[1] \in Nat \/ v[Len(v)] \in Kind

(* A released summary can be read back word for word, if it held no alias  *)
(* before and no name of the bundle looks like one: neither the aliases    *)
(* that later cells brought nor the text that is not masked come in the    *)
(* way.                                                                    *)
ReadsBack ==
    stage = "released" /\ (\A p \in DOMAIN draft : ~HoldsAlias(draft[p].text))
                       /\ (\A v \in DOMAIN alias : ~Lookalike(v)) =>
        \A p \in DOMAIN draft : Restored(orig, out[p]) = draft[p].text

(* Between delimiters a released summary holds no registered value but one *)
(* that is too short for leaks() to search: anywhere in what is not        *)
(* masked, in a cell only what may be part of an alias.  An address that   *)
(* is registered while a later cell is masked was in no earlier one.       *)
NoNameIsLeft ==
    stage = "released" =>
        \A v \in DOMAIN alias, p \in DOMAIN out :
            Occurs(v, out[p]) => v \in Short /\ (draft[p].cell => Lookalike(v))

(* The search of _span misses nothing that leaks() would find between      *)
(* delimiters: a summary is refused only when a name looks like an alias,  *)
(* stands inside a longer word of the text or of an alias, or stands, like *)
(* an address, in what is not masked.                                      *)
RefusedForAReason ==
    stage = "refused" =>
        \/ \E v \in DOMAIN alias :
              \/ Lookalike(v)
              \/ \E p \in DOMAIN draft :
                    WithinAWord(v, draft[p].text) \/ (~draft[p].cell /\ Occurs(v, draft[p].text))
              \/ \E a \in DOMAIN orig : WithinAWord(v, a)
        \/ \E p \in DOMAIN draft : ~draft[p].cell /\ HasAddress(draft[p].text)

(* The search and the check after it see the same names: what is released  *)
(* is clean, what is refused is not.                                       *)
ReleasedWhenClean == NoNameIsLeft /\ RefusedForAReason
===============================================================================
