------------------------------- MODULE Attributes -------------------------------
(***************************************************************************)
(* Object file attributes (pmbfd/attset.c, attpbfas*.c, att-gnu-powerpc.c): *)
(* what a .gnu.attributes section says about the ABI a file was built for,  *)
(* how it is read, and when two files are taken to be compatible.           *)
(*                                                                          *)
(* A section is a sequence of vendor subsections; the numbers and strings   *)
(* in it are model data; fits says that a part has the right version and    *)
(* ends before the part that holds it does.                                 *)
(***************************************************************************)
EXTENDS Integers, Sequences, FiniteSets, FiniteSetsExt, SequencesExt

Tag_GNU_Power_ABI_FP == 4
Tag_GNU_Power_ABI_Vector == 8
Tag_GNU_Power_ABI_Struct_Return == 12
Tag_Compat == 32
max_tag == 10
gnu_ppc_atts == {Tag_GNU_Power_ABI_FP, Tag_GNU_Power_ABI_Vector, Tag_GNU_Power_ABI_Struct_Return}

ATTR_MAX_VENDORS == 5

\* Vendors that pmbfd registers when it starts.
known_vendors == {"gnu"}

\* A null pointer: a file without attributes, or with attributes that could not
\* be read.
NoSet == [none |-> <<>>]

\* pmelf_ppc_attribute_tag_t
KnownTag(tag) == tag \in gnu_ppc_atts \cup {Tag_Compat}

InMap(tag) == tag <= max_tag /\ tag # Tag_Compat

\* The attributes before the i-th one that have its tag.
Earlier(attrs, i) == {j \in 1..(i - 1) : attrs[j].tag = attrs[i].tag}

\* Where pmelf_pub_file_attributes_read fails: something does not fit or is not
\* known, or a tag is repeated that has one place in the table.
Bad(attrs) ==
    {i \in DOMAIN attrs : \/ ~attrs[i].fits \/ ~KnownTag(attrs[i].tag)
                          \/ InMap(attrs[i].tag) /\ Earlier(attrs, i) # {}}

\* Where it loops for ever: "append to possibly existing instances of 'tag'"
\* does not move when there are two of them.
Stuck(attrs) ==
    {i \in DOMAIN attrs : ~InMap(attrs[i].tag) /\ Cardinality(Earlier(attrs, i)) >= 2}

\* A subsection that pmelf_read_attribute_set goes into.
Legible(sub) == sub.fits /\ sub.scope = "file" /\ sub.vendor \in known_vendors

\* The subsections before the first that is not legible.
LegiblePart(section) ==
    LET n == Max({k \in 0..Len(section) : \A i \in 1..k : Legible(section[i])}) IN
    SubSeq(section, 1, n)

\* The attributes of one vendor: its subsections share a table.
AttributesOf(section, v) ==
    FlattenSeq([i \in DOMAIN section |-> IF section[i].vendor = v THEN section[i].attrs ELSE <<>>])

Vendors(section) == {section[i].vendor : i \in DOMAIN section}

\* The set that is read, and how reading ended; an error releases it.  There is
\* one vendor, so that what comes first is the first of its attributes.
pmelf_read_attribute_set(section) ==
    LET part == LegiblePart(section)
        set == [v \in Vendors(part) |-> AttributesOf(part, v)]
        first(v) == \A i \in Bad(set[v]) : \E j \in Stuck(set[v]) : j < i IN
    IF \E v \in DOMAIN set : Stuck(set[v]) # {} /\ first(v) THEN [err |-> "hangs", t |-> NoSet]
    ELSE IF part # section \/ \E v \in DOMAIN set : Bad(set[v]) # {}
      THEN [err |-> "error", t |-> NoSet]
    ELSE [err |-> "ok", t |-> set]

-----------------------------------------------------------------------------

\* pmelf_attribute_get_tag_val: of two in the list the later one was put first.
With(t, tag) == {i \in DOMAIN t : t[i].tag = tag}
HasTag(t, tag) == With(t, tag) # {}
TagVal(t, tag) == t[Max(With(t, tag))].i

\* Equal, or one of them does not care.
TagMatches(t, u, tag) ==
    /\ HasTag(t, tag) = HasTag(u, tag)
    /\ HasTag(t, tag) =>
        \/ TagVal(t, tag) = TagVal(u, tag)
        \/ TagVal(t, tag) = 0 \/ TagVal(u, tag) = 0

Compats(t) == {t[i] : i \in With(t, Tag_Compat)}

\* filter_nongnu: no tool chain but "gnu" is asked for.
OnlyGnu(t) == \A a \in Compats(t) : a.i > 0 => a.s = "gnu"

\* filter_gt1: each flag above 1 is in the other list as well.
FlagsWithin(t, u) == \A a \in Compats(t) : a.i > 1 => \E b \in Compats(u) : b.i = a.i

pmelf_pub_file_attributes_match_compat(t, u) ==
    OnlyGnu(t) /\ OnlyGnu(u) /\ FlagsWithin(t, u) /\ FlagsWithin(u, t)

pmelf_ppc_file_attributes_match(t, u) ==
    /\ \A tag \in gnu_ppc_atts : TagMatches(t, u, tag)
    /\ pmelf_pub_file_attributes_match_compat(t, u)

\* pmelf_match_attribute_set: no incompatibility is found.
pmelf_match_attribute_set(a, b) ==
    IF a = NoSet \/ b = NoSet THEN a = b
    ELSE /\ DOMAIN a = DOMAIN b
         /\ \A v \in DOMAIN a : pmelf_ppc_file_attributes_match(a[v], b[v])
=============================================================================
