---------------------------- MODULE PortOverlay ----------------------------
(***************************************************************************)
(* bp2cmake's normalized modules (model.py) and the port policy applied to *)
(* them (overlay.py).  A module is what the evaluator leaves of a          *)
(* Blueprint declaration; list properties are sequences without meaning of *)
(* their own, names of modules are model values.                           *)
(***************************************************************************)
EXTENDS Naturals, Sequences, FiniteSets

CONSTANTS Names, None

\* A tree has finitely many names.
ASSUME NamesAssumption == IsFiniteSet(Names)

Items(s) == {s[i] : i \in DOMAIN s}
IsList(s) == s \in Seq(Items(s))

Without(s, gone) ==
  LET f[i \in 0..Len(s)] == IF i = 0 THEN <<>> ELSE IF s[i] \in gone THEN f[i-1] ELSE Append(f[i-1], s[i])
  IN f[Len(s)]

Extended(s, more) == s \o Without(more, Items(s))

Unique(s) ==
  LET First(i) == \A j \in 1..i-1 : s[j] # s[i]
      f[i \in 0..Len(s)] == IF i = 0 THEN <<>> ELSE IF First(i) THEN Append(f[i-1], s[i]) ELSE f[i-1]
  IN f[Len(s)]

(* ModulePolicy, the fields that decide what is built from what. *)
NoPolicy == [kind |-> None, absorb |-> TRUE, add_srcs |-> <<>>, remove_srcs |-> <<>>,
             add_shared |-> <<>>, remove_shared |-> {}, add_static |-> <<>>, remove_static |-> {},
             add_cflags |-> <<>>, add_ldflags |-> <<>>, gensrcs |-> <<>>]

(* The dependency edits as the closure sees them. *)
SharedAfter(m, pol) == Extended(Without(m.shared, pol.remove_shared), pol.add_shared)
StaticAfter(m, pol) == Extended(Without(m.static, pol.remove_static), pol.add_static)

(* apply_module_policy; glob is the GlobalPolicy: options added to and      *)
(* dropped from every module.                                              *)
ApplyPolicy(m, pol, glob) ==
  [m EXCEPT
     !.srcs = Extended(Without(@, Items(pol.remove_srcs)), Unique(pol.add_srcs)),
     !.shared = Extended(Without(@, pol.remove_shared), Unique(pol.add_shared)),
     !.static = Extended(Without(@, pol.remove_static), Unique(pol.add_static)),
     !.cflags = Without(@ \o pol.add_cflags, glob.drop_cflags),
     !.ldflags = Unique(Without(@ \o pol.add_ldflags \o glob.add_ldflags, glob.drop_ldflags))]

(* Module.effective_srcs *)
EffectiveSrcs(m) == Unique(Without(m.srcs, Items(m.exclude)))

(* _effective_link_deps: what a module links, what it takes in. *)
Whole(m, pol) == IF pol.absorb THEN <<>> ELSE m.whole
LinkedAsWritten(m, pol) == m.shared \o m.static \o Whole(m, pol)
LinkedDeps(m, pol) == SharedAfter(m, pol) \o StaticAfter(m, pol) \o Whole(m, pol)
AbsorbedDeps(m, pol) == IF pol.absorb THEN m.whole ELSE <<>>

(* _is_buildable: sources of its own, of the overlay or taken in. *)
Buildable(m, pol) ==
  \/ EffectiveSrcs(m) # <<>>
  \/ pol.add_srcs # <<>>
  \/ pol.absorb /\ m.whole # <<>>
=============================================================================
