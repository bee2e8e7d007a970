-------------------------------- MODULE CSP --------------------------------
(***************************************************************************)
(* How the Inspection hop makes a page's Content-Security-Policy admit the  *)
(* injected agent and its reports (internal/inspect/csp.go).  No state.     *)
(*                                                                          *)
(* A policy is a function from the directives it has, among those below, to *)
(* their source expressions; a header is a sequence of enforced policies.   *)
(* Directive and source text is abstracted to names; a nonce is its own name.*)
(***************************************************************************)
EXTENDS Naturals, Sequences

CONSTANTS
  Nonces,   \* the nonces projects use
  Minted,   \* the nonce NewID mints for one response
  Hosts     \* every other source expression, 'none' and 'unsafe-inline' included

ASSUME CSPAssumption ==
  /\ Minted \notin Nonces
  /\ {"self", "strict-dynamic"} \cap (Nonces \cup Hosts \cup {Minted}) = {}
  /\ Hosts \cap (Nonces \cup {Minted}) = {}

Directives == {"script-src-elem", "script-src", "default-src", "connect-src"}
Sources    == {"self", "strict-dynamic", Minted} \cup Nonces \cup Hosts
IsPolicy(p) == DOMAIN p \subseteq Directives /\ \A d \in DOMAIN p : p[d] \subseteq Sources

scriptKinds  == <<"script-src-elem", "script-src", "default-src">>
connectKinds == <<"connect-src", "default-src">>

\* The directive that decides for kinds, as a set of at most one.
governing(p, kinds) ==
  {kinds[i] : i \in {j \in DOMAIN kinds : kinds[j] \in DOMAIN p /\ \A k \in 1..(j - 1) : kinds[k] \notin DOMAIN p}}

sources(p, kinds) == UNION {p[d] : d \in governing(p, kinds)}

nonce(p) == sources(p, scriptKinds) \cap (Nonces \cup {Minted})

\* Slip: 'strict-dynamic' is taken for one more source.
admitsSelfAnyway(p, kinds) == governing(p, kinds) = {} \/ "self" \in sources(p, kinds)

admitsSelf(p, kinds) ==
  \/ governing(p, kinds) = {}
  \/ "self" \in sources(p, kinds) /\ "strict-dynamic" \notin sources(p, kinds)

widen(p, kinds, source) ==
  [d \in DOMAIN p |-> IF d \in governing(p, kinds) THEN p[d] \cup {source} ELSE p[d]]

\* The page's own nonces, when its only policy has some: they admit the tag.
Own(h) == IF Len(h) = 1 THEN nonce(h[1]) ELSE {}

needScript(h)  == (\E i \in DOMAIN h : ~admitsSelf(h[i], scriptKinds)) /\ Own(h) = {}
needConnect(h) == \E i \in DOMAIN h : ~admitsSelf(h[i], connectKinds)

Relaxed(h, p) ==
  LET scripted == IF needScript(h) THEN widen(p, scriptKinds, Minted) ELSE p
  IN  IF needConnect(h) THEN widen(scripted, connectKinds, "self") ELSE scripted

\* reconcileCSP: the nonce of the tag, as a set of at most one, the header the
\* browser gets, and whether a warning is due.
reconcileCSP(h) ==
  [nonce    |-> IF needScript(h) THEN {Minted}
                ELSE IF Own(h) = {} THEN {} ELSE {CHOOSE n \in Own(h) : TRUE},
   policies |-> [i \in DOMAIN h |-> Relaxed(h, h[i])],
   warned   |-> needScript(h) \/ needConnect(h)]

(***************************************************************************)
(* What a browser does with a policy (external): a script of the page's own *)
(* origin loads when the governing directive has its nonce, or 'self' and no *)
(* 'strict-dynamic'; a request to that origin needs 'self'.                  *)
(***************************************************************************)
Loads(p, tag) ==
  \/ governing(p, scriptKinds) = {}
  \/ tag \cap sources(p, scriptKinds) # {}
  \/ "self" \in sources(p, scriptKinds) /\ "strict-dynamic" \notin sources(p, scriptKinds)

Connects(p) == governing(p, connectKinds) = {} \/ "self" \in sources(p, connectKinds)

Admits(policies, tag) == \A i \in DOMAIN policies : Loads(policies[i], tag) /\ Connects(policies[i])
=============================================================================
