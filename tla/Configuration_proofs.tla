------------------------- MODULE Configuration_proofs -------------------------
(***************************************************************************)
(* Proofs about Configuration: what Resolve, Validate and RenderTemplates  *)
(* let through, for every file and command line.                           *)
(***************************************************************************)
EXTENDS Configuration, TLAPS

\* The value overlay chooses is one the layer gives.
LEMMA GivenValue == ASSUME NEW S, S # {} PROVE (CHOOSE v \in S : TRUE) \in S
  OBVIOUS

\* overlay keeps the keys; every value comes from the layer or was there.
LEMMA OverlayFields ==
    ASSUME NEW config, NEW layer
    PROVE /\ DOMAIN overlay(config, layer) = DOMAIN config
          /\ \A key \in DOMAIN config :
                \/ overlay(config, layer)[key] = config[key]
                \/ overlay(config, layer)[key] \in layer[key]
  BY GivenValue DEF overlay

\* What Resolve hands to Validate: a value for every key.
Keys == {"port", "infrastructure", "standalone", "address", "label", "url", "health"}
Typed(config) ==
    /\ DOMAIN config = Keys
    /\ config.label \in Texts
    /\ config.address \in Addresses \cup {Defaults.address}

\* A layer over typed values gives typed values.
LEMMA OverlayTyped ==
    ASSUME NEW config, Typed(config),
           NEW layer, layer.label \subseteq Texts, layer.address \subseteq Addresses
    PROVE Typed(overlay(config, layer))
  BY OverlayFields DEF Typed, Keys

\* The defaults under the file's layer under the flags are typed.
LEMMA ResolveTyped ==
    ASSUME NEW rc \in RawConfigurations, NEW config \in Resolve(rc)
    PROVE Typed(config) /\ Validate(config)
<1> DEFINE base == IF rc.file = "read" THEN overlay(Defaults, rc.layer) ELSE Defaults
<1>1. Typed(Defaults)
  BY DEF Typed, Keys, Defaults, Texts
<1>2. rc.layer \in Layers /\ rc.flags \in Layers
  BY DEF RawConfigurations
<1>3. Typed(base)
  BY <1>1, <1>2, OverlayTyped DEF Layers
<1>4. /\ overrides(rc.flags).label \subseteq Texts
      /\ overrides(rc.flags).address \subseteq Addresses
  BY <1>2 DEF overrides, Layers
<1>5. Typed(overlay(base, overrides(rc.flags)))
  <2> HIDE DEF base
  <2> QED BY <1>3, <1>4, OverlayTyped
<1> QED
  BY <1>5 DEF Resolve

\* The port that reaches Validate is the one that was asked for: the checked flag is
\* not changed by narrowing it to 16 bits.
LEMMA PortKept ==
    ASSUME NEW rc \in RawConfigurations, NEW config \in Resolve(rc)
    PROVE config.port \in PortsAsked(rc)
<1> DEFINE base == IF rc.file = "read" THEN overlay(Defaults, rc.layer) ELSE Defaults
           given == overrides(rc.flags)
<1>1. rc.layer \in Layers /\ rc.flags \in Layers
  BY DEF RawConfigurations
<1>2. given.port = rc.flags.port
  <2>1. given.port = {p % (MaxPort + 1) : p \in rc.flags.port}
    BY <1>1 DEF overrides, Layers
  <2>2. rc.flags.port \subseteq Nat /\ \A p \in rc.flags.port : p <= MaxPort
    BY <1>1 DEF Layers, Resolve, overridesValid
  <2>3. \A p \in rc.flags.port : p % (MaxPort + 1) = p
    BY <2>2, SMT DEF MaxPort
  <2> QED BY <2>1, <2>3
<1>3. base.port \in (IF rc.file = "read" /\ rc.layer.port # {} THEN rc.layer.port
                                                            ELSE {Defaults.port})
  <2>1. "port" \in DOMAIN Defaults
    BY DEF Defaults
  <2> QED BY <2>1, GivenValue DEF overlay
<1>4. "port" \in DOMAIN base
  <2>1. "port" \in DOMAIN Defaults
    BY DEF Defaults
  <2> QED BY <2>1, OverlayFields
<1>5. config = overlay(base, given)
  BY DEF Resolve
<1> HIDE DEF base, given
<1>6. config.port = IF given.port = {} THEN base.port ELSE CHOOSE v \in given.port : TRUE
  BY <1>4, <1>5 DEF overlay
<1> QED
  BY <1>2, <1>3, <1>6, GivenValue DEF PortsAsked

\* RenderTemplates renders the texts, checks the target and touches nothing else.
LEMMA RenderKeeps ==
    ASSUME NEW config, Typed(config), NEW c \in RenderTemplates(config)
    PROVE /\ c.label \in {"empty", "good", "bad"}
          /\ validateHandoff(c, TRUE)
          /\ c.port = config.port /\ c.address = config.address
          /\ c.infrastructure = config.infrastructure /\ c.standalone = config.standalone
  BY DEF RenderTemplates, Typed, Keys, render, Texts, Templates

-----------------------------------------------------------------------------
(* The address check, on the addresses of IPv4. *)

\* A power of two up to 2^32 and its cofactor, value by value: there is no
\* induction in these provers.
LEMMA Powers ==
    ASSUME NEW n \in 0..32
    PROVE /\ 2^n \in Nat /\ 2^(32 - n) \in Nat /\ 2^n * 2^(32 - n) = 2^32
          /\ 2^n > 0 /\ 2^(32 - n) > 0
          /\ n >= 2 => 2^n >= 4
<1>1. CASE n = 0   BY <1>1, SMT
<1>2. CASE n = 1   BY <1>2, SMT
<1>3. CASE n = 2   BY <1>3, SMT
<1>4. CASE n = 3   BY <1>4, SMT
<1>5. CASE n = 4   BY <1>5, SMT
<1>6. CASE n = 5   BY <1>6, SMT
<1>7. CASE n = 6   BY <1>7, SMT
<1>8. CASE n = 7   BY <1>8, SMT
<1>9. CASE n = 8   BY <1>9, SMT
<1>10. CASE n = 9   BY <1>10, SMT
<1>11. CASE n = 10   BY <1>11, SMT
<1>12. CASE n = 11   BY <1>12, SMT
<1>13. CASE n = 12   BY <1>13, SMT
<1>14. CASE n = 13   BY <1>14, SMT
<1>15. CASE n = 14   BY <1>15, SMT
<1>16. CASE n = 15   BY <1>16, SMT
<1>17. CASE n = 16   BY <1>17, SMT
<1>18. CASE n = 17   BY <1>18, SMT
<1>19. CASE n = 18   BY <1>19, SMT
<1>20. CASE n = 19   BY <1>20, SMT
<1>21. CASE n = 20   BY <1>21, SMT
<1>22. CASE n = 21   BY <1>22, SMT
<1>23. CASE n = 22   BY <1>23, SMT
<1>24. CASE n = 23   BY <1>24, SMT
<1>25. CASE n = 24   BY <1>25, SMT
<1>26. CASE n = 25   BY <1>26, SMT
<1>27. CASE n = 26   BY <1>27, SMT
<1>28. CASE n = 27   BY <1>28, SMT
<1>29. CASE n = 28   BY <1>29, SMT
<1>30. CASE n = 29   BY <1>30, SMT
<1>31. CASE n = 30   BY <1>31, SMT
<1>32. CASE n = 31   BY <1>32, SMT
<1>33. CASE n = 32   BY <1>33, SMT
<1> QED
  BY <1>1, <1>2, <1>3, <1>4, <1>5, <1>6, <1>7, <1>8, <1>9, <1>10, <1>11,
     <1>12, <1>13, <1>14, <1>15, <1>16, <1>17, <1>18, <1>19, <1>20, <1>21, <1>22,
     <1>23, <1>24, <1>25, <1>26, <1>27, <1>28, <1>29, <1>30, <1>31, <1>32, <1>33, SMT

\* Division with remainder, in both directions.
LEMMA Division ==
    ASSUME NEW h \in Nat, NEW B \in Nat, B > 0
    PROVE /\ h \div B \in Nat /\ h % B \in 0..(B - 1)
          /\ h = B * (h \div B) + (h % B)
  BY SMT

LEMMA Quotient ==
    ASSUME NEW q \in Nat, NEW r \in Nat, NEW B \in Nat, B > r
    PROVE (B * q + r) \div B = q
<1> DEFINE h == B * q + r
<1>1. h \in Nat /\ h \div B \in Nat
  BY SMT
<1>2. B * (h \div B) <= h /\ h < B * (h \div B) + B
  BY Division, SMT
<1> QED
  BY <1>1, <1>2, SMT

\* Blocks of B addresses fill the address space, so the block of an address lies
\* in it as a whole.
LEMMA BlockFits ==
    ASSUME NEW q \in Nat, NEW K \in Nat, NEW B \in Nat, B * q < K * B
    PROVE B * q + B <= K * B
  BY SMT

\* The two comparisons of masked addresses: the host is not the first of its
\* block, and its successor is in the same block.
LEMMA SuccessorInBlock ==
    ASSUME NEW h \in Nat, NEW B \in Nat, B >= 4,
           h # h - (h % B), (h + 1) - ((h + 1) % B) = h - (h % B)
    PROVE h % B \in 1..(B - 2)
<1>1. h % B \in 0..(B - 1) /\ (h + 1) % B \in 0..(B - 1)
  BY Division, SMT
<1> QED
  BY <1>1, SMT

\* An address strictly inside a block of at least four has a neighbour there that
\* is strictly inside, too.
LEMMA InsideBlock ==
    ASSUME NEW a, NEW q \in Nat, NEW B \in Nat, B >= 4, NEW r \in 1..(B - 2),
           NEW N \in Nat, B * q + B <= N,
           \A x \in 0..(N - 1) : x \div B = q => x \in subnet(a)
    PROVE B * q + r \in hosts(a) /\ hosts(a) # {B * q + r}
<1>1. ASSUME NEW i \in 0..(B - 1) PROVE B * q + i \in subnet(a)
  <2>1. (B * q + i) \div B = q
    BY Quotient, SMT
  <2>2. B * q \in Nat
    BY SMT
  <2>3. B * q + i \in 0..(N - 1)
    BY <2>2, SMT
  <2> QED BY <2>1, <2>3
<1>2. B * q \in Nat
  BY SMT
<1>3. ASSUME NEW i \in 1..(B - 2) PROVE B * q + i \in hosts(a)
  <2>1. 0 \in 0..(B - 1) /\ i \in 0..(B - 1) /\ B - 1 \in 0..(B - 1)
    BY SMT
  <2>2. B * q + 0 \in subnet(a) /\ B * q + i \in subnet(a) /\ B * q + (B - 1) \in subnet(a)
    BY <1>1, <2>1
  <2>3. B * q + 0 < B * q + i /\ B * q + i < B * q + (B - 1)
    BY <1>2, SMT
  <2> QED BY <2>2, <2>3 DEF hosts
<1>4. 1 \in 1..(B - 2) /\ 2 \in 1..(B - 2)
  BY SMT
<1>5. B * q + 1 \in hosts(a) /\ B * q + 2 \in hosts(a)
  BY <1>3, <1>4
<1>6. B * q + 1 # B * q + 2
  BY <1>2, SMT
<1> QED
  BY <1>3, <1>5, <1>6

\* validateStandaloneAddress: an address it lets through is a host of its subnet,
\* neither the first nor the last address, and another host is left.
LEMMA AddressUsable ==
    ASSUME Width = 32, NEW a \in Addresses, validateStandaloneAddress(a)
    PROVE Usable(a)
<1>1. PICK h, n, B, K, N : /\ h = a.host /\ n = 32 - a.bits /\ N = 2^32
                           /\ B = 2^n /\ K = 2^(32 - n)
  OBVIOUS
<1>2. blockSize(a) = B
  BY <1>1 DEF blockSize
<1>3. a.host \in 0..(2^32 - 1) /\ a.bits \in 0..32
  BY DEF Addresses
<1>4. a.bits <= 32 - 2
  BY DEF validateStandaloneAddress
<1>5. h \in 0..(N - 1) /\ n \in 0..32 /\ n >= 2
  BY <1>1, <1>3, <1>4, SMT
<1>6. B \in Nat /\ B >= 4 /\ K \in Nat /\ B * K = N
  BY <1>1, <1>5, Powers
<1>7. N \in Nat /\ h \in Nat /\ h < N
  BY <1>5, <1>6, SMT
<1>8. h # h - (h % B) /\ (h + 1) - ((h + 1) % B) = h - (h % B)
  BY <1>1, <1>2 DEF validateStandaloneAddress, containsNext, masked
<1>9. PICK q, r : q = h \div B /\ r = h % B
  OBVIOUS
<1>10. q \in Nat /\ r \in 1..(B - 2) /\ h = B * q + r
  <2>1. h % B \in 1..(B - 2)
    BY <1>6, <1>7, <1>8, SuccessorInBlock
  <2>2. B > 0
    BY <1>6
  <2>3. h \div B \in Nat /\ h = B * (h \div B) + (h % B)
    BY <1>6, <1>7, <2>2, Division
  <2> QED
    BY <1>9, <2>1, <2>3
<1>11. B * q + B <= N
  <2>1. B * q < K * B
    BY <1>6, <1>7, <1>10, SMT
  <2>2. K * B = N
    BY <1>6, SMT
  <2> QED BY <2>1, <2>2, <1>6, <1>10, BlockFits
<1>12. \A x \in 0..(N - 1) : x \div B = q => x \in subnet(a)
  BY <1>1, <1>2, <1>9 DEF subnet
<1>13. B * q + r \in hosts(a) /\ hosts(a) # {B * q + r}
  BY <1>6, <1>7, <1>10, <1>11, <1>12, InsideBlock
<1> QED
  BY <1>1, <1>10, <1>13 DEF Usable
=============================================================================
