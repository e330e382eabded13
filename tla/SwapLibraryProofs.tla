-------------------------- MODULE SwapLibraryProofs --------------------------
(***************************************************************************)
(* What the library promises the Exchange app, whichever call it makes:    *)
(* the promises of SwapSession, which are proved in SwapSessionProofs and  *)
(* carried over here, and those of AddressCheck and PrintableAmount.       *)
(***************************************************************************)
EXTENDS SwapLibrary, SwapSessionProofs, PowersProofs, SequenceTheorems

-----------------------------------------------------------------------------
(* Signing *)

\* A call of another kind leaves the session in its first state, with a copy
\* that is not initialized.
LEMMA LibraryInitSession == LibraryInit => IInv
<1>1. NoSession => IInv
  <2>1. ZeroAddress \in Addresses
    BY SwapAssumption DEF ZeroAddress, Addresses, SwapAssumption
  <2>2. 0 \in Amounts /\ AptDecimals \in Decimals
    BY SwapAssumption DEF Amounts, SwapAssumption
  <2> QED
    BY <2>1, <2>2 DEF NoSession, IInv, TypeOK, Parameters, Validated, CopyIsOfAgreed,
                      OutcomeIsOfCheck
<1> QED
  BY <1>1, InitIInv DEF LibraryInit

\* Every step of a call is a step of the swap's, or leaves the session alone.
LEMMA LibraryNextSession ==
    [LibraryNext]_<<command, sessionVars, amountVars, addressVars>> => [Next]_vars
BY DEF LibraryNext, SignCall, AmountCall, AddressCall, sessionVars, vars

\* The copy of the parameters keeps its type, whichever call is made.
THEOREM LibraryTypeCorrect == LibrarySpec => []TypeOK
<1>1. LibrarySpec => []IInv
  BY LibraryInitSession, LibraryNextSession, NextIInv, PTL DEF LibrarySpec
<1>2. IInv => TypeOK
  BY DEF IInv
<1> QED
  BY <1>1, <1>2, PTL

\* What a call of the library signs is what was agreed, and what was agreed is
\* not rejected.
THEOREM LibrarySignsAgreed == LibrarySpec => [](SignedIsAgreed /\ AgreedIsNotRejected)
<1>1. LibrarySpec => []IInv
  BY LibraryInitSession, LibraryNextSession, NextIInv, PTL DEF LibrarySpec
<1>2. IInv => SignedIsAgreed /\ AgreedIsNotRejected
  BY SignsAgreed, RejectsOnlyOthers
<1> QED
  BY <1>1, <1>2, PTL

-----------------------------------------------------------------------------
(* Addresses *)

\* A key that was derived without an error is the key of the path given, which
\* is one of Aptos; and the answer is that of the comparison.
AddressOfPath ==
    /\ address_pc \in {"called", "address", "done", "failed"}
    /\ address_pc = "called" => answered = {}
    /\ address_pc # "done" => result = 0
    /\ Address!BadParameters => address_pc \in {"called", "done"} /\ result = 0
    /\ address_pc # "called" /\ answered = {} /\ ~Address!BadParameters =>
        /\ public_key = address_params.address_parameters.path
        /\ Address!IsAptosPath(public_key)
    /\ address_pc = "done" /\ answered = {} /\ ~Address!BadParameters =>
        \/ result = 1 /\ Address!Matches(address_params.address_to_check)
        \/ result = 0 /\ ~Address!Matches(address_params.address_to_check)

\* An error leaves the key as the stack had it, and the answer is one only if the
\* address is that of the key, whatever the key is.
KeyOfStack ==
    /\ command = "CHECK_ADDRESS" /\ address_pc = "called" => public_key \in OnStack
    /\ answered # {} => public_key \in OnStack
    /\ result = 1 => Address!Matches(address_params.address_to_check)

\* The parameters stay those of the call.
ParametersKept == address_params \in Address!Parameters

\* A call of another kind is in the state before the check.
LEMMA InitAddressOfPath == LibraryInit => AddressOfPath /\ KeyOfStack /\ ParametersKept
<1>1. NoAddress => ParametersKept
  BY DEF NoAddress, ParametersKept, Address!Parameters, Address!PathParameters,
         Address!AddressTexts
<1> QED
  BY <1>1 DEF LibraryInit, NoAddress, Address!Init, AddressOfPath, KeyOfStack, ParametersKept

\* An error leaves the key unset, and is told apart from a success by what was
\* answered.
LEMMA NextAddressOfPath ==
    AddressOfPath /\ [LibraryNext]_<<command, sessionVars, amountVars, addressVars>>
        => AddressOfPath'
<1> SUFFICES ASSUME AddressOfPath,
                    [LibraryNext]_<<command, sessionVars, amountVars, addressVars>>
             PROVE  AddressOfPath'
  OBVIOUS
<1>1. CASE Address!RefuseParameters
  BY <1>1 DEF AddressOfPath, Address!RefuseParameters, Address!Return, Address!BadParameters
<1>2. CASE Address!GetPublicKey
  BY <1>2 DEF AddressOfPath, Address!GetPublicKey, Address!Errors, Address!Return,
              Address!BadParameters, Address!IsAptosPath
<1>3. CASE Address!AddressFails
  BY <1>3 DEF AddressOfPath, Address!AddressFails, Address!BadParameters, Address!IsAptosPath
<1>4. CASE Address!CompareAddress
  <2> DEFINE matches == Address!Matches(address_params.address_to_check)
  <2>1. matches' <=> matches
    BY <1>4 DEF Address!CompareAddress, Address!Matches, Address!SameTextInAnyCase
  <2>2. Address!BadParameters' <=> Address!BadParameters
    BY <1>4 DEF Address!CompareAddress, Address!BadParameters
  <2>3. \/ matches /\ result' = 1
        \/ ~matches /\ result' = 0
    BY <1>4 DEF Address!CompareAddress, Address!Return
  <2>4. address_pc = "address" /\ address_pc' = "done"
    BY <1>4 DEF Address!CompareAddress, Address!Return
  <2>5. answered' = answered /\ public_key' = public_key /\ address_params' = address_params
    BY <1>4 DEF Address!CompareAddress, Address!Return
  <2>6. answered = {} =>
            /\ ~Address!BadParameters
            /\ public_key = address_params.address_parameters.path
            /\ Address!IsAptosPath(public_key)
    BY <2>4 DEF AddressOfPath
  <2> QED
    BY <2>1, <2>2, <2>3, <2>4, <2>5, <2>6 DEF AddressOfPath
<1>5. CASE UNCHANGED addressVars
  BY <1>5 DEF addressVars, AddressOfPath, Address!BadParameters, Address!IsAptosPath,
              Address!Matches, Address!SameTextInAnyCase
<1> QED
  BY <1>1, <1>2, <1>3, <1>4, <1>5
     DEF LibraryNext, SignCall, AmountCall, AddressCall, Address!Next

\* The comparison is with the key there is, which only a derivation changes.
LEMMA NextKeyOfStack ==
    AddressOfPath /\ KeyOfStack
        /\ [LibraryNext]_<<command, sessionVars, amountVars, addressVars>>
        => KeyOfStack'
<1> SUFFICES ASSUME AddressOfPath, KeyOfStack,
                    [LibraryNext]_<<command, sessionVars, amountVars, addressVars>>
             PROVE  KeyOfStack'
  OBVIOUS
<1>1. CASE Address!RefuseParameters
  BY <1>1 DEF AddressOfPath, KeyOfStack, Address!RefuseParameters, Address!Return
<1>2. CASE command = "CHECK_ADDRESS" /\ Address!GetPublicKey
  <2>1. /\ result = 0 /\ answered = {} /\ public_key \in OnStack
        /\ address_pc = "called"
    BY <1>2 DEF AddressOfPath, KeyOfStack, Address!GetPublicKey
  <2>2. result' = 0 /\ address_pc' # "called"
    BY <1>2, <2>1 DEF Address!GetPublicKey, Address!Return
  <2>3. answered' = {} \/ public_key' = public_key
    BY <1>2, <2>1 DEF Address!GetPublicKey
  <2> QED
    BY <2>1, <2>2, <2>3 DEF KeyOfStack
<1>3. CASE Address!AddressFails
  BY <1>3 DEF KeyOfStack, Address!AddressFails, Address!Matches, Address!SameTextInAnyCase
<1>4. CASE Address!CompareAddress
  BY <1>4 DEF KeyOfStack, Address!CompareAddress, Address!Return, Address!Matches,
              Address!SameTextInAnyCase
<1>5. CASE UNCHANGED addressVars /\ command' = command
  BY <1>5 DEF addressVars, KeyOfStack, Address!Matches, Address!SameTextInAnyCase
<1> QED
  BY <1>1, <1>2, <1>3, <1>4, <1>5
     DEF LibraryNext, SignCall, AmountCall, AddressCall, Address!Next

\* No step writes them.
LEMMA NextParametersKept ==
    ParametersKept /\ [LibraryNext]_<<command, sessionVars, amountVars, addressVars>>
        => ParametersKept'
BY DEF ParametersKept, LibraryNext, SignCall, AmountCall, AddressCall, addressVars,
       Address!Next, Address!RefuseParameters, Address!GetPublicKey, Address!AddressFails,
       Address!CompareAddress

\* A path has a length.
LEMMA PathLength ==
    ASSUME address_params \in Address!Parameters
    PROVE  Len(address_params.address_parameters.path) \in Nat
<1> DEFINE path == address_params.address_parameters.path
<1>1. path = << >> \/ path \in Address!Paths
  BY DEF Address!Parameters, Address!PathParameters
<1>2. CASE path = << >>
  BY <1>2
<1>3. CASE path \in Address!Paths
  <2>1. PICK n \in 0 .. MaxPath : path \in [1 .. n -> Elements]
    BY <1>3 DEF Address!Paths
  <2>2. n \in Nat
    OBVIOUS
  <2>3. path \in Seq(Elements)
    BY <2>1, <2>2
  <2> QED
    BY <2>3
<1> QED
  BY <1>1, <1>2, <1>3

\* Together they are inductive.
LEMMA AddressInvariance == LibrarySpec => [](ParametersKept /\ AddressOfPath /\ KeyOfStack)
BY InitAddressOfPath, NextAddressOfPath, NextKeyOfStack, NextParametersKept, PTL DEF LibrarySpec

\* An address is taken for the user's own only if it is that of the path that
\* came with it, and the path one of Aptos; or, after an error that was sent, if
\* it is that of a key that the stack held.
THEOREM LibraryChecksAddress == LibrarySpec => []MatchIsDerived
<1>1. ASSUME ParametersKept, AddressOfPath, result = 1, answered = {}
      PROVE  LET path == address_params.address_parameters.path
             IN  /\ Len(path) > 2 /\ path[1] = Purpose /\ path[2] = CoinType
                 /\ Address!IsAddressOf(address_params.address_to_check, path)
  <2>1. /\ public_key = address_params.address_parameters.path
        /\ Address!IsAptosPath(public_key)
        /\ Address!Matches(address_params.address_to_check)
    <3>1. address_pc = "done" /\ ~Address!BadParameters
      BY <1>1 DEF AddressOfPath
    <3> QED
      BY <1>1, <3>1 DEF AddressOfPath
  <2>2. Len(address_params.address_parameters.path) \in Nat
    BY <1>1, PathLength DEF ParametersKept
  <2> QED
    BY <2>1, <2>2 DEF Address!IsAptosPath, Address!IsAddressOf, Address!Matches,
                      Address!SameTextInAnyCase
<1>2. ASSUME KeyOfStack, result = 1, answered # {}
      PROVE  \E key \in OnStack : Address!IsAddressOf(address_params.address_to_check, key)
  BY <1>2 DEF KeyOfStack, Address!IsAddressOf, Address!Matches, Address!SameTextInAnyCase
<1>3. ParametersKept /\ AddressOfPath /\ KeyOfStack => MatchIsDerived
  BY <1>1, <1>2 DEF MatchIsDerived, Address!MatchIsDerived
<1> QED
  BY <1>3, AddressInvariance, PTL

\* The user's own address is recognised, in whatever case its letters are.
THEOREM LibraryKnowsOwnAddress == LibrarySpec => []OwnAddressMatches
<1>1. AddressOfPath => OwnAddressMatches
  BY DEF AddressOfPath, OwnAddressMatches, Address!OwnAddressMatches,
         Address!IsAddressOf, Address!Matches, Address!SameTextInAnyCase
<1> QED
  BY <1>1, AddressInvariance, PTL

-----------------------------------------------------------------------------
(* Amounts: the digits of a number *)

\* The instance has a copy of Power.
LEMMA AmountPower == \A b, n : Amount!Power(b, n) = Power(b, n)
BY DEF Amount!Power, Power

\* The numbers of the instance, and their bounds.
LEMMA AmountFacts ==
    /\ Width \in Nat /\ MAX_AMOUNT_STR_LEN \in Nat \ {0, 1}
    /\ Power(10, MAX_AMOUNT_STR_LEN - 2) < Power(2, Width)
    /\ Amount!Limit = Power(2, Width)
    /\ Amount!Amounts = 0 .. Power(2, Width) - 1
BY LibraryAssumption, AmountPower DEF Amount!AmountAssumption, Amount!Limit, Amount!Amounts

\* The powers of ten, as the proofs use them.
LEMMA Tens ==
    /\ Power(10, 0) = 1
    /\ \A n \in Nat : Power(10, n) \in Nat \ {0} /\ Power(10, n + 1) = 10 * Power(10, n)
BY PowerIs, PowerPositive

\* The value of a text is what its recursion gives, digit after digit.
LEMMA ValueIs ==
    ASSUME NEW digits \in Seq(0 .. 9)
    PROVE  \E v : /\ Amount!Value(digits) = v[Len(digits)]
                  /\ v[0] = 0
                  /\ \A n \in 0 .. Len(digits) - 1 : v[n + 1] = 10 * v[n] + digits[n + 1]
<1> DEFINE L == Len(digits)
           step == [s \in Int \X Nat |->
                       10 * s[1] + (IF s[2] + 1 \in 1 .. L THEN digits[s[2] + 1] ELSE 0)]
           value == CHOOSE v : v = [n \in 0 .. L |-> IF n = 0 THEN 0
                                                     ELSE 10 * v[n - 1] + digits[n]]
<1>0. L \in Nat /\ \A i \in 1 .. L : digits[i] \in 0 .. 9
  OBVIOUS
<1>1. PICK f \in [Nat -> Int] : f[0] = 0 /\ \A n \in Nat : f[n + 1] = step[<<f[n], n>>]
  <2>1. step \in [Int \X Nat -> Int]
    <3> HIDE DEF L
    <3>1. \A i \in Nat : (IF i + 1 \in 1 .. L THEN digits[i + 1] ELSE 0) \in Int
      BY <1>0
    <3>2. \A s \in Int \X Nat : s[1] \in Int /\ s[2] \in Nat
      OBVIOUS
    <3> QED
      BY <3>1, <3>2
  <2>2. 0 \in Int
    OBVIOUS
  <2> HIDE DEF step
  <2> QED
    BY <2>1, <2>2, Recursion
<1> HIDE DEF L
<1>2. \A n \in 0 .. L - 1 : f[n + 1] = 10 * f[n] + digits[n + 1]
  <2> TAKE n \in 0 .. L - 1
  <2>1. n \in Nat /\ n + 1 \in 1 .. L /\ f[n] \in Int
    BY <1>0
  <2> QED
    BY <1>1, <2>1
<1>3. \E v : v = [n \in 0 .. L |-> IF n = 0 THEN 0 ELSE 10 * v[n - 1] + digits[n]]
  <2> DEFINE g == [n \in 0 .. L |-> f[n]]
  <2>1. \A n \in 0 .. L : g[n] = IF n = 0 THEN 0 ELSE 10 * g[n - 1] + digits[n]
    <3> TAKE n \in 0 .. L
    <3>1. CASE n # 0
      <4>1. n - 1 \in 0 .. L - 1 /\ (n - 1) + 1 = n /\ n - 1 \in 0 .. L
        BY <3>1, <1>0
      <4> QED
        BY <1>2, <3>1, <4>1
    <3>2. CASE n = 0
      BY <1>1, <3>2
    <3> QED
      BY <3>1, <3>2
  <2>2. g = [n \in 0 .. L |-> g[n]]
    OBVIOUS
  <2> HIDE DEF g
  <2> QED
    BY <2>1, <2>2
<1>4. value = [n \in 0 .. L |-> IF n = 0 THEN 0 ELSE 10 * value[n - 1] + digits[n]]
  BY <1>3
<1>5. Amount!Value(digits) = value[L]
  BY DEF Amount!Value, L
<1> HIDE DEF value
<1>6. value[0] = 0
  BY <1>4, <1>0
<1>7. \A n \in 0 .. L - 1 : value[n + 1] = 10 * value[n] + digits[n + 1]
  <2> TAKE n \in 0 .. L - 1
  <2>1. n + 1 \in 0 .. L /\ n + 1 # 0 /\ (n + 1) - 1 = n
    BY <1>0
  <2> QED
    BY <1>4, <2>1
<1> QED
  BY <1>5, <1>6, <1>7 DEF L

\* The first digits of a number of L digits stand for what is left of it when
\* the others are cut off.
LEMMA PrefixValue ==
    ASSUME NEW a \in Nat, NEW L \in Nat, a < Power(10, L),
           NEW digits \in Seq(0 .. 9), Len(digits) <= L,
           \A i \in 1 .. Len(digits) : digits[i] = (a \div Power(10, L - i)) % 10
    PROVE  Amount!Value(digits) = a \div Power(10, L - Len(digits))
<1>1. PICK v : /\ Amount!Value(digits) = v[Len(digits)]
               /\ v[0] = 0
               /\ \A n \in 0 .. Len(digits) - 1 : v[n + 1] = 10 * v[n] + digits[n + 1]
  BY ValueIs
<1> DEFINE K == Len(digits)
           T == {n \in Nat : n <= K => v[n] = a \div Power(10, L - n)}
<1>2. K \in Nat /\ K <= L
  OBVIOUS
<1>3. 0 \in T
  <2>1. Power(10, L) \in Nat \ {0} /\ L - 0 = L
    BY Tens
  <2>3. \A p \in Nat \ {0} : a < p => a \div p = 0
    <3> TAKE p \in Nat \ {0}
    <3> HAVE a < p
    <3>1. a = p * 0 + a /\ a \in 0 .. p - 1
      OBVIOUS
    <3> QED
      BY <3>1, DivisionIs
  <2>4. a \div Power(10, L) = 0
    BY <2>1, <2>3
  <2> QED
    BY <1>1, <2>1, <2>4
<1>4. ASSUME NEW n \in T PROVE n + 1 \in T
  <2> SUFFICES ASSUME n + 1 <= K PROVE v[n + 1] = a \div Power(10, L - (n + 1))
    OBVIOUS
  <2>1. n \in Nat /\ v[n] = a \div Power(10, L - n) /\ n \in 0 .. K - 1 /\ n + 1 \in 1 .. K
    BY <1>2
  <2>2. PICK m \in Nat : m = L - (n + 1)
    BY <1>2, <2>1
  <2>3. L - n = m + 1
    BY <2>1, <2>2
  <2>4. v[n + 1] = 10 * v[n] + ((a \div Power(10, m)) % 10)
    BY <1>1, <2>1, <2>2
  <2>5. Power(10, m + 1) = 10 * Power(10, m) /\ Power(10, m) \in Nat \ {0}
    BY Tens
  <2>6. \A p \in Nat \ {0} : a \div p = 10 * (a \div (10 * p)) + ((a \div p) % 10)
    <3> TAKE p \in Nat \ {0}
    <3>1. PICK q, r, s, d : /\ q = a \div p /\ r = a % p /\ s = q \div 10 /\ d = q % 10
      OBVIOUS
    <3>2. a = p * q + r /\ r \in 0 .. p - 1 /\ q \in Nat
      BY <3>1, Division
    <3>3. q = 10 * s + d /\ d \in 0 .. 9 /\ s \in Nat
      <4>1. \A x \in Nat : x = 10 * (x \div 10) + (x % 10) /\ x % 10 \in 0 .. 9 /\ x \div 10 \in Nat
        OBVIOUS
      <4> QED
        BY <3>1, <3>2, <4>1
    <3>4. a = (10 * p) * s + (p * d + r) /\ p * d + r \in 0 .. 10 * p - 1 /\ 10 * p \in Nat \ {0}
      <4>1. p * q = p * (10 * s + d)
        BY <3>3
      <4>2. p * (10 * s + d) = (10 * p) * s + p * d
        BY <3>3
      <4>3. p * d \in Nat /\ p * d <= 9 * p
        BY <3>3
      <4> QED
        BY <3>2, <3>3, <4>1, <4>2, <4>3
    <3>5. a \div (10 * p) = s
      <4> DEFINE b == 10 * p
                 rest == p * d + r
      <4>1. a = b * s + rest /\ rest \in 0 .. b - 1 /\ b \in Nat \ {0}
        BY <3>4
      <4> HIDE DEF b, rest
      <4>2. a \div b = s
        BY <4>1, <3>3, DivisionIs
      <4> QED
        BY <4>2 DEF b
    <3> QED
      BY <3>1, <3>3, <3>5
  <2> QED
    BY <2>1, <2>2, <2>3, <2>4, <2>5, <2>6
<1>5. T = Nat
  <2>1. T \subseteq Nat
    OBVIOUS
  <2> HIDE DEF T
  <2> QED
    BY <1>3, <1>4, <2>1, Induction
<1> QED
  BY <1>1, <1>2, <1>5

\* A number that ends in zeros is a multiple of the power that many digits make.
LEMMA ZerosAtEnd ==
    ASSUME NEW a \in Nat, NEW m \in Nat,
           \A j \in 0 .. m - 1 : (a \div Power(10, j)) % 10 = 0
    PROVE  (a \div Power(10, m)) * Power(10, m) = a
<1> DEFINE T == {n \in Nat : n <= m => a % Power(10, n) = 0}
<1>1. 0 \in T
  BY Tens
<1>2. ASSUME NEW n \in T PROVE n + 1 \in T
  <2> SUFFICES ASSUME n + 1 <= m PROVE a % Power(10, n + 1) = 0
    OBVIOUS
  <2>1. n \in Nat /\ a % Power(10, n) = 0 /\ (a \div Power(10, n)) % 10 = 0
    OBVIOUS
  <2>2. PICK p \in Nat \ {0} : p = Power(10, n) /\ Power(10, n + 1) = 10 * p
    BY Tens, <2>1
  <2>3. a % (10 * p) = (a % p) + p * ((a \div p) % 10)
    <3>1. \A b, q \in Nat \ {0} : a % (b * q) = (a % q) + q * ((a \div q) % b)
      BY LowerDigits
    <3>2. 10 \in Nat \ {0}
      OBVIOUS
    <3> QED
      BY <3>1, <3>2, Zenon
  <2> QED
    BY <2>1, <2>2, <2>3
<1>3. T = Nat
  <2>1. T \subseteq Nat
    OBVIOUS
  <2> HIDE DEF T
  <2> QED
    BY <1>1, <1>2, <2>1, Induction
<1>4. PICK p \in Nat \ {0} : p = Power(10, m)
  BY Tens
<1>5. a = p * (a \div p) + (a % p) /\ a \div p \in Nat
  BY Division
<1>6. a % p = 0
  BY <1>3, <1>4
<1> QED
  BY <1>4, <1>5, <1>6

-----------------------------------------------------------------------------
(* Amounts: the parts of a text *)

Digit == 0 .. 9

\* A number with a point and a fraction, unless the fraction is empty.
TextOf(whole, fraction) ==
    IF fraction = << >> THEN whole ELSE whole \o << Point >> \o fraction

\* A point is told apart from a digit.
LEMMA PointIsNoDigit == Point \notin Digit
BY LibraryAssumption DEF Amount!AmountAssumption, Digit

\* Its parts are found again.
LEMMA PartsOfText ==
    ASSUME NEW whole \in Seq(Digit), NEW fraction \in Seq(Digit)
    PROVE  /\ Amount!Whole(TextOf(whole, fraction)) = whole
           /\ Amount!Fraction(TextOf(whole, fraction)) = fraction
           /\ Len(TextOf(whole, fraction)) <= Len(whole) + Len(fraction) + 1
           /\ fraction = << >> => Len(TextOf(whole, fraction)) = Len(whole)
           /\ whole # << >> => TextOf(whole, fraction) # << >>
<1>0. /\ Len(whole) \in Nat /\ Len(fraction) \in Nat
      /\ \A i \in 1 .. Len(whole) : whole[i] \in Digit
      /\ \A i \in 1 .. Len(fraction) : fraction[i] \in Digit
  OBVIOUS
<1>1. CASE fraction = << >>
  <2>1. TextOf(whole, fraction) = whole
    BY <1>1 DEF TextOf
  <2>2. Amount!Points(whole) = {}
    BY <1>0, PointIsNoDigit DEF Amount!Points
  <2>3. SubSeq(whole, 1, Len(whole)) = whole
    BY SubSeqFull
  <2>4. Amount!Whole(whole) = whole
    BY <2>2, <2>3 DEF Amount!Whole
  <2>5. Amount!Fraction(whole) = << >>
    BY <2>2 DEF Amount!Fraction
  <2> QED
    BY <1>0, <1>1, <2>1, <2>4, <2>5
<1>2. CASE fraction # << >>
  <2> DEFINE S == Digit \union {Point}
             text == whole \o << Point >> \o fraction
             L == Len(whole)
             F == Len(fraction)
  <2>1. whole \in Seq(S) /\ fraction \in Seq(S) /\ << Point >> \in Seq(S) /\ Len(<< Point >>) = 1
    <3>1. Digit \subseteq S /\ Point \in S
      OBVIOUS
    <3>2. whole \in Seq(S) /\ fraction \in Seq(S)
      BY <3>1, SeqMonotonic
    <3> QED
      BY <3>1, <3>2
  <2> HIDE DEF S
  <2>2. /\ whole \o << Point >> \in Seq(S)
        /\ Len(whole \o << Point >>) = L + 1
        /\ \A i \in 1 .. L + 1 :
               (whole \o << Point >>)[i] = IF i <= L THEN whole[i] ELSE << Point >>[i - L]
    BY <2>1, ConcatProperties
  <2>3. /\ text \in Seq(S)
        /\ Len(text) = (L + 1) + F
        /\ \A i \in 1 .. (L + 1) + F :
               text[i] = IF i <= L + 1 THEN (whole \o << Point >>)[i] ELSE fraction[i - (L + 1)]
    <3> DEFINE front == whole \o << Point >>
    <3>1. front \in Seq(S) /\ Len(front) = L + 1
      BY <2>2
    <3> HIDE DEF front
    <3>2. /\ front \o fraction \in Seq(S)
          /\ Len(front \o fraction) = (L + 1) + F
          /\ \A i \in 1 .. (L + 1) + F :
                (front \o fraction)[i] = IF i <= L + 1 THEN front[i] ELSE fraction[i - (L + 1)]
      <4>1. /\ front \o fraction \in Seq(S)
            /\ Len(front \o fraction) = Len(front) + Len(fraction)
            /\ \A i \in 1 .. Len(front) + Len(fraction) : (front \o fraction)[i] =
                   IF i <= Len(front) THEN front[i] ELSE fraction[i - Len(front)]
        BY <2>1, <3>1, ConcatProperties
      <4> QED
        BY <3>1, <4>1
    <3> QED
      BY <3>2 DEF front
  <2>4. TextOf(whole, fraction) = text
    BY <1>2 DEF TextOf
  <2> HIDE DEF text
  <2>5. \A i \in 1 .. L : text[i] = whole[i]
    <3> TAKE i \in 1 .. L
    <3>1. i \in 1 .. (L + 1) + F /\ i <= L + 1 /\ i <= L /\ i \in 1 .. L + 1
      BY <1>0
    <3> QED
      BY <2>2, <2>3, <3>1
  <2>6. text[L + 1] = Point
    <3>1. L + 1 \in 1 .. (L + 1) + F /\ L + 1 <= L + 1 /\ ~(L + 1 <= L) /\ L + 1 \in 1 .. L + 1
      BY <1>0
    <3>2. << Point >>[(L + 1) - L] = Point
      BY <1>0
    <3>3. (whole \o << Point >>)[L + 1] = << Point >>[(L + 1) - L]
      BY <2>2, <3>1
    <3> QED
      BY <2>3, <3>1, <3>2, <3>3
  <2>7. \A i \in 1 .. F : text[L + 1 + i] = fraction[i]
    <3> TAKE i \in 1 .. F
    <3>1. L + 1 + i \in 1 .. (L + 1) + F /\ ~(L + 1 + i <= L + 1) /\ (L + 1 + i) - (L + 1) = i
      BY <1>0
    <3> QED
      BY <2>3, <3>1
  <2>8. DOMAIN text = 1 .. (L + 1) + F
    BY <2>3, LenProperties
  <2>9. Amount!Points(text) = {L + 1}
    <3>1. \A i \in DOMAIN text : text[i] = Point <=> i = L + 1
      <4> TAKE i \in DOMAIN text
      <4>1. i \in 1 .. L \/ i = L + 1 \/ \E j \in 1 .. F : i = L + 1 + j
        <5>1. i \in Int /\ 1 <= i /\ i <= (L + 1) + F
          BY <2>8
        <5>2. CASE i > L + 1
          <6>1. i - (L + 1) \in 1 .. F /\ i = L + 1 + (i - (L + 1))
            BY <1>0, <5>1, <5>2
          <6> QED
            BY <6>1
        <5> QED
          BY <1>0, <5>1, <5>2
      <4>2. CASE i \in 1 .. L
        BY <1>0, <2>5, <4>2, PointIsNoDigit
      <4>3. CASE i = L + 1
        BY <2>6, <4>3
      <4>4. ASSUME NEW j \in 1 .. F, i = L + 1 + j PROVE text[i] = Point <=> i = L + 1
        <5>1. text[i] \in Digit
          BY <1>0, <2>7, <4>4
        <5> QED
          BY <1>0, <4>4, <5>1, PointIsNoDigit
      <4> QED
        BY <4>1, <4>2, <4>3, <4>4
    <3>2. L + 1 \in DOMAIN text
      BY <1>0, <2>8
    <3> QED
      BY <3>1, <3>2 DEF Amount!Points
  <2>10. Amount!Whole(text) = whole
    <3>1. (CHOOSE i \in Amount!Points(text) : TRUE) = L + 1
      BY <2>9
    <3>2. Amount!Whole(text) = SubSeq(text, 1, L)
      <4>1. Amount!Points(text) # {} /\ (L + 1) - 1 = L
        BY <1>0, <2>9
      <4> QED
        BY <3>1, <4>1 DEF Amount!Whole
    <3>3. /\ SubSeq(text, 1, L) \in Seq(Digit)
          /\ Len(SubSeq(text, 1, L)) = IF 1 <= L THEN L - 1 + 1 ELSE 0
          /\ \A i \in 1 .. L - 1 + 1 : SubSeq(text, 1, L)[i] = text[1 + i - 1]
      <4>1. \A i \in 1 .. L : text[i] \in Digit
        BY <1>0, <2>5
      <4> QED
        BY <1>0, <4>1, SubSeqProperties
    <3>4. Len(SubSeq(text, 1, L)) = L
      BY <1>0, <3>3
    <3>5. \A i \in 1 .. L : SubSeq(text, 1, L)[i] = whole[i]
      <4> TAKE i \in 1 .. L
      <4>1. i \in 1 .. L - 1 + 1 /\ 1 + i - 1 = i
        BY <1>0
      <4> QED
        BY <2>5, <3>3, <4>1
    <3>6. SubSeq(text, 1, L) = whole
      <4> DEFINE sub == SubSeq(text, 1, L)
      <4>1. sub \in Seq(Digit) /\ Len(sub) = Len(whole) /\ \A i \in 1 .. Len(sub) : sub[i] = whole[i]
        BY <3>3, <3>4, <3>5
      <4> HIDE DEF sub
      <4>2. sub = whole
        BY <4>1, SeqEqual
      <4> QED
        BY <4>2 DEF sub
    <3> QED
      BY <3>2, <3>6
  <2>11. Amount!Fraction(text) = fraction
    <3>1. Amount!Fraction(text) = SubSeq(text, L + 2, (L + 1) + F)
      BY <2>3, <2>9, <2>10 DEF Amount!Fraction
    <3> DEFINE sub == SubSeq(text, L + 2, (L + 1) + F)
    <3>2. \A i \in L + 2 .. (L + 1) + F : text[i] \in Digit
      <4> TAKE i \in L + 2 .. (L + 1) + F
      <4>1. i - (L + 1) \in 1 .. F /\ L + 1 + (i - (L + 1)) = i
        BY <1>0
      <4> QED
        BY <1>0, <2>7, <4>1
    <3>3. L + 2 \in Int /\ (L + 1) + F \in Int
      BY <1>0
    <3>4. /\ sub \in Seq(Digit)
          /\ Len(sub) = IF L + 2 <= (L + 1) + F THEN (L + 1) + F - (L + 2) + 1 ELSE 0
          /\ \A i \in 1 .. (L + 1) + F - (L + 2) + 1 : sub[i] = text[L + 2 + i - 1]
      <4> DEFINE m == L + 2
                 n == (L + 1) + F
      <4>1. m \in Int /\ n \in Int /\ \A i \in m .. n : text[i] \in Digit
        BY <3>2, <3>3
      <4> HIDE DEF m, n
      <4>2. /\ SubSeq(text, m, n) \in Seq(Digit)
            /\ Len(SubSeq(text, m, n)) = IF m <= n THEN n - m + 1 ELSE 0
            /\ \A i \in 1 .. n - m + 1 : SubSeq(text, m, n)[i] = text[m + i - 1]
        BY <4>1, SubSeqProperties
      <4> QED
        BY <4>2 DEF m, n
    <3> HIDE DEF sub
    <3>5. Len(sub) = F
      BY <1>0, <3>4
    <3>6. \A i \in 1 .. F : sub[i] = fraction[i]
      <4> TAKE i \in 1 .. F
      <4>1. i \in 1 .. (L + 1) + F - (L + 2) + 1 /\ L + 2 + i - 1 = L + 1 + i
        BY <1>0
      <4> QED
        BY <2>7, <3>4, <4>1
    <3>7. sub = fraction
      BY <3>4, <3>5, <3>6, SeqEqual
    <3> QED
      BY <3>1, <3>7 DEF sub
  <2>12. text # << >> /\ Len(text) <= L + F + 1
    BY <1>0, <2>3
  <2> QED
    BY <1>2, <2>4, <2>10, <2>11, <2>12
<1> QED
  BY <1>1, <1>2

\* Of a fraction, Trimmed keeps what comes before the zeros at its end.
LEMMA TrimmedIs ==
    ASSUME NEW whole \in Seq(Digit), NEW fraction \in Seq(Digit)
    PROVE  \E n \in 0 .. Len(fraction), kept \in Seq(Digit) :
               /\ n > 0 => fraction[n] # 0
               /\ \A i \in n + 1 .. Len(fraction) : fraction[i] = 0
               /\ Len(kept) = n /\ \A i \in 1 .. n : kept[i] = fraction[i]
               /\ Amount!Trimmed(whole, fraction) = TextOf(whole, kept)
<1> DEFINE F == Len(fraction)
           Keeps(n) == /\ n > 0 => fraction[n] # 0
                       /\ \A i \in n + 1 .. F : fraction[i] = 0
           kept == CHOOSE n \in 0 .. F : Keeps(n)
           T == {n \in 0 .. F : \A i \in n + 1 .. F : fraction[i] = 0}
<1>0. F \in Nat /\ \A i \in 1 .. F : fraction[i] \in Digit
  OBVIOUS
<1>1. \E n \in 0 .. F : Keeps(n)
  <2>1. T \subseteq Nat /\ F \in T
    BY <1>0
  <2>2. PICK m \in T : \A k \in T : m <= k
    <3> HIDE DEF T
    <3> QED
      BY <2>1, LeastNumber
  <2>3. m > 0 => fraction[m] # 0
    <3> SUFFICES ASSUME m > 0, fraction[m] = 0 PROVE FALSE
      OBVIOUS
    <3>1. m - 1 \in 0 .. F /\ (m - 1) + 1 = m
      BY <1>0
    <3>2. \A i \in m .. F : i = m \/ i \in m + 1 .. F
      BY <1>0
    <3>3. \A i \in (m - 1) + 1 .. F : fraction[i] = 0
      BY <3>1, <3>2
    <3>4. m - 1 \in T
      BY <3>1, <3>3
    <3>5. m \in Nat
      BY <1>0
    <3> HIDE DEF T
    <3>6. m <= m - 1
      BY <2>2, <3>4
    <3> QED
      BY <3>5, <3>6
  <2> QED
    BY <2>2, <2>3
<1>2. kept \in 0 .. F /\ Keeps(kept)
  <2> HIDE DEF Keeps
  <2> QED
    BY <1>1
<1>3. Amount!Trimmed(whole, fraction) =
          IF kept = 0 THEN whole ELSE whole \o << Point >> \o SubSeq(fraction, 1, kept)
  BY DEF Amount!Trimmed
<1> HIDE DEF kept
<1> DEFINE sub == SubSeq(fraction, 1, kept)
<1>4. sub \in Seq(Digit) /\ Len(sub) = kept /\ \A i \in 1 .. kept : sub[i] = fraction[i]
  <2>1. \A i \in 1 .. kept : fraction[i] \in Digit
    BY <1>0, <1>2
  <2>2. /\ sub \in Seq(Digit)
        /\ Len(sub) = IF 1 <= kept THEN kept - 1 + 1 ELSE 0
        /\ \A i \in 1 .. kept - 1 + 1 : sub[i] = fraction[1 + i - 1]
    BY <1>0, <1>2, <2>1, SubSeqProperties
  <2>3. kept - 1 + 1 = kept /\ \A i \in 1 .. kept : 1 + i - 1 = i
    BY <1>0, <1>2
  <2> HIDE DEF sub
  <2>4. Len(sub) = kept
    BY <1>0, <1>2, <2>2
  <2> QED
    BY <2>2, <2>3, <2>4
<1> HIDE DEF sub
<1>5. sub = << >> <=> kept = 0
  BY <1>4, EmptySeq, <1>2
<1>6. Amount!Trimmed(whole, fraction) = TextOf(whole, sub)
  BY <1>3, <1>5 DEF TextOf, sub
<1> QED
  BY <1>2, <1>4, <1>6

\* What is left has a length.
LEMMA TrimmedLength ==
    ASSUME NEW whole \in Seq(Digit), NEW fraction \in Seq(Digit)
    PROVE  Len(Amount!Trimmed(whole, fraction)) \in Int
<1> DEFINE S == Digit \union {Point}
<1>1. PICK kept \in Seq(Digit) : Amount!Trimmed(whole, fraction) = TextOf(whole, kept)
  BY TrimmedIs
<1>2. whole \in Seq(S) /\ kept \in Seq(S) /\ << Point >> \in Seq(S)
  <2>1. Digit \subseteq S /\ Point \in S
    OBVIOUS
  <2> HIDE DEF S
  <2> QED
    BY <2>1, SeqMonotonic
<1> HIDE DEF S
<1>3. TextOf(whole, kept) \in Seq(S)
  BY <1>2 DEF TextOf
<1> QED
  BY <1>1, <1>3

-----------------------------------------------------------------------------
(* Amounts: the text of a number *)

\* The text reads as the amount, its point in front of `places' digits: what
\* TextIsAmount says of the text that is printed.
ReadsAs(text, amount, places) ==
    /\ Len(Amount!Fraction(text)) <= places
    /\ Amount!Value(Amount!Whole(text) \o Amount!Fraction(text))
           * Amount!Power(10, places - Len(Amount!Fraction(text))) = amount
    /\ Len(Amount!Whole(text)) >= 1
    /\ Len(Amount!Whole(text)) > 1 => Amount!Whole(text)[1] # 0
    /\ Amount!Fraction(text) # << >> => Amount!Fraction(text)[Len(Amount!Fraction(text))] # 0

\* The digits of a number, with the zeros in front that a length of L takes.
Spells(digits, a) ==
    /\ a < Power(10, Len(digits))
    /\ \A i \in 1 .. Len(digits) : digits[i] = (a \div Power(10, Len(digits) - i)) % 10

\* Digits that spell an amount, cut at the point and trimmed, read as it.
LEMMA TextOfDigits ==
    ASSUME NEW a \in Nat, NEW whole \in Seq(Digit), NEW fraction \in Seq(Digit),
           Len(whole) >= 1, Len(whole) > 1 => whole[1] # 0,
           Spells(whole \o fraction, a)
    PROVE  /\ ReadsAs(Amount!Trimmed(whole, fraction), a, Len(fraction))
           /\ Len(Amount!Trimmed(whole, fraction)) <= Len(whole) + Len(fraction) + 1
           /\ fraction = << >> => Len(Amount!Trimmed(whole, fraction)) = Len(whole)
           /\ Amount!Trimmed(whole, fraction) # << >>
<1>1. PICK n \in 0 .. Len(fraction), kept \in Seq(Digit) :
          /\ n > 0 => fraction[n] # 0
          /\ \A i \in n + 1 .. Len(fraction) : fraction[i] = 0
          /\ Len(kept) = n /\ \A i \in 1 .. n : kept[i] = fraction[i]
          /\ Amount!Trimmed(whole, fraction) = TextOf(whole, kept)
  BY TrimmedIs
<1> DEFINE text == Amount!Trimmed(whole, fraction)
           W == Len(whole)
           F == Len(fraction)
           L == W + F
<1>0. W \in Nat /\ F \in Nat /\ n \in Nat /\ n <= F /\ L \in Nat
  BY <1>1
<1>2. /\ Amount!Whole(text) = whole /\ Amount!Fraction(text) = kept
      /\ Len(text) <= W + n + 1 /\ (kept = << >> => Len(text) = W)
      /\ whole # << >> => text # << >>
  BY <1>1, PartsOfText
<1>3. /\ whole \o fraction \in Seq(Digit) /\ Len(whole \o fraction) = L
      /\ \A i \in 1 .. L : (whole \o fraction)[i] =
                               IF i <= W THEN whole[i] ELSE fraction[i - W]
  BY ConcatProperties
<1>4. /\ whole \o kept \in Seq(Digit) /\ Len(whole \o kept) = W + n
      /\ \A i \in 1 .. W + n : (whole \o kept)[i] = IF i <= W THEN whole[i] ELSE kept[i - W]
  <2>1. /\ whole \o kept \in Seq(Digit) /\ Len(whole \o kept) = W + Len(kept)
        /\ \A i \in 1 .. W + Len(kept) : (whole \o kept)[i] = IF i <= W THEN whole[i] ELSE kept[i - W]
    BY ConcatProperties
  <2> QED
    BY <1>1, <2>1
<1> HIDE DEF text
<1>5. a < Power(10, L) /\ \A i \in 1 .. L : (whole \o fraction)[i] = (a \div Power(10, L - i)) % 10
  BY <1>3 DEF Spells
<1>6. \A i \in 1 .. W + n : (whole \o kept)[i] = (a \div Power(10, L - i)) % 10
  <2> TAKE i \in 1 .. W + n
  <2>1. i \in 1 .. L
    BY <1>0
  <2>2. (whole \o kept)[i] = (whole \o fraction)[i]
    <3>1. CASE i <= W
      BY <1>3, <1>4, <2>1, <3>1
    <3>2. CASE ~(i <= W)
      <4>1. i - W \in 1 .. n
        BY <1>0, <3>2
      <4> QED
        BY <1>1, <1>3, <1>4, <2>1, <3>2, <4>1
    <3> QED
      BY <3>1, <3>2
  <2> QED
    BY <1>5, <2>1, <2>2
<1>7. Amount!Value(whole \o kept) = a \div Power(10, F - n)
  <2> DEFINE s == whole \o kept
  <2>1. s \in Seq(0 .. 9) /\ Len(s) = W + n /\ Len(s) <= L
    BY <1>0, <1>4 DEF Digit
  <2>2. \A i \in 1 .. Len(s) : s[i] = (a \div Power(10, L - i)) % 10
    BY <1>6, <2>1
  <2> HIDE DEF s
  <2>3. Amount!Value(s) = a \div Power(10, L - Len(s))
    BY <1>0, <1>5, <2>1, <2>2, PrefixValue
  <2>4. L - Len(s) = F - n
    BY <1>0, <2>1
  <2> QED
    BY <2>3, <2>4 DEF s
<1>8. \A j \in 0 .. (F - n) - 1 : (a \div Power(10, j)) % 10 = 0
  <2> TAKE j \in 0 .. (F - n) - 1
  <2>1. L - j \in 1 .. L /\ L - (L - j) = j /\ ~(L - j <= W) /\ (L - j) - W \in n + 1 .. F
    BY <1>0
  <2>2. (whole \o fraction)[L - j] = fraction[(L - j) - W]
    BY <1>3, <2>1
  <2>3. fraction[(L - j) - W] = 0
    BY <1>1, <2>1
  <2> QED
    BY <1>5, <2>1, <2>2, <2>3
<1>9. Amount!Value(whole \o kept) * Amount!Power(10, F - n) = a
  <2>1. F - n \in Nat
    BY <1>0
  <2>2. (a \div Power(10, F - n)) * Power(10, F - n) = a
    BY <1>8, <2>1, ZerosAtEnd
  <2> QED
    BY <1>7, <2>2, AmountPower
<1>10. kept # << >> => kept[Len(kept)] # 0
  <2>1. kept # << >> => n > 0
    BY <1>1
  <2> QED
    BY <1>0, <1>1, <2>1
<1>11. whole # << >>
  OBVIOUS
<1>12. ReadsAs(text, a, F)
  BY <1>0, <1>1, <1>2, <1>9, <1>10 DEF ReadsAs
<1>13. fraction = << >> => kept = << >>
  <2> SUFFICES ASSUME fraction = << >> PROVE kept = << >>
    OBVIOUS
  <2>1. F = 0 /\ n = 0 /\ Len(kept) = 0
    BY <1>0, <1>1
  <2> QED
    BY <2>1
<1>14. Len(text) <= W + F + 1
  <2>1. Len(text) \in Int
    BY TrimmedLength DEF text
  <2> QED
    BY <1>0, <1>2, <2>1
<1> QED
  BY <1>2, <1>11, <1>12, <1>13, <1>14 DEF text

\* adjust_decimals, of the digits of a number with `places' decimals.
Adjusted(src, places) ==
    IF Len(src) <= places
    THEN IF MAX_AMOUNT_STR_LEN < places + 3 THEN << >>
         ELSE Amount!Trimmed(<< 0 >>, Amount!Zeros(places - Len(src)) \o src)
    ELSE IF MAX_AMOUNT_STR_LEN < Len(src) + 2 THEN << >>
         ELSE Amount!Trimmed(SubSeq(src, 1, Len(src) - places),
                             SubSeq(src, Len(src) - places + 1, Len(src)))

\* What adjust_decimals makes of the digits of a number reads as the number,
\* unless the decimals leave no room, and fits the temporary text.
LEMMA AdjustedIs ==
    ASSUME NEW a \in Nat, NEW places \in Nat, NEW src \in Seq(Digit), NEW n \in Nat \ {0},
           Len(src) = n, Power(10, n - 1) <= a, Spells(src, a), n + 2 <= MAX_AMOUNT_STR_LEN
    PROVE  \/ Adjusted(src, places) = << >> /\ places + 3 > MAX_AMOUNT_STR_LEN
           \/ /\ Adjusted(src, places) # << >>
              /\ ReadsAs(Adjusted(src, places), a, places)
              /\ Len(Adjusted(src, places)) < MAX_AMOUNT_STR_LEN
<1>0. /\ MAX_AMOUNT_STR_LEN \in Nat
      /\ \A i \in 1 .. n : src[i] \in Digit
      /\ a < Power(10, n) /\ \A i \in 1 .. n : src[i] = (a \div Power(10, n - i)) % 10
  <2>1. MAX_AMOUNT_STR_LEN \in Nat
    BY AmountFacts
  <2> QED
    BY <2>1 DEF Spells
<1>1. CASE n <= places /\ MAX_AMOUNT_STR_LEN < places + 3
  BY <1>0, <1>1 DEF Adjusted
<1>2. CASE n <= places /\ ~(MAX_AMOUNT_STR_LEN < places + 3)
  <2> DEFINE zeros == Amount!Zeros(places - n)
             fraction == zeros \o src
             Z == places - n
  <2>0. Z \in Nat /\ Z + n = places
    BY <1>2
  <2>1. zeros \in Seq(Digit) /\ Len(zeros) = Z /\ \A i \in 1 .. Z : zeros[i] = 0
    <3>1. zeros = [i \in 1 .. Z |-> 0]
      BY DEF Amount!Zeros
    <3> HIDE DEF zeros
    <3> QED
      BY <2>0, <3>1 DEF Digit
  <2> HIDE DEF zeros, Z
  <2>2. /\ fraction \in Seq(Digit) /\ Len(fraction) = places
        /\ \A i \in 1 .. places : fraction[i] = IF i <= Z THEN 0 ELSE src[i - Z]
    <3>1. /\ fraction \in Seq(Digit) /\ Len(fraction) = Len(zeros) + Len(src)
          /\ \A i \in 1 .. Len(zeros) + Len(src) :
                 fraction[i] = IF i <= Len(zeros) THEN zeros[i] ELSE src[i - Len(zeros)]
      BY <2>1, ConcatProperties
    <3>2. Len(zeros) = Z /\ Len(zeros) + Len(src) = places
      BY <2>0, <2>1
    <3> HIDE DEF fraction
    <3>3. \A i \in 1 .. places : i <= Z => i \in 1 .. Z
      BY <2>0
    <3> QED
      BY <2>1, <3>1, <3>2, <3>3
  <2> HIDE DEF fraction
  <2>3. << 0 >> \in Seq(Digit) /\ Len(<< 0 >>) = 1 /\ << 0 >>[1] = 0
    BY DEF Digit
  <2>4. /\ Len(<< 0 >> \o fraction) = places + 1
        /\ \A i \in 1 .. places + 1 :
               (<< 0 >> \o fraction)[i] = IF i <= 1 THEN << 0 >>[i] ELSE fraction[i - 1]
    <3>1. /\ Len(<< 0 >> \o fraction) = Len(<< 0 >>) + Len(fraction)
          /\ \A i \in 1 .. Len(<< 0 >>) + Len(fraction) : (<< 0 >> \o fraction)[i] =
                 IF i <= Len(<< 0 >>) THEN << 0 >>[i] ELSE fraction[i - Len(<< 0 >>)]
      BY <2>2, <2>3, ConcatProperties
    <3>2. Len(<< 0 >>) + Len(fraction) = places + 1
      BY <2>2, <2>3
    <3> QED
      BY <2>3, <3>1, <3>2
  <2>5. Spells(<< 0 >> \o fraction, a)
    <3>1. \A m \in Nat : m >= n => a < Power(10, m)
      <4> TAKE m \in Nat
      <4> HAVE m >= n
      <4>1. \A k \in Nat : n <= k => Power(10, n) <= Power(10, k)
        <5>1. 10 \in Nat \ {0} /\ n \in Nat
          OBVIOUS
        <5>2. \A b \in Nat \ {0}, j, k \in Nat : j <= k => Power(b, j) <= Power(b, k)
          BY PowerOrder
        <5> QED
          BY <5>1, <5>2, Zenon
      <4>2. Power(10, n) \in Nat /\ Power(10, m) \in Nat
        BY Tens
      <4> QED
        BY <1>0, <4>1, <4>2
    <3>2. \A i \in 1 .. places + 1 :
              (<< 0 >> \o fraction)[i] = (a \div Power(10, (places + 1) - i)) % 10
      <4> TAKE i \in 1 .. places + 1
      <4>1. CASE i <= Z + 1
        <5>1. (<< 0 >> \o fraction)[i] = 0
          <6>1. CASE i = 1
            BY <2>3, <2>4, <6>1
          <6>2. CASE i # 1
            <7>1. ~(i <= 1) /\ i - 1 \in 1 .. places /\ i - 1 <= Z
              BY <2>0, <4>1, <6>2
            <7> QED
              BY <2>2, <2>4, <7>1
          <6> QED
            BY <6>1, <6>2
        <5>2. PICK m \in Nat : m = (places + 1) - i /\ m >= n
          BY <2>0, <4>1
        <5>3. PICK p \in Nat \ {0} : p = Power(10, m) /\ a < p
          BY <3>1, <5>2, Tens
        <5>4. a \div p = 0
          <6>1. a = p * 0 + a /\ a \in 0 .. p - 1
            BY <5>3
          <6> QED
            BY <6>1, DivisionIs
        <5>5. 0 % 10 = 0
          OBVIOUS
        <5> QED
          BY <5>1, <5>2, <5>3, <5>4, <5>5
      <4>2. CASE ~(i <= Z + 1)
        <5>1. ~(i <= 1) /\ i - 1 \in 1 .. places /\ ~(i - 1 <= Z) /\ (i - 1) - Z \in 1 .. n
          BY <2>0, <4>2
        <5>2. n - ((i - 1) - Z) = (places + 1) - i
          BY <2>0
        <5>3. (<< 0 >> \o fraction)[i] = src[(i - 1) - Z]
          BY <2>2, <2>4, <5>1
        <5> QED
          BY <1>0, <5>1, <5>2, <5>3
      <4> QED
        BY <4>1, <4>2
    <3>3. places + 1 \in Nat /\ places + 1 >= n
      BY <1>2
    <3> QED
      BY <2>4, <3>1, <3>2, <3>3 DEF Spells
  <2> DEFINE text == Amount!Trimmed(<< 0 >>, fraction)
  <2>6. ReadsAs(text, a, places) /\ Len(text) <= places + 2 /\ text # << >>
    <3> DEFINE whole == << 0 >>
    <3>1. whole \in Seq(Digit) /\ Len(whole) = 1 /\ fraction \in Seq(Digit)
          /\ Spells(whole \o fraction, a)
          /\ Len(whole) >= 1 /\ (Len(whole) > 1 => whole[1] # 0)
      BY <2>2, <2>3, <2>5
    <3> HIDE DEF whole
    <3>2. /\ ReadsAs(Amount!Trimmed(whole, fraction), a, Len(fraction))
          /\ Len(Amount!Trimmed(whole, fraction)) <= Len(whole) + Len(fraction) + 1
          /\ Amount!Trimmed(whole, fraction) # << >>
      BY <3>1, TextOfDigits
    <3>3. Len(whole) + Len(fraction) + 1 = places + 2 /\ Len(fraction) = places
      BY <2>2, <3>1
    <3> QED
      BY <3>2, <3>3 DEF whole
  <2>7. Adjusted(src, places) = text
    BY <1>2 DEF Adjusted, fraction, zeros
  <2> HIDE DEF text
  <2>8. Len(text) < MAX_AMOUNT_STR_LEN
    <3>1. Len(text) \in Int
      BY <2>6, TrimmedLength, <2>2, <2>3 DEF text
    <3> QED
      BY <1>0, <1>2, <2>6, <3>1
  <2> QED
    BY <2>6, <2>7, <2>8
<1>3. CASE ~(n <= places)
  <2> DEFINE w == n - places
             whole == SubSeq(src, 1, w)
             fraction == SubSeq(src, w + 1, n)
             text == Amount!Trimmed(whole, fraction)
  <2>0. w \in 1 .. n /\ w \in Nat /\ n - w = places
    BY <1>3
  <2> HIDE DEF w
  <2>1. whole \in Seq(Digit) /\ Len(whole) = w /\ whole[1] = src[1]
    <3>1. \A i \in 1 .. w : src[i] \in Digit
      BY <1>0, <2>0
    <3>2. /\ whole \in Seq(Digit)
          /\ Len(whole) = IF 1 <= w THEN w - 1 + 1 ELSE 0
          /\ \A i \in 1 .. w - 1 + 1 : whole[i] = src[1 + i - 1]
      BY <2>0, <3>1, SubSeqProperties
    <3> HIDE DEF whole
    <3>3. Len(whole) = w /\ 1 \in 1 .. w - 1 + 1 /\ 1 + 1 - 1 = 1
      BY <2>0, <3>2
    <3> QED
      BY <3>2, <3>3
  <2>2. fraction \in Seq(Digit) /\ Len(fraction) = places
    <3>1. \A i \in w + 1 .. n : src[i] \in Digit
      BY <1>0, <2>0
    <3>2. w + 1 \in Int /\ n \in Int
      BY <2>0
    <3>3. /\ fraction \in Seq(Digit)
          /\ Len(fraction) = IF w + 1 <= n THEN n - (w + 1) + 1 ELSE 0
      <4> DEFINE m == w + 1
      <4>1. m \in Int /\ \A i \in m .. n : src[i] \in Digit
        BY <3>1, <3>2
      <4> HIDE DEF m
      <4>2. /\ SubSeq(src, m, n) \in Seq(Digit)
            /\ Len(SubSeq(src, m, n)) = IF m <= n THEN n - m + 1 ELSE 0
        BY <3>2, <4>1, SubSeqProperties
      <4> QED
        BY <4>2 DEF m
    <3> HIDE DEF fraction
    <3>4. Len(fraction) = places
      BY <2>0, <3>3
    <3> QED
      BY <3>3, <3>4
  <2>3. whole \o fraction = src
    <3>1. 1 \in 1 .. Len(src) + 1 /\ w \in 1 - 1 .. Len(src) /\ n \in w .. Len(src)
      BY <2>0
    <3>2. SubSeq(src, 1, w) \o SubSeq(src, w + 1, n) = SubSeq(src, 1, n)
      BY <3>1, ConcatAdjacentSubSeq
    <3>3. SubSeq(src, 1, n) = src
      BY SubSeqFull
    <3> QED
      BY <3>2, <3>3
  <2>4. src[1] # 0
    <3>1. 1 \in 1 .. n /\ n - 1 \in Nat /\ (n - 1) + 1 = n
      OBVIOUS
    <3>2. PICK p \in Nat \ {0} : p = Power(10, n - 1) /\ p <= a /\ a < 10 * p
      BY <1>0, <3>1, Tens
    <3>3. src[1] = (a \div p) % 10
      BY <1>0, <3>1, <3>2
    <3>4. PICK q, r \in Nat : q = a \div p /\ a = p * q + r /\ r \in 0 .. p - 1
      <4>1. a = p * (a \div p) + (a % p) /\ a % p \in 0 .. p - 1 /\ a \div p \in Nat
        BY Division
      <4>2. a % p \in Nat
        BY <4>1
      <4> QED
        BY <4>1, <4>2
    <3>5. q # 0
      BY <3>2, <3>4
    <3>6. q <= 9
      <4> SUFFICES ASSUME q >= 10 PROVE FALSE
        BY <3>4
      <4>1. p * q >= p * 10
        BY <3>4
      <4> QED
        BY <3>2, <3>4, <4>1
    <3>7. q % 10 = q
      BY <3>4, <3>6
    <3> QED
      BY <3>3, <3>4, <3>5, <3>7
  <2>5. Adjusted(src, places) = text
    <3>1. ~(MAX_AMOUNT_STR_LEN < n + 2)
      BY <1>0
    <3> QED
      BY <1>3, <3>1 DEF Adjusted, w
  <2> HIDE DEF whole, fraction
  <2>6. /\ ReadsAs(text, a, Len(fraction))
        /\ Len(text) <= Len(whole) + Len(fraction) + 1
        /\ text # << >>
    <3>1. Len(whole) >= 1 /\ (Len(whole) > 1 => whole[1] # 0) /\ Spells(whole \o fraction, a)
      BY <2>0, <2>1, <2>3, <2>4
    <3> QED
      BY <2>1, <2>2, <3>1, TextOfDigits
  <2>7. Len(text) < MAX_AMOUNT_STR_LEN
    <3>1. Len(text) \in Int
      BY <2>1, <2>2, TrimmedLength
    <3>2. Len(whole) + Len(fraction) + 1 = n + 1
      BY <2>0, <2>1, <2>2
    <3> HIDE DEF text
    <3> QED
      BY <1>0, <2>6, <3>1, <3>2
  <2> QED
    BY <2>2, <2>5, <2>6, <2>7
<1> QED
  BY <1>1, <1>2, <1>3

\* The digits that PrintText writes, if the base did not wrap.
LEMMA DigitsSpell ==
    ASSUME NEW a \in Nat, NEW n \in Nat, a < Power(10, n), NEW b, b = Power(10, n),
           NEW src, src = [i \in 1 .. n |-> (a \div (b \div Amount!Power(10, i))) % 10]
    PROVE  src \in Seq(Digit) /\ Len(src) = n /\ Spells(src, a)
<1>1. \A i \in 1 .. n : b \div Amount!Power(10, i) = Power(10, n - i)
  <2> TAKE i \in 1 .. n
  <2>1. PICK j, m \in Nat : j = i /\ m = n - i /\ j + m = n
    OBVIOUS
  <2>2. PICK p, q \in Nat \ {0} : p = Power(10, j) /\ q = Power(10, m)
    BY Tens
  <2>3. Power(10, n) = p * q
    <3>1. Power(10, j + m) = Power(10, j) * Power(10, m)
      BY PowerSum
    <3> QED
      BY <2>1, <2>2, <3>1
  <2>4. \A x, y \in Nat \ {0} : (x * y) \div x = y
    <3> TAKE x, y \in Nat \ {0}
    <3>1. x * y = x * y + 0 /\ 0 \in 0 .. x - 1 /\ x * y \in Nat
      OBVIOUS
    <3>2. PICK c \in Nat : c = x * y
      BY <3>1
    <3>3. c = x * y + 0
      BY <3>2
    <3>4. c \div x = y
      BY <3>1, <3>3, DivisionIs
    <3> QED
      BY <3>2, <3>4
  <2>5. Amount!Power(10, i) = p
    BY <2>1, <2>2, AmountPower
  <2> QED
    BY <2>1, <2>2, <2>3, <2>4, <2>5
<1>2. \A i \in 1 .. n : src[i] = (a \div Power(10, n - i)) % 10
  BY <1>1
<1>3. \A i \in 1 .. n : src[i] \in Digit
  <2> TAKE i \in 1 .. n
  <2>1. PICK p \in Nat \ {0} : p = Power(10, n - i)
    <3>1. n - i \in Nat
      OBVIOUS
    <3> QED
      BY <3>1, Tens
  <2>2. a \div p \in Nat
    BY Division
  <2>3. \A x \in Nat : x % 10 \in Digit
    BY DEF Digit
  <2> QED
    BY <1>2, <2>1, <2>2, <2>3
<1>4. src \in Seq(Digit) /\ Len(src) = n
  <2>1. src \in [1 .. n -> Digit]
    BY <1>3
  <2> QED
    BY <2>1
<1> QED
  BY <1>2, <1>4 DEF Spells

\* Zero has a text of its own.
LEMMA ZeroReads ==
    ASSUME NEW places \in Nat
    PROVE  ReadsAs(<< 0 >>, 0, places) /\ Len(<< 0 >>) = 1 /\ << 0 >> # << >>
<1> DEFINE whole == << 0 >>
           fraction == << >>
<1>1. whole \in Seq(Digit) /\ fraction \in Seq(Digit) /\ Len(whole) = 1 /\ whole[1] = 0
  BY DEF Digit
<1>2. fraction = << >> /\ Len(fraction) = 0 /\ whole # << >> /\ whole \o fraction = whole
  OBVIOUS
<1>3. whole = << 0 >>
  OBVIOUS
<1> HIDE DEF whole, fraction
<1>4. TextOf(whole, fraction) = whole
  BY <1>2 DEF TextOf
<1>5. Amount!Whole(whole) = whole /\ Amount!Fraction(whole) = fraction
  BY <1>1, <1>4, PartsOfText
<1>6. PICK v : Amount!Value(whole) = v[Len(whole)] /\ v[0] = 0
               /\ \A n \in 0 .. Len(whole) - 1 : v[n + 1] = 10 * v[n] + whole[n + 1]
  <2>1. whole \in Seq(0 .. 9)
    BY <1>1 DEF Digit
  <2> QED
    BY <2>1, ValueIs
<1>7. Amount!Value(whole) = 0
  <2>1. 0 \in 0 .. Len(whole) - 1 /\ v[0 + 1] = 10 * v[0] + whole[0 + 1]
    BY <1>1, <1>6
  <2> QED
    BY <1>1, <1>6, <2>1
<1>8. Amount!Power(10, places - 0) \in Int
  BY Tens, AmountPower
<1>9. Amount!Value(whole) * Amount!Power(10, places - 0) = 0
  BY <1>7, <1>8
<1>10. ReadsAs(whole, 0, places)
  <2>1. Amount!Whole(whole) \o Amount!Fraction(whole) = whole
    BY <1>2, <1>5
  <2>2. Len(Amount!Fraction(whole)) = 0 /\ Len(Amount!Whole(whole)) = 1
    BY <1>1, <1>2, <1>5
  <2>3. Amount!Value(Amount!Whole(whole) \o Amount!Fraction(whole))
            * Amount!Power(10, places - Len(Amount!Fraction(whole))) = 0
    BY <1>9, <2>1, <2>2
  <2>4. Amount!Fraction(whole) = << >>
    BY <1>2, <1>5
  <2> QED
    BY <2>2, <2>3, <2>4 DEF ReadsAs
<1> QED
  BY <1>1, <1>2, <1>3, <1>10

\* One turn of the loop.  The base is a multiple of as many twos as it was
\* multiplied by ten, also after it wrapped: it is zero when they are Width.
LEMMA BaseGoesOn ==
    ASSUME NEW b \in 0 .. Power(2, Width) - 1, NEW n \in 0 .. Width, b % Power(2, n) = 0,
           b # 0
    PROVE  /\ n + 1 \in 0 .. Width
           /\ ((b * 10) % Power(2, Width)) % Power(2, n + 1) = 0
<1>0. Width \in Nat /\ n \in Nat /\ b \in Nat
  BY AmountFacts
<1>1. PICK p \in Nat \ {0} : p = Power(2, n)
  BY <1>0, PowerPositive
<1>2. PICK k \in Nat : b = p * k
  <2>1. b = p * (b \div p) + (b % p) /\ b \div p \in Nat
    BY <1>0, Division
  <2>2. b % p = 0
    BY <1>1
  <2>3. b = p * (b \div p)
    BY <2>1, <2>2
  <2> QED
    BY <2>1, <2>3
<1>3. n # Width
  <2> SUFFICES ASSUME n = Width PROVE FALSE
    OBVIOUS
  <2>1. b < p /\ k # 0
    BY <1>0, <1>1, <1>2
  <2>2. p * k >= p
    BY <2>1
  <2> QED
    BY <1>2, <2>1, <2>2
<1>4. PICK m \in Nat : m = Width - (n + 1)
  BY <1>0, <1>3
<1>5. PICK q, r \in Nat \ {0} : q = 2 * p /\ q = Power(2, n + 1) /\ r = Power(2, m)
  <2>1. Power(2, n + 1) = 2 * p /\ 2 * p \in Nat \ {0}
    <3>1. \A i \in Nat : Power(2, i + 1) = 2 * Power(2, i)
      BY PowerIs
    <3> QED
      BY <1>0, <1>1, <3>1
  <2>2. Power(2, m) \in Nat \ {0}
    BY PowerPositive
  <2> QED
    BY <2>1, <2>2
<1>6. Power(2, Width) = q * r
  <2>1. n + 1 \in Nat /\ (n + 1) + m = Width
    BY <1>0, <1>4
  <2>2. \A i, j \in Nat : Power(2, i + j) = Power(2, i) * Power(2, j)
    BY PowerSum
  <2>3. Power(2, (n + 1) + m) = Power(2, n + 1) * Power(2, m)
    BY <2>1, <2>2
  <2> QED
    BY <1>5, <2>1, <2>3
<1>7. b * 10 = q * (5 * k)
  BY <1>2, <1>5
<1>8. PICK x \in Nat : x = 5 * k
  OBVIOUS
<1>9. ((q * x) % (q * r)) % q = 0
  <2>1. PICK c \in Nat \ {0} : c = q * r
    OBVIOUS
  <2>2. PICK y \in Nat : y = q * x
    OBVIOUS
  <2>3. PICK d, e \in Nat : y = c * d + e /\ e = y % c
    <3>1. y = c * (y \div c) + (y % c) /\ y % c \in 0 .. c - 1 /\ y \div c \in Nat
      BY Division
    <3>2. y % c \in Nat
      BY <3>1
    <3> QED
      BY <3>1, <3>2
  <2>4. e = q * (x - r * d)
    <3>1. q * x = (q * r) * d + e
      BY <2>1, <2>2, <2>3
    <3>2. (q * r) * d = q * (r * d) /\ q * (x - r * d) = q * x - q * (r * d)
      OBVIOUS
    <3> QED
      BY <3>1, <3>2
  <2>5. PICK z \in Int : z = x - r * d
    OBVIOUS
  <2>6. z >= 0
    <3> SUFFICES ASSUME z <= -1 PROVE FALSE
      OBVIOUS
    <3>1. q * z <= -1
      OBVIOUS
    <3>2. e = q * z
      BY <2>4, <2>5
    <3> QED
      BY <3>1, <3>2
  <2>7. e = q * z + 0 /\ z \in Nat /\ 0 \in 0 .. q - 1
    BY <2>4, <2>5, <2>6
  <2>8. e % q = 0
    BY <2>7, DivisionIs
  <2> QED
    BY <2>1, <2>2, <2>3, <2>8
<1>10. b * 10 = q * x
  BY <1>7, <1>8
<1>11. ((b * 10) % Power(2, Width)) % Power(2, n + 1) = 0
  BY <1>5, <1>6, <1>9, <1>10
<1> QED
  BY <1>0, <1>3, <1>11

-----------------------------------------------------------------------------
(* Amounts: the invariant *)

AmountKept == amount_params \in Amount!Parameters

\* The base is the power of ten of the digits counted, until it wraps, and
\* every power that was counted is one the amount reaches.
Counting ==
    /\ amount_pc \in {"called", "count", "done"}
    /\ base \in 0 .. Amount!Limit - 1
    /\ num_digits \in 0 .. Width
    /\ base % Power(2, num_digits) = 0
    /\ num_digits <= MAX_AMOUNT_STR_LEN - 2 => base = Power(10, num_digits)
    /\ amount_pc = "called" => num_digits = 0
    /\ amount_pc = "count" =>
        /\ amount_params.amount \in Amount!Amounts \ {0}
        /\ Amount!IsApt \/ amount_params.coin # Malformed
        /\ \A k \in 0 .. MAX_AMOUNT_STR_LEN - 2 :
               k < num_digits => Power(10, k) <= amount_params.amount

\* The calls that are answered with an error.
Unprintable ==
    \/ amount_params.amount = TooLong
    \/ ~Amount!IsApt /\ amount_params.coin = Malformed
    \/ amount_params.amount >= Power(10, MAX_AMOUNT_STR_LEN - 2)
    \/ Amount!decimals + 3 > MAX_AMOUNT_STR_LEN

\* There is no text before the end; then it is empty, or that of the amount.
Answering ==
    /\ amount_pc # "done" => printable_amount = << >>
    /\ amount_pc = "done" =>
        \/ printable_amount = << >> /\ Unprintable
        \/ /\ printable_amount # << >>
           /\ ReadsAs(printable_amount, amount_params.amount, Amount!decimals)
           /\ Len(printable_amount) < MAX_AMOUNT_STR_LEN

AmountInv == AmountKept /\ Counting /\ Answering

\* A coin that can be parsed has decimals.
LEMMA DecimalsAre ==
    ASSUME AmountKept, Amount!IsApt \/ amount_params.coin # Malformed
    PROVE  Amount!decimals \in Nat
<1>1. AptDecimals \in Nat /\ AmountDecimals \subseteq Nat
  BY LibraryAssumption DEF Amount!AmountAssumption
<1>2. amount_params.coin \in AmountDecimals \union {Null, Malformed}
  BY DEF AmountKept, Amount!Parameters
<1> QED
  BY <1>1, <1>2 DEF Amount!decimals, Amount!IsApt

\* A call begins with a base of one, and a call of another kind stays there.
LEMMA InitAmountInv == LibraryInit => AmountInv
<1> SUFFICES ASSUME LibraryInit PROVE AmountInv
  OBVIOUS
<1>1. AmountKept
  <2>1. NoAmount => AmountKept
    BY DEF NoAmount, AmountKept, Amount!Parameters
  <2> QED
    BY <2>1 DEF LibraryInit, Amount!Init, AmountKept
<1>2. amount_pc = "called" /\ base = 1 /\ num_digits = 0 /\ printable_amount = << >>
  BY DEF LibraryInit, Amount!Init, NoAmount
<1>3. 1 \in 0 .. Amount!Limit - 1
  <2>1. Power(10, MAX_AMOUNT_STR_LEN - 2) \in Nat \ {0}
    <3>1. MAX_AMOUNT_STR_LEN - 2 \in Nat
      BY AmountFacts
    <3> QED
      BY <3>1, Tens
  <2>2. Power(2, Width) \in Nat
    BY AmountFacts, PowerPositive
  <2> QED
    BY <2>1, <2>2, AmountFacts
<1>4. 1 % Power(2, 0) = 0 /\ Power(10, 0) = 1 /\ 0 \in 0 .. Width
  <2>1. Power(2, 0) = 1
    BY PowerIs
  <2> QED
    BY <2>1, Tens, AmountFacts
<1> QED
  BY <1>1, <1>2, <1>3, <1>4 DEF AmountInv, Counting, Answering

\* The parameters are refused, zero is printed, or the count begins.
LEMMA BeginAmount == AmountInv /\ Amount!Begin => AmountInv'
<1> SUFFICES ASSUME AmountInv, Amount!Begin PROVE AmountInv'
  OBVIOUS
<1>1. /\ amount_pc = "called" /\ num_digits = 0 /\ printable_amount = << >>
      /\ UNCHANGED <<amount_params, base, num_digits>>
  BY DEF Amount!Begin, AmountInv, Counting, Answering
<1>2. AmountKept'
  BY <1>1 DEF AmountInv, AmountKept
<1>3. /\ base' \in 0 .. Amount!Limit - 1
      /\ num_digits' \in 0 .. Width
      /\ base' % Power(2, num_digits') = 0
      /\ num_digits' <= MAX_AMOUNT_STR_LEN - 2 => base' = Power(10, num_digits')
  BY <1>1 DEF AmountInv, Counting
<1>4. (Amount!IsApt' <=> Amount!IsApt) /\ Amount!decimals' = Amount!decimals
  BY <1>1 DEF Amount!IsApt, Amount!decimals
<1>5. CASE amount_params.amount = TooLong \/ (~Amount!IsApt /\ amount_params.coin = Malformed)
  <2>1. amount_pc' = "done" /\ printable_amount' = << >>
    BY <1>5 DEF Amount!Begin, Amount!Return
  <2>2. Unprintable'
    BY <1>1, <1>4, <1>5 DEF Unprintable
  <2> QED
    BY <1>2, <1>3, <2>1, <2>2 DEF AmountInv, Counting, Answering
<1>6. CASE ~(amount_params.amount = TooLong \/ (~Amount!IsApt /\ amount_params.coin = Malformed))
  <2>1. CASE amount_params.amount = 0
    <3>1. amount_pc' = "done" /\ printable_amount' = << 0 >>
      BY <1>6, <2>1 DEF Amount!Begin, Amount!Return
    <3>2. Amount!decimals \in Nat
      BY <1>6, DecimalsAre DEF AmountInv
    <3>3. ReadsAs(<< 0 >>, 0, Amount!decimals) /\ Len(<< 0 >>) = 1 /\ << 0 >> # << >>
      BY <3>2, ZeroReads
    <3>4. 1 < MAX_AMOUNT_STR_LEN
      BY AmountFacts
    <3>5. ReadsAs(printable_amount', amount_params.amount', Amount!decimals')
      BY <1>1, <1>4, <2>1, <3>1, <3>3
    <3>6. Answering'
      BY <3>1, <3>3, <3>4, <3>5 DEF Answering
    <3> QED
      BY <1>2, <1>3, <3>1, <3>6 DEF AmountInv, Counting
  <2>2. CASE amount_params.amount # 0
    <3>1. amount_pc' = "count" /\ printable_amount' = << >>
      BY <1>1, <1>6, <2>2 DEF Amount!Begin
    <3>2. amount_params.amount \in Amount!Amounts \ {0}
      BY <1>6, <2>2 DEF AmountInv, AmountKept, Amount!Parameters
    <3>3. \A k \in 0 .. MAX_AMOUNT_STR_LEN - 2 : ~(k < num_digits)
      BY <1>1
    <3>4. Counting'
      BY <1>1, <1>3, <1>4, <1>6, <3>1, <3>2, <3>3 DEF Counting
    <3> QED
      BY <1>2, <3>1, <3>4 DEF AmountInv, Answering
  <2> QED
    BY <2>1, <2>2
<1> QED
  BY <1>5, <1>6

\* One turn of the loop.
LEMMA CountAmount == AmountInv /\ Amount!CountDigit => AmountInv'
<1> SUFFICES ASSUME AmountInv, Amount!CountDigit PROVE AmountInv'
  OBVIOUS
<1>1. /\ amount_pc = "count" /\ base <= amount_params.amount
      /\ base' = (base * 10) % Amount!Limit
      /\ num_digits' = IF base = 0 THEN num_digits ELSE num_digits + 1
      /\ UNCHANGED <<amount_params, amount_pc, printable_amount>>
  BY DEF Amount!CountDigit
<1>2. /\ MAX_AMOUNT_STR_LEN - 2 \in Nat /\ Width \in Nat
      /\ Amount!Limit = Power(2, Width) /\ Power(2, Width) \in Nat \ {0}
      /\ Power(10, MAX_AMOUNT_STR_LEN - 2) < Power(2, Width)
  BY AmountFacts, PowerPositive
<1>3. /\ base \in 0 .. Power(2, Width) - 1 /\ num_digits \in 0 .. Width
      /\ base % Power(2, num_digits) = 0 /\ base \in Nat /\ num_digits \in Nat
  BY <1>2 DEF AmountInv, Counting
<1>4. /\ num_digits <= MAX_AMOUNT_STR_LEN - 2 => base = Power(10, num_digits)
      /\ amount_params.amount \in Amount!Amounts \ {0}
      /\ Amount!IsApt \/ amount_params.coin # Malformed
      /\ \A k \in 0 .. MAX_AMOUNT_STR_LEN - 2 :
             k < num_digits => Power(10, k) <= amount_params.amount
  BY <1>1 DEF AmountInv, Counting
<1>5. AmountKept' /\ Answering'
  BY <1>1 DEF AmountInv, AmountKept, Answering
<1>6. Amount!IsApt' <=> Amount!IsApt
  BY <1>1 DEF Amount!IsApt
<1>7. base' \in 0 .. Power(2, Width) - 1
  BY <1>1, <1>2, <1>3
<1>8. CASE base = 0
  <2>1. base' = base /\ num_digits' = num_digits
    BY <1>1, <1>2, <1>8
  <2>2. Counting'
    BY <1>1, <1>2, <1>3, <1>4, <1>6, <1>7, <2>1 DEF Counting
  <2> QED
    BY <1>5, <2>2 DEF AmountInv
<1>9. CASE base # 0
  <2>1. num_digits' = num_digits + 1
    BY <1>1, <1>9
  <2>2. num_digits + 1 \in 0 .. Width /\ ((base * 10) % Power(2, Width)) % Power(2, num_digits + 1) = 0
    <3>1. PICK b, n : b = base /\ n = num_digits
      OBVIOUS
    <3>2. n + 1 \in 0 .. Width /\ ((b * 10) % Power(2, Width)) % Power(2, n + 1) = 0
      BY <1>3, <1>9, <3>1, BaseGoesOn
    <3> QED
      BY <3>1, <3>2
  <2>3. num_digits + 1 <= MAX_AMOUNT_STR_LEN - 2 => base' = Power(10, num_digits + 1)
    <3> SUFFICES ASSUME num_digits + 1 <= MAX_AMOUNT_STR_LEN - 2
                 PROVE  base' = Power(10, num_digits + 1)
      OBVIOUS
    <3>1. PICK n, top \in Nat : n = num_digits /\ top = MAX_AMOUNT_STR_LEN - 2 /\ n + 1 <= top
      BY <1>2, <1>3
    <3>2. base = Power(10, n) /\ Power(10, n + 1) = 10 * Power(10, n) /\ Power(10, n + 1) \in Nat
      BY <1>2, <1>3, <1>4, <3>1, Tens
    <3>3. Power(10, n + 1) <= Power(10, top)
      <4>1. \A b \in Nat \ {0}, i, j \in Nat : i <= j => Power(b, i) <= Power(b, j)
        BY PowerOrder
      <4>2. 10 \in Nat \ {0} /\ n + 1 \in Nat
        OBVIOUS
      <4> QED
        BY <3>1, <4>1, <4>2, Zenon
    <3>4. Power(10, top) \in Nat
      BY Tens
    <3>5. base * 10 = Power(10, n + 1) /\ base * 10 \in 0 .. Power(2, Width) - 1
      BY <1>2, <1>3, <3>1, <3>2, <3>3, <3>4
    <3>6. (base * 10) % Power(2, Width) = base * 10
      BY <1>2, <3>5
    <3> QED
      BY <1>1, <1>2, <3>1, <3>5, <3>6
  <2>4. ASSUME NEW k \in 0 .. MAX_AMOUNT_STR_LEN - 2, k < num_digits + 1
        PROVE  Power(10, k) <= amount_params.amount
    <3>1. CASE k < num_digits
      BY <1>4, <3>1
    <3>2. CASE ~(k < num_digits)
      <4>1. k = num_digits /\ num_digits <= MAX_AMOUNT_STR_LEN - 2
        BY <1>2, <1>3, <2>4, <3>2
      <4> QED
        BY <1>1, <1>4, <4>1
    <3> QED
      BY <3>1, <3>2
  <2>5. Counting'
    <3>1. base' % Power(2, num_digits') = 0
      BY <1>1, <1>2, <2>1, <2>2
    <3> QED
      BY <1>1, <1>2, <1>4, <1>6, <1>7, <2>1, <2>2, <2>3, <2>4, <3>1 DEF Counting
  <2> QED
    BY <1>5, <2>5 DEF AmountInv
<1> QED
  BY <1>8, <1>9

\* The digits are written, or there are too many of them.
LEMMA PrintAmount == AmountInv /\ Amount!PrintText => AmountInv'
<1> SUFFICES ASSUME AmountInv, Amount!PrintText PROVE AmountInv'
  OBVIOUS
<1> DEFINE src == Amount!DigitsOf(num_digits)
<1>1. /\ amount_pc = "count" /\ base > amount_params.amount /\ amount_pc' = "done"
      /\ printable_amount' = IF Amount!FitsText THEN Amount!AdjustDecimals(src) ELSE << >>
      /\ UNCHANGED <<amount_params, base, num_digits>>
  BY DEF Amount!PrintText, Amount!Return
<1>2. /\ MAX_AMOUNT_STR_LEN - 2 \in Nat /\ MAX_AMOUNT_STR_LEN \in Nat /\ Width \in Nat
      /\ Amount!Limit = Power(2, Width) /\ Power(2, Width) \in Nat \ {0}
      /\ Amount!Amounts = 0 .. Power(2, Width) - 1
  BY AmountFacts, PowerPositive
<1>3. /\ base \in 0 .. Amount!Limit - 1 /\ num_digits \in 0 .. Width
      /\ base % Power(2, num_digits) = 0
      /\ num_digits <= MAX_AMOUNT_STR_LEN - 2 => base = Power(10, num_digits)
      /\ amount_params.amount \in Amount!Amounts \ {0}
      /\ Amount!IsApt \/ amount_params.coin # Malformed
      /\ \A k \in 0 .. MAX_AMOUNT_STR_LEN - 2 :
             k < num_digits => Power(10, k) <= amount_params.amount
  BY <1>1 DEF AmountInv, Counting
<1>4. AmountKept' /\ Counting'
  BY <1>1, <1>3 DEF AmountInv, AmountKept, Counting
<1>5. Unprintable' <=> Unprintable
  BY <1>1 DEF Unprintable, Amount!IsApt, Amount!decimals
<1>6. Amount!decimals' = Amount!decimals
  BY <1>1 DEF Amount!IsApt, Amount!decimals
<1>7. amount_params.amount \in Nat /\ num_digits \in Nat
  <2>1. \A w \in Nat : \A x \in 0 .. w - 1 : x \in Nat
    OBVIOUS
  <2>2. amount_params.amount \in 0 .. Power(2, Width) - 1 /\ Power(2, Width) \in Nat
    BY <1>2, <1>3
  <2>3. amount_params.amount \in Nat
    BY <2>1, <2>2, Zenon
  <2> QED
    BY <1>2, <1>3, <2>3
<1>8. CASE ~Amount!FitsText
  <2>1. MAX_AMOUNT_STR_LEN - 2 < num_digits
    BY <1>2, <1>3, <1>8 DEF Amount!FitsText
  <2>2. MAX_AMOUNT_STR_LEN - 2 \in 0 .. MAX_AMOUNT_STR_LEN - 2
    BY <1>2
  <2>3. Power(10, MAX_AMOUNT_STR_LEN - 2) <= amount_params.amount
    BY <1>3, <2>1, <2>2
  <2>4. Power(10, MAX_AMOUNT_STR_LEN - 2) \in Nat /\ amount_params.amount \in Nat
    BY <1>2, <1>7, Tens
  <2>5. Unprintable
    BY <2>3, <2>4 DEF Unprintable
  <2> QED
    BY <1>1, <1>4, <1>5, <1>8, <2>5 DEF AmountInv, Answering
<1>9. CASE Amount!FitsText
  <2>1. PICK n, a, places \in Nat : n = num_digits /\ a = amount_params.amount
                                    /\ places = Amount!decimals
    <3>1. Amount!decimals \in Nat
      BY <1>3, DecimalsAre DEF AmountInv
    <3> QED
      BY <1>7, <3>1
  <2>2. n + 2 <= MAX_AMOUNT_STR_LEN /\ base = Power(10, n) /\ a # 0 /\ a < Power(10, n)
    <3>1. n <= MAX_AMOUNT_STR_LEN - 2
      BY <1>9, <2>1 DEF Amount!FitsText
    <3>2. base = Power(10, n) /\ base \in Nat
      BY <1>2, <1>3, <2>1, <3>1
    <3> QED
      BY <1>1, <1>2, <1>3, <2>1, <3>1, <3>2
  <2>3. n \in Nat \ {0} /\ Power(10, n - 1) <= a
    <3>1. n # 0
      BY <2>2, Tens
    <3>2. n - 1 \in 0 .. MAX_AMOUNT_STR_LEN - 2 /\ n - 1 < n
      BY <1>2, <2>2, <3>1
    <3> QED
      BY <1>3, <2>1, <3>1, <3>2
  <2>4. PICK s : s = src
    OBVIOUS
  <2>5. s \in Seq(Digit) /\ Len(s) = n /\ Spells(s, a)
    <3>1. PICK b : b = base
      OBVIOUS
    <3>2. s = [i \in 1 .. n |-> (a \div (b \div Amount!Power(10, i))) % 10]
      BY <2>1, <2>4, <3>1 DEF Amount!DigitsOf
    <3> QED
      BY <2>2, <3>1, <3>2, DigitsSpell
  <2>6. printable_amount' = Adjusted(s, places)
    <3>1. Amount!AdjustDecimals(s) = Adjusted(s, places)
      BY <2>1 DEF Amount!AdjustDecimals, Adjusted
    <3> QED
      BY <1>1, <1>9, <2>4, <3>1
  <2>7. \/ Adjusted(s, places) = << >> /\ places + 3 > MAX_AMOUNT_STR_LEN
        \/ /\ Adjusted(s, places) # << >>
           /\ ReadsAs(Adjusted(s, places), a, places)
           /\ Len(Adjusted(s, places)) < MAX_AMOUNT_STR_LEN
    BY <2>2, <2>3, <2>5, AdjustedIs
  <2>8. amount_params.amount' = a /\ Amount!decimals' = places
    BY <1>1, <1>6, <2>1
  <2>9. places + 3 > MAX_AMOUNT_STR_LEN => Unprintable
    BY <2>1 DEF Unprintable
  <2>10. Answering'
    BY <1>1, <1>5, <2>6, <2>7, <2>8, <2>9 DEF Answering
  <2> QED
    BY <1>4, <2>10 DEF AmountInv
<1> QED
  BY <1>8, <1>9

\* The steps of the other calls leave an amount alone.
LEMMA NextAmountInv ==
    AmountInv /\ [LibraryNext]_<<command, sessionVars, amountVars, addressVars>> => AmountInv'
<1> SUFFICES ASSUME AmountInv,
                    [LibraryNext]_<<command, sessionVars, amountVars, addressVars>>
             PROVE  AmountInv'
  OBVIOUS
<1>1. CASE UNCHANGED amountVars
  BY <1>1 DEF amountVars, AmountInv, AmountKept, Counting, Answering, Unprintable,
              Amount!IsApt, Amount!decimals
<1> QED
  BY <1>1, BeginAmount, CountAmount, PrintAmount
     DEF LibraryNext, SignCall, AmountCall, AddressCall, Amount!Next

\* Together they are inductive.
LEMMA AmountInvariance == LibrarySpec => []AmountInv
BY InitAmountInv, NextAmountInv, PTL DEF LibrarySpec

\* An amount keeps its types, and its text fits the room there is.
THEOREM LibraryAmountTypes == LibrarySpec => []AmountTypeOK
<1>1. AmountInv => AmountTypeOK
  <2> SUFFICES ASSUME AmountInv PROVE AmountTypeOK
    OBVIOUS
  <2>1. Len(printable_amount) < MAX_AMOUNT_STR_LEN
    <3>1. CASE printable_amount = << >>
      BY <3>1, AmountFacts
    <3> QED
      BY <3>1 DEF AmountInv, Answering
  <2> QED
    BY <2>1 DEF AmountInv, AmountKept, Counting, AmountTypeOK, Amount!TypeOK
<1> QED
  BY <1>1, AmountInvariance, PTL

\* The text of an amount reads as the amount.
THEOREM LibraryPrintsAmount == LibrarySpec => []TextIsAmount
<1>1. AmountInv => TextIsAmount
  BY DEF AmountInv, Answering, TextIsAmount, Amount!TextIsAmount, Amount!Printed,
         Amount!Done, ReadsAs
<1> QED
  BY <1>1, AmountInvariance, PTL

\* Only what cannot be printed is answered with an error.
THEOREM LibraryPrintsPrintable == LibrarySpec => []OnlyUnprintableFails
<1>1. AmountInv => OnlyUnprintableFails
  BY AmountPower DEF AmountInv, Answering, Unprintable, OnlyUnprintableFails,
                     Amount!OnlyUnprintableFails, Amount!Done
<1> QED
  BY <1>1, AmountInvariance, PTL
=============================================================================
