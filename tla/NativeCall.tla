----------------------------- MODULE NativeCall -----------------------------
(***************************************************************************)
(* One call of a function whose logical signature holds aggregates.        *)
(*                                                                         *)
(* In a Sela body an aggregate parameter is a pointer to storage the       *)
(* callee owns, and an aggregate result a pointer to storage it fills      *)
(* (nativeStorageBodyType).  On the device the bodies of both functions    *)
(* are rewritten, separately, for the native signature of the target       *)
(* (NativeABIBridge.cpp): the caller loads the pieces of its arguments or  *)
(* passes a pointer, the callee stores the pieces into storage of its own; *)
(* the result goes the other way.                                          *)
(*                                                                         *)
(* Left out: attributes, calling conventions, metadata and the inverse     *)
(* hints.                                                                  *)
(***************************************************************************)
EXTENDS NativeABI

VARIABLES
    input,      \* [target, logical, records, layouts, aliased]
    signature,  \* what the classifiers make of it
    phase,      \* how far the call got
    why,        \* why it was refused
    memory,     \* [place -> its bytes]: the storage the call involves
    argument,   \* [parameter -> where the callee finds it]
    steps,      \* what the callee's body has yet to do
    seen        \* [parameter -> its bytes when the body read it]

callVars == <<input, signature, phase, why, memory, argument, steps, seen>>

Target == input.target
Logical == input.logical
Aggregates == {i \in DOMAIN Logical.params : Logical.params[i].k = "record"}
ReturnsAggregate == Logical.result.k = "record"

\* Places.  Returned is the caller's storage for the result: another variable
\* than the arguments, or, as in x = f(x), that of the first of them.
CallerArgument(i) == <<"caller", i>>
CalleeArgument(i) == <<"callee", i>>
Returned == IF input.aliased THEN CallerArgument(Min(Aggregates)) ELSE <<"caller", 0>>
Local == <<"callee", 0>>

Undefined == <<"undefined">>
Fresh(type) == [b \in 0 .. AllocSize(Target, type) - 1 |-> Undefined]
ArgumentBytes(i) == [b \in DOMAIN Fresh(Logical.params[i]) |-> <<"argument", i, b>>]
ResultBytes == [b \in DOMAIN Fresh(Logical.result) |-> <<"result", b>>]

RefuseCall(reason) ==
    /\ phase' = "refused" /\ why' = reason
    /\ UNCHANGED <<input, signature, memory, argument, steps, seen>>

\* The lowering classifies by the records declared ordered; layouts are classified
\* on their own.
Classify ==
    /\ phase = "logical"
    /\ \E native \in {IF input.layouts = <<>>
                      THEN ClassifyNativeABI(Target, Logical, input.records)
                      ELSE ClassifyNativeLayoutABI(Target, Logical, input.layouts)} :
          IF ~ native.ok THEN RefuseCall("signature")
          ELSE /\ signature' = native
               /\ phase' = IF input.layouts = <<>> THEN "classified" ELSE "described"
               /\ UNCHANGED <<input, why, memory, argument, steps, seen>>

\* The whole native result, loaded from the start of the result storage.
LoadsWhole ==
    StoreSize(Target, ResultType(signature.result)) <= signature.result.size

DirectValues ==
    {signature.params[i] : i \in {j \in Aggregates : signature.params[j].kind # "indirect"}}
        \cup (IF ReturnsAggregate /\ ~ signature.result.sRet THEN {signature.result} ELSE {})

\* Rewriting the callee and the caller, materializeNativeAggregateDefinition and
\* materializeNativeAggregateCall.
Materialize ==
    /\ phase = "classified"
    /\ IF \E value \in DirectValues : ~ ValidAccess(Target, value) THEN RefuseCall("pieces")
       ELSE IF /\ ReturnsAggregate /\ ~ signature.result.sRet
               /\ ~ LoadsWhole /\ Len(signature.result.pieces) # 1
       THEN RefuseCall("oversized")
       ELSE IF Logical.variadic THEN RefuseCall("variadic")
       ELSE /\ phase' = "ready"
            /\ memory' = [place \in {CallerArgument(i) : i \in Aggregates}
                                    \cup (IF ReturnsAggregate THEN {Returned} ELSE {}) |->
                             IF \E i \in Aggregates : place = CallerArgument(i)
                             THEN ArgumentBytes(place[2]) ELSE Fresh(Logical.result)]
            /\ UNCHANGED <<input, signature, why, argument, steps, seen>>

\* Mutant: every indirect argument is left to LLVM.
CopiesNothing(value) == FALSE

\* Without a byval attribute to ask LLVM for a copy the caller makes its own, or both
\* functions would share one argument.
CallerCopies(value) == value.kind = "indirect" /\ ~ value.byVal

\* The call instruction with everything before it in the caller, and the entry of the
\* callee.
Enter ==
    /\ phase = "ready"
    /\ LET place(i) ==
              LET value == signature.params[i]
              IN  IF value.kind # "indirect" \/ value.byVal \/ CallerCopies(value)
                  THEN CalleeArgument(i) ELSE CallerArgument(i)
           received(i) ==
              LET value == signature.params[i]
                  sent == memory[CallerArgument(i)]
              IN  IF value.kind = "indirect" THEN sent
                  ELSE StorePieces(value, Fresh(value.type), LoadPieces(Target, value, sent))
           local == IF ReturnsAggregate /\ ~ signature.result.sRet THEN {Local} ELSE {}
       IN  /\ argument' = [i \in Aggregates |-> place(i)]
           /\ memory' = [p \in DOMAIN memory \cup {place(i) : i \in Aggregates} \cup local |->
                  IF p = Local THEN Fresh(Logical.result)
                  ELSE IF p \in DOMAIN memory THEN memory[p] ELSE received(p[2])]
    /\ phase' = "body"
    /\ steps' = {"read", "overwrite"} \cup (IF ReturnsAggregate THEN {"result"} ELSE {})
    /\ UNCHANGED <<input, signature, why, seen>>

Took(step) == phase = "body" /\ step \in steps /\ steps' = steps \ {step}

\* The body reads its arguments and then assigns to them; it fills its result before,
\* between or after.
ReadArguments ==
    /\ Took("read")
    /\ seen' = [i \in Aggregates |-> memory[argument[i]]]
    /\ UNCHANGED <<input, signature, phase, why, memory, argument>>

Assign ==
    /\ Took("overwrite") /\ "read" \notin steps
    /\ memory' = [p \in DOMAIN memory |->
                     IF \E i \in Aggregates : argument[i] = p
                     THEN [b \in DOMAIN memory[p] |-> <<"assigned">>] ELSE memory[p]]
    /\ UNCHANGED <<input, signature, phase, why, argument, seen>>

FillResult ==
    /\ Took("result")
    /\ memory' = [memory EXCEPT ![IF signature.result.sRet THEN Returned ELSE Local] = ResultBytes]
    /\ UNCHANGED <<input, signature, phase, why, argument, seen>>

\* What the callee returns, piece by piece: from one load of the native result type,
\* or else a bounded load of its only piece.
LoadedResult ==
    LET value == signature.result
        type == ResultType(value)
        start(i) == IF Len(value.pieces) = 1 THEN 0 ELSE FieldOffset(Target, type, i)
    IN  IF LoadsWhole
        THEN [i \in DOMAIN value.pieces |->
                 LoadPiece(Target, Piece(value.pieces[i].type, start(i)), memory[Local], value.size)]
        ELSE LoadPieces(Target, value, memory[Local])

\* The return instruction, and the caller storing what comes back.
Return ==
    /\ phase = "body" /\ steps = {}
    /\ phase' = "returned"
    /\ memory' = IF ReturnsAggregate /\ ~ signature.result.sRet
                 THEN [memory EXCEPT ![Returned] = StorePieces(signature.result, @, LoadedResult)]
                 ELSE memory
    /\ UNCHANGED <<input, signature, why, argument, steps, seen>>

CallOver == phase \in {"described", "refused", "returned"} /\ UNCHANGED callVars

CallNext ==
    \/ Classify \/ Materialize \/ Enter \/ Return
    \/ ReadArguments \/ Assign \/ FillResult
    \/ CallOver

BeginCall(chosen) ==
    /\ input = chosen
    /\ signature = RefusedSignature
    /\ phase = "logical" /\ why = "none"
    /\ memory = <<>> /\ argument = <<>> /\ steps = {} /\ seen = <<>>

-----------------------------------------------------------------------------
(***************************************************************************)
(* LLVM's x86-64 C calling convention, as the counting of free registers   *)
(* presupposes it: every native parameter for itself takes the next        *)
(* register of its bank, or goes to the stack.  A byval one is memory.     *)
(***************************************************************************)
Backend(native, hidden) ==
    LET take(sum, value, i) ==
            LET bank == IF Integral(value.pieces[i].type) THEN "gp" ELSE "sse"
            IN  IF sum.free[bank] > 0
                THEN [free |-> [sum.free EXCEPT ![bank] = @ - 1], in |-> Append(sum.in, bank)]
                ELSE [sum EXCEPT !.in = Append(@, "stack")]
        assign(sum, value) ==
            LET taken == FoldLeft(LAMBDA s, i : take(s, value, i), [free |-> sum.free, in |-> <<>>],
                                  [i \in DOMAIN value.pieces |-> i])
            IN  [free |-> taken.free, in |-> Append(sum.in, taken.in)]
    IN  FoldLeft(assign, [free |-> [AllRegisters("x86_64") EXCEPT !.gp = @ - hidden], in |-> <<>>],
                 native.params)

-----------------------------------------------------------------------------
(***************************************************************************)
(* What the classifiers and the bridge promise.                            *)
(***************************************************************************)

\* The bytes of a value that hold data.
DataBytes(type) ==
    IF input.layouts = <<>> THEN LeafBytes(Target, type)
    ELSE UNION {(s.from \div 8) .. ((s.to - 1) \div 8) :
                   s \in ToSet(Spans(Target, type, 0, input.layouts))}

\* Everything a body reads of its arguments is what the caller passed, and all it puts
\* into its result is what the caller finds there, byte for byte, on every target,
\* even where the result is assigned to an argument.
ValuesArrive ==
    /\ seen # <<>> =>
          \A i \in Aggregates : \A b \in DataBytes(Logical.params[i]) :
              seen[i][b] = ArgumentBytes(i)[b]
    /\ phase = "returned" /\ ReturnsAggregate =>
          \A b \in DataBytes(Logical.result) : memory[Returned][b] = ResultBytes[b]

\* What the callee does to its parameters stays its own: after the call the caller's
\* arguments are as they were, but for the one the result is assigned to.
CallerKeepsArguments ==
    phase \in {"body", "returned"} =>
        \A i \in Aggregates :
            \/ ReturnsAggregate /\ CallerArgument(i) = Returned
            \/ memory[CallerArgument(i)] = ArgumentBytes(i)

PieceBytes(value) ==
    UNION {{piece.at + b : b \in LeafBytes(Target, piece.type)} : piece \in ToSet(value.pieces)}

\* Every admitted direct value has pieces that loadNativeABIPieces and its
\* counterpart accept, and that between them hold all of its data: for ordered
\* records and for unions, packed records and bit-fields alike.
PiecesCover ==
    phase \in {"classified", "described"} =>
        \A value \in DirectValues :
            ValidAccess(Target, value) /\ DataBytes(value.type) \subseteq PieceBytes(value)

\* No aggregate is torn between registers and the stack on x86_64: LLVM, which
\* only sees the pieces, gives registers to all pieces of a value or to none, and has
\* as many registers left as the classifier counted.
NeverTorn ==
    phase = "classified" /\ Target = "x86_64" =>
        LET assigned == Backend(signature, IF signature.result.sRet THEN 1 ELSE 0)
        IN  /\ assigned.free = signature.free
            /\ \A i \in Aggregates :
                  \/ "stack" \notin ToSet(assigned.in[i])
                  \/ ToSet(assigned.in[i]) = {"stack"}

\* The classifier for ordered records and the one for semantic layouts are written
\* independently; on the layouts of ordered records they give one signature, or
\* both refuse.
ClassifiersAgree ==
    Target \in X86 /\ input.layouts = <<>> /\ (phase = "classified" \/ why = "signature") =>
        signature = ClassifyNativeLayoutABI(Target, Logical, NaturalLayouts(Target, input.records))

=============================================================================
