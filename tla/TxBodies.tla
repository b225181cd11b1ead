------------------------------ MODULE TxBodies ------------------------------
(***************************************************************************)
(* The transaction bodies of txn/ and the gas estimates they need.  The    *)
(* amount to pay is a big.Int; a body has room for a machine integer.      *)
(*                                                                         *)
(* Solana bodies are lists of instructions, objects that callers may keep  *)
(* and add to several bodies.  Accounts and programs are names; the token  *)
(* account of an owner depends on the token program.  JSON, hex and ABI    *)
(* encoding are left out.                                                  *)
(***************************************************************************)
EXTENDS MachineInts, Sequences, FiniteSets, SequencesExt

CONSTANTS
  PaidAmounts,     \* amounts of requests
  AskedDecimals,   \* decimals of requests; negative ones mean unknown
  NodeGas,         \* gas that a call of a contract needs
  PlainGas,        \* gas that a transfer to an account needs, 21000
  CodeSizes,       \* sizes of the recipient's code
  MaxBody          \* bound on the instructions of a body

ASSUME BodyAssumption ==
  /\ PaidAmounts \subseteq Nat /\ NodeGas \subseteq Nat /\ CodeSizes \subseteq Nat
  /\ AskedDecimals \subseteq Int /\ PlainGas \in Nat /\ MaxBody \in Nat

NoBody == [err |-> TRUE]

(***************************************************************************)
(* btc and evm                                                             *)
(***************************************************************************)
BtcTransferBody(amount) == [err |-> FALSE, amount |-> Signed(amount, Word64)]
BRC20TransferBody(amount) == [err |-> FALSE, amount |-> Signed(amount, Word64)]

\* evm.EstimateGas: half as much again, in uint64, also of a failed estimate.
EstimateGas(est) == [est EXCEPT !.gas = ((@ * 3) % Word64) \div 2]

\* abi.Pack of the amount: its low 256 bits.
Packed(amount) == Unsigned(amount, Word256)

\* The value is written out in full, as hex digits.
EvmToBody(value, input, gas) == [err |-> FALSE, value |-> value, input |-> input, gas |-> gas]

\* The native coin is paid as the value, a token in the call data; no body is
\* made without an estimate.
EvmTransferBody(amount, est) ==
  LET e == EstimateGas(est) IN IF e.err THEN NoBody ELSE EvmToBody(amount, 0, e.gas)

\* With the amount as the value besides.
Erc20TransferBodyWithValue(amount, est) ==
  LET e == EstimateGas(est) IN IF e.err THEN NoBody ELSE EvmToBody(amount, Packed(amount), e.gas)

Erc20TransferBody(amount, est) ==
  LET e == EstimateGas(est) IN IF e.err THEN NoBody ELSE EvmToBody(0, Packed(amount), e.gas)

Erc20ApproveBody(amount, est) ==
  LET e == EstimateGas(est) IN IF e.err THEN NoBody ELSE EvmToBody(0, Packed(amount), e.gas)

\* rpc.EvmRpc: little code is none.
IsContractAddress(size) == size > 200

\* rpc.EvmRpc.EstimateGas: a native transfer on the listed chains first asks
\* for the recipient's code and may then not ask for the gas at all.
RpcEstimateGas(native, listed, code, est) ==
  CASE native /\ listed /\ code.err -> NoBody
    [] native /\ listed /\ ~code.err /\ ~IsContractAddress(code.size) -> EvmToBody(0, 0, PlainGas)
    [] OTHER -> IF est.err THEN NoBody ELSE EvmToBody(0, 0, est.gas)

(***************************************************************************)
(* Solana                                                                  *)
(***************************************************************************)
Key(name) == <<"key", name>>
Ata(owner) == <<"ata", owner>>
Ata2022(owner) == <<"ata2022", owner>>

\* decimals = -1: the unchecked instruction, which carries none.
TokenInst(program, amount, dec, accounts) ==
  [program |-> program, amount |-> Unsigned(amount, Word64), decimals |-> dec, accounts |-> accounts]

\* bytes.ReplaceAll on the encoded body.
Replaced(account) == IF account = Key("Token") THEN Key("Token2022") ELSE account

ReplacedIn(inst) ==
  [inst EXCEPT !.program = Replaced(@),
               !.accounts = [k \in DOMAIN inst.accounts |-> Replaced(inst.accounts[k])]]

ReplaceProgram(insts) == [i \in DOMAIN insts |-> ReplacedIn(insts[i])]

SolanaTransferBody(amount, dec) == << TokenInst(Key("System"), amount, -1, <<Key("sender"), Key("receiver")>>) >>

SplApproveBody(amount, dec) ==
  << TokenInst(Key("Token"), amount, Unsigned(dec, Word8),
               <<Ata("sender"), Key("mint"), Ata("receiver"), Key("sender")>>) >>

Spl2022ApproveBody(amount, dec) ==
  ReplaceProgram(<< TokenInst(Key("Token"), amount, Unsigned(dec, Word8),
                              <<Ata2022("sender"), Key("mint"), Ata2022("receiver"), Key("sender")>>) >>)

\* Checked if the decimals are known.
SqlTransferBody(amount, dec) ==
  << IF dec >= 0
     THEN TokenInst(Key("Token"), amount, Unsigned(dec, Word8),
                    <<Ata("sender"), Key("mint"), Ata("receiver"), Key("sender")>>)
     ELSE TokenInst(Key("Token"), amount, -1, <<Ata("sender"), Ata("receiver"), Key("sender")>>) >>

Sql2022TransferBody(amount, dec) ==
  ReplaceProgram(
    << IF dec >= 0
       THEN TokenInst(Key("Token"), amount, Unsigned(dec, Word8),
                      <<Ata2022("sender"), Key("mint"), Ata2022("receiver"), Key("sender")>>)
       ELSE TokenInst(Key("Token"), amount, -1, <<Ata2022("sender"), Ata2022("receiver"), Key("sender")>>) >>)

\* util.WrappedInstruction, and Spl2022TransferInstruction likewise: the
\* program of an instruction is exchanged, nothing else.
WrappedInstruction(inst, program) == [inst EXCEPT !.program = program]

NewSpl2022TransferInstruction(amount) ==
  WrappedInstruction(TokenInst(Key("Token"), amount, -1, <<Ata2022("sender"), Ata2022("receiver"), Key("sender")>>),
                     Key("Token2022"))

\* The inner instruction of NewSpl2022CreateAtaInstruction.
NewCreateInstruction ==
  <<Key("payer"), Ata("wallet"), Key("wallet"), Key("mint"), Key("System"), Key("Token")>>

(***************************************************************************)
(* A goroutine that builds bodies.  shared is the account list inside one  *)
(* Spl2022CreateAtaInstruction: Accounts() changes it in place.            *)
(***************************************************************************)
VARIABLES
  request,  \* what is asked for
  made,     \* what was made of it
  shared,   \* the accounts in the create instruction
  body      \* the SolanaBody that AddInstructions fills

bodyVars == <<request, made, shared, body>>

BodyInit == request = {} /\ made = NoBody /\ shared = NewCreateInstruction /\ body = <<>>

EvmKinds == {"evm", "erc20", "approve"}
SolanaKinds == {"sol", "spl", "splApprove", "spl2022", "spl2022Approve"}
Kinds == {"btc", "brc20"} \cup EvmKinds \cup SolanaKinds

Estimates == [err : BOOLEAN, gas : NodeGas]

\* Requests share no state, so a behaviour makes one and no body besides.
\* keysOk: the Solana addresses are base58 public keys.
Body(kind, amount, dec, est, keysOk) ==
  LET Insts(is) == IF keysOk THEN [err |-> FALSE, insts |-> is] ELSE NoBody
  IN  CASE kind = "btc" -> BtcTransferBody(amount)
        [] kind = "brc20" -> BRC20TransferBody(amount)
        [] kind = "evm" -> EvmTransferBody(amount, est)
        [] kind = "erc20" -> Erc20TransferBody(amount, est)
        [] kind = "approve" -> Erc20ApproveBody(amount, est)
        [] kind = "sol" -> Insts(SolanaTransferBody(amount, dec))
        [] kind = "spl" -> Insts(SqlTransferBody(amount, dec))
        [] kind = "splApprove" -> Insts(SplApproveBody(amount, dec))
        [] kind = "spl2022" -> Insts(Sql2022TransferBody(amount, dec))
        [] kind = "spl2022Approve" -> Insts(Spl2022ApproveBody(amount, dec))

MakeBody(kind, amount, dec, est, keysOk) ==
  /\ request = {} /\ body = <<>>
  /\ request' = {[kind |-> kind, amount |-> amount, decimals |-> dec, est |-> est]}
  /\ made' = Body(kind, amount, dec, est, keysOk)
  /\ UNCHANGED <<shared, body>>

\* The node says that an account without code needs PlainGas.
AskGas(native, listed, code, est) ==
  /\ native /\ code.size = 0 => est.gas = PlainGas
  /\ request = {} /\ body = <<>>
  /\ request' = {[kind |-> "estimate", native |-> native, code |-> code, est |-> est]}
  /\ made' = RpcEstimateGas(native, listed, code, est)
  /\ UNCHANGED <<shared, body>>

\* Spl2022CreateAtaInstruction.Accounts: the token program and the wallet's
\* token account are exchanged.
CreateAtaAccountsKeepingAta(accounts) ==
  [i \in DOMAIN accounts |-> IF accounts[i] = Key("Token") THEN Key("Token2022") ELSE accounts[i]]

CreateAtaAccounts(accounts) ==
  [i \in DOMAIN accounts |->
     CASE accounts[i] = Key("Token") -> Key("Token2022")
       [] accounts[i] = Ata("wallet") -> Ata2022("wallet")
       [] OTHER -> accounts[i]]

\* The create instruction and then one whose Data() fails or does not.
\* Accounts() is called twice.  What was added before a failure stays.
Added(start, amount, fails) ==
  LET create == [program |-> Key("AtaProgram"), amount |-> 0, decimals |-> -1,
                 accounts |-> CreateAtaAccounts(CreateAtaAccounts(shared))]
  IN  start \o IF fails THEN <<create>> ELSE <<create, NewSpl2022TransferInstruction(amount)>>

AddInstructions(amount, fails) ==
  /\ request = {} /\ Len(body) < MaxBody
  /\ body' = Added(body, amount, fails)
  /\ shared' = CreateAtaAccounts(CreateAtaAccounts(shared))
  /\ UNCHANGED <<request, made>>

\* A new body, which is given up on a failure; the shared accounts stay changed.
ToSolanaBody(amount, fails) ==
  /\ request = {}
  /\ body' = IF fails THEN <<>> ELSE Added(<<>>, amount, fails)
  /\ shared' = CreateAtaAccounts(CreateAtaAccounts(shared))
  /\ UNCHANGED <<request, made>>

BodyNext ==
  \/ \E k \in Kinds, a \in PaidAmounts, d \in AskedDecimals, e \in Estimates, keysOk \in BOOLEAN :
       MakeBody(k, a, d, e, keysOk)
  \/ \E native, listed \in BOOLEAN, c \in [err : BOOLEAN, size : CodeSizes], e \in Estimates :
       AskGas(native, listed, c, e)
  \/ \E a \in PaidAmounts, fails \in BOOLEAN : AddInstructions(a, fails) \/ ToSolanaBody(a, fails)

BodySpec == BodyInit /\ [][BodyNext]_bodyVars

(***************************************************************************)
(* Properties                                                              *)
(***************************************************************************)
\* What a body pays, in the place where the chain looks for it.
Paid(kind) ==
  CASE kind \in SolanaKinds -> made.insts[1].amount
    [] kind = "evm" -> made.value
    [] kind \in {"erc20", "approve"} -> made.input
    [] OTHER -> made.amount

\* Whether a body has room for the amount: 63 bits for Bitcoin, 64 on Solana,
\* 256 for the tokens of Evm chains.
Fits(kind, n) ==
  CASE kind = "evm" -> TRUE
    [] kind \in {"erc20", "approve"} -> n < Word256
    [] kind \in SolanaKinds -> n < Word64
    [] OTHER -> 2 * n < Word64

\* A body never pays more than was asked for, even where the amount is cut to
\* the integer of the chain; it pays exactly that if there is room for it; and
\* on Evm chains a token's body does not pay with the native coin as well.
NeverPaysMore ==
  \A q \in request : ~made.err /\ q.kind # "estimate" =>
    /\ Paid(q.kind) <= q.amount
    /\ Fits(q.kind, q.amount) => Paid(q.kind) = q.amount
    /\ q.kind \in EvmKinds => made.value + made.input = Paid(q.kind)

\* A body for token-2022 has the program and the token accounts of token-2022
\* and a body for the token program has none of them, whether the decimals are
\* known or not; and decimals that fit into 8 bits are checked on chain.
ProgramsDoNotMix ==
  \A q \in request : q.kind \in SolanaKinds /\ ~made.err =>
    \A i \in DOMAIN made.insts :
      LET inst == made.insts[i]
          new == q.kind \in {"spl2022", "spl2022Approve"}
          names == {inst.program} \cup Range(inst.accounts)
      IN  /\ new => names \cap {Key("Token"), Ata("sender"), Ata("receiver")} = {}
          /\ ~new => names \cap {Key("Token2022"), Ata2022("sender"), Ata2022("receiver")} = {}
          /\ q.decimals \in 0..(Word8 - 1) /\ q.kind # "sol" => inst.decimals = q.decimals

\* The gas of a body is half as much again as the node's estimate, unless
\* three times the estimate does not fit into 64 bits; without an estimate
\* there is no body.
GasHasHeadroom ==
  \A q \in request : q.kind \in EvmKinds =>
    /\ q.est.err <=> made.err
    /\ ~made.err /\ 3 * q.est.gas < Word64 => 2 * made.gas \in {3 * q.est.gas, 3 * q.est.gas - 1}

\* The gas that EvmRpc.EstimateGas returns is enough for the recipient, be it
\* an account or a contract, unless it has 1 to 200 bytes of code.
EstimateIsEnough ==
  \A q \in request : q.kind = "estimate" /\ ~made.err =>
    made.gas >= q.est.gas \/ (q.native /\ q.code.size \in 1..200)

\* However often the create instruction is put into bodies, after whatever
\* failures, it names the token-2022 account of the wallet.
CreateAtaIsFor2022 ==
  \A i \in DOMAIN body : body[i].program = Key("AtaProgram") =>
    body[i].accounts = <<Key("payer"), Ata2022("wallet"), Key("wallet"), Key("mint"),
                         Key("System"), Key("Token2022")>>

\* A chain can execute the body: its accounts belong to the program that is
\* called, and the gas it names is enough.
BodiesAreExecutable ==
  ProgramsDoNotMix /\ GasHasHeadroom /\ EstimateIsEnough /\ CreateAtaIsFor2022
=============================================================================
