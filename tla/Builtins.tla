------------------------------ MODULE Builtins ------------------------------
(***************************************************************************)
(* The other builtin contracts: the WASM deployment contract               *)
(* (vm/builtin/wasm.rs) and Sha3 (vm/builtin/sha3.rs).  The Staking        *)
(* contract is a todo!() in the code and has no model.                     *)
(*                                                                         *)
(* Bytecode is counted in upload slots of 2 kB.                            *)
(***************************************************************************)
EXTENDS Currency

CONSTANTS
    MaxContractSize,   \* limits.max_contract_size, in slots
    AddressLength      \* the length of a public key: 32 bytes

ASSUME WasmAssumption == MaxContractSize \in Nat /\ AddressLength = 32

CreateExecutableAccount(a, bytecode) ==
    [kind |-> "executable", address |-> a, bytecode |-> bytecode]
ContractInvoke(contract, accounts) ==
    [kind |-> "invoke", contract |-> contract, accounts |-> accounts]

contract_account(seed, env) ==
    ErrorIf(Acc(env, 1).address # derive(env.address, seed), "InvalidInputAccounts")
bytecode_account(seed, env) ==
    ErrorIf(Acc(env, 2).address # derive(env.address, seed \o <<"bytecode">>),
            "InvalidInputAccounts")

Taken(acc) == acc.data # NoData \/ acc.owner # None

(* Vec::with_capacity reserves memory: the mask and the bytecode of a new  *)
(* bytecode account are empty.                                             *)
BytecodeAccount(authority) ==
    [NoData EXCEPT !.kind = "bytecode", !.authority = authority,
                   !.mask = <<>>, !.bytecode = <<>>]

(* The errors of the code that upload and install share: the state of the  *)
(* bytecode account and the authority's signature.                         *)
CheckBytecode(env) ==
    LET b == Acc(env, 2)
        authority == Acc(env, 3) IN
    Checked(<<ErrorIf(~b.writable, "AccountNotWritable"),
              ErrorIf(b.owner = env.address, "InvalidAccountOwner"),
              ErrorIf(b.data = NoData, "AccountDoesNotExist"),
              ErrorIf(b.data.kind # "bytecode", "InvalidInputAccounts"),
              ErrorIf(b.data.authority # authority.address, "InvalidInputAccounts"),
              ErrorIf(~authority.signer, "MissingSigners")>>, <<>>).error

(* The number of accounts is checked on env.address, the 32 bytes of the   *)
(* contract's own address, and not on env.accounts.                        *)
ExpectsAccounts(n) == ErrorIf(AddressLength # n, "InvalidInputAccounts")

process_allocate(env, seed, authority, size) ==
    LET c == Acc(env, 1)
        b == Acc(env, 2) IN
    Checked(<<ExpectsAccounts(2),
              ErrorIf(size > MaxContractSize, "AccountTooLarge"),
              contract_account(seed, env),
              ErrorIf(c.executable \/ Taken(c), "AccountAlreadyExists"),
              bytecode_account(seed, env),
              ErrorIf(Taken(b), "AccountAlreadyExists"),
              ErrorIf(~b.writable, "AccountNotWritable"),
              ErrorIf(~has_private_key(authority), "InvalidInputAccounts")>>,
            Logs(5) \o <<CreateOwnedAccount(b.address, BytecodeAccount(authority))>>)

(* `index' counts from 0.  An index up to the length of the mask is        *)
(* refused and a larger one is an out of bounds access, which panics: what *)
(* follows in the code is never reached, and there are no outputs.         *)
process_upload(env, seed, index, valid) ==
    LET c == Acc(env, 1)
        content == Acc(env, 2).data IN
    Checked(<<ExpectsAccounts(3),
              ErrorIf(~valid, "InvalidInputParameters"),
              contract_account(seed, env),
              ErrorIf(c.executable \/ Taken(c), "AccountAlreadyExists"),
              bytecode_account(seed, env),
              CheckBytecode(env),
              ErrorIf(Len(content.mask) >= index, "InvalidInputParameters"),
              ErrorIf(index > Len(content.mask), "Panic")>>, <<>>)

process_install(env, seed, init) ==
    LET c == Acc(env, 1)
        b == Acc(env, 2) IN
    Checked(<<ErrorIf(AddressLength < 3, "InvalidInputAccounts"),
              contract_account(seed, env),
              ErrorIf(~c.writable, "AccountNotWritable"),
              bytecode_account(seed, env),
              CheckBytecode(env),
              ErrorIf(\E i \in DOMAIN b.data.mask : ~b.data.mask[i], "NotAllUploaded")>>,
            Logs(2) \o
            <<DeleteOwnedAccount(b.address),
              CreateExecutableAccount(c.address, b.data.bytecode)>> \o
            (IF init THEN <<ContractInvoke(c.address, SubSeq(env.accounts, 3, Len(env.accounts)))>>
             ELSE <<>>))

(* The entry point of the WASM contract; `call' is the decoded instruction.*)
WasmContract(env, call) ==
    CASE call.op = "allocate" -> process_allocate(env, call.seed, call.who, call.amount)
      [] call.op = "upload" -> process_upload(env, call.seed, call.amount, call.valid)
      [] call.op = "install" -> process_install(env, call.seed, call.valid)
      [] OTHER -> Checked(<<"InvalidInputParameters">>, <<>>)

(* Replaces the data of an account by its hash; all hashes are one value.  *)
Sha3Contract(env) ==
    Checked(<<ErrorIf(Len(env.accounts) # 1, "InvalidInputAccounts"),
              ErrorIf(~Acc(env, 1).writable, "AccountNotWritable")>>,
            <<WriteAccountData(Acc(env, 1).address, [NoData EXCEPT !.kind = "digest"])>>
            \o Logs(1))
=============================================================================
