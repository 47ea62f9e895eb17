------------------------------ MODULE Machine -------------------------------
(***************************************************************************)
(* The replicated state machine: vm/machine.rs, vm/unit.rs, vm/output.rs   *)
(* and vm/executed.rs, run by several validators over one chain of blocks. *)
(*                                                                         *)
(* A validator produces a block on top of its own head and declares the    *)
(* hash of the block's output; the others execute the block on top of      *)
(* their heads and accept it only if they get the same hash.  Each of them *)
(* finalizes the blocks at its own pace, so the same block is executed by  *)
(* one validator on a finalized state and by another on a view through     *)
(* volatile blocks.  Forks are the business of module Chain.               *)
(***************************************************************************)
EXTENDS Builtins, TxOrder

CONSTANTS
    Replicas,       \* the validators
    Producers,      \* those whose turn to produce comes
    Currency,       \* the address of the Currency contract
    Wasm,           \* the address of the WASM contract
    Sha3,           \* the address of the Sha3 contract
    Transactions,   \* the transactions that are ever sent
    GenesisState,   \* genesis.state: [Addresses -> accounts]
    MaxAccounts,    \* limits.max_input_accounts
    MaxLogs,        \* limits.max_logs_count
    BlockBound,     \* bound: transactions in a block
    TotalBound,     \* bound: transactions in the chain
    ChainBound      \* bound: blocks in the chain

(* An account and what it holds.                                           *)
Data == [kind : {"none", "mint", "coin", "bytecode", "code", "digest"},
         authority : Addresses \cup {None}, supply : 0..MaxAmount,
         mint : Addresses \cup {None}, owner : Addresses \cup {None},
         balance : 0..MaxAmount, mask : {<<>>}, bytecode : {<<>>}]
Accounts == [exists : BOOLEAN, nonce : Nat, executable : BOOLEAN,
             owner : Addresses \cup {None, Currency, Wasm, Sha3}, data : Data]

(* A transaction: `hash' is its rank in the order of the hashes, `valid'   *)
(* is verify_signatures, `accounts' the list of AccountRef, `call' the     *)
(* decoded parameters.                                                     *)
ASSUME MachineAssumption ==
    /\ Producers \subseteq Replicas
    /\ Currency # Wasm /\ Currency # Sha3 /\ Wasm # Sha3
    /\ None \notin {Currency, Wasm, Sha3}
    /\ \A t \in Transactions :
          /\ t.nonce \in Nat /\ t.hash \in Nat /\ t.valid \in BOOLEAN
          /\ t.payer \in Wallets
          /\ t.contract \in Addresses \cup {Currency, Wasm, Sha3}
          /\ t.accounts \in Seq([address : Addresses, writable : BOOLEAN, signer : BOOLEAN])
          /\ t.call.who \in Addresses \cup {None} /\ t.call.amount \in 0..MaxAmount
    /\ \A s, t \in Transactions : s.hash = t.hash => s = t
    /\ {MaxAccounts, MaxLogs, BlockBound, TotalBound, ChainBound} \subseteq Nat

(* Pubkey::derive goes on until the address is one without a private key.  *)
ASSUME DerivedAssumption ==
    \A c \in {Currency, Wasm, Sha3} :
        /\ \A a, b \in Addresses : ~has_private_key(derive(c, a \o b))
        /\ \A t \in Transactions :
              /\ ~has_private_key(derive(c, t.call.seed))
              /\ ~has_private_key(derive(c, t.call.seed \o <<"bytecode">>))

(* Wallets have coins of a mint at different addresses: the seeds are of   *)
(* one length, and what is hashed in derive does not collide.              *)
ASSUME DistinctAssumption ==
    \A m, w, n, v \in Addresses : derive(Currency, m \o w) = derive(Currency, n \o v) => w = v

(* The genesis state has no contracts and no uploads: running contracts is *)
(* left to the WASM runtime.  Its mints and coins are accounts of the      *)
(* Currency contract, as those are that the contract creates.              *)
ASSUME GenesisAssumption ==
    /\ GenesisState \in [Addresses -> Accounts]
    /\ \A a \in Addresses :
          /\ ~GenesisState[a].exists => GenesisState[a] = NoAccount
          /\ GenesisState[a].owner # Wasm
          /\ GenesisState[a].data.kind \notin {"bytecode", "code"}
          /\ GenesisState[a].data.kind \in {"mint", "coin"} =>
                GenesisState[a].owner = Currency /\ ~has_private_key(a)
          /\ GenesisState[a].data.kind # "coin" => GenesisState[a].data.balance = 0

VARIABLES
    chain,      \* the blocks: [txs, output], the output as its producer got it
    base,       \* replica -> the finalized state (PersistentState)
    finalized,  \* replica -> the number of blocks finalized
    volatile,   \* replica -> the state differences of the blocks above
    rejected    \* replica -> it has refused a block of the chain

vars == <<chain, base, finalized, volatile, rejected>>

-----------------------------------------------------------------------------
(* ExecutionUnit: one transaction on a given state.                        *)

(* create_environment: whether the contract may write to the account.      *)
Writable(ref, state, contract) ==
    /\ ref.writable
    /\ IF has_private_key(ref.address) THEN ref.signer
       ELSE state[ref.address].exists =>
              /\ ~state[ref.address].executable
              /\ state[ref.address].owner = contract

create_environment(refs, state, contract) ==
    [address |-> contract,
     accounts |-> [i \in DOMAIN refs |->
        LET account == state[refs[i].address] IN
        [address |-> refs[i].address, signer |-> refs[i].signer,
         writable |-> Writable(refs[i], state, contract),
         executable |-> account.executable, owner |-> account.owner,
         data |-> account.data]]]

(* The view of an address in the environment: the first listed.            *)
IsListed(a, env) == \E i \in DOMAIN env.accounts : env.accounts[i].address = a
ViewOf(a, env) ==
    env.accounts[CHOOSE i \in DOMAIN env.accounts :
                   /\ env.accounts[i].address = a
                   /\ \A j \in 1..(i-1) : env.accounts[j].address # a]

(* The error of set_account.                                               *)
set_account(a, env) ==
    IF ~IsListed(a, env) THEN "InvalidOutputAccount"
    ELSE ErrorIf(~ViewOf(a, env).writable, "AccountNotWritable")

(* The error of delete_account.                                            *)
delete_account(a, env) ==
    IF ~IsListed(a, env) THEN "InvalidOutputAccount"
    ELSE Checked(<<ErrorIf(ViewOf(a, env).owner # env.address, "InvalidAccountOwner"),
                   ErrorIf(~ViewOf(a, env).writable, "AccountNotWritable")>>, <<>>).error

(* Machine::contract, the lookup of a contract that is not builtin.        *)
contract(a, state) ==
    Checked(<<ErrorIf(~state[a].exists, "ContractDoesNotExit"),
              ErrorIf(state[a].owner # Wasm \/ ~state[a].executable
                      \/ state[a].data = NoData, "AccountIsNotExecutable")>>, <<>>).error

(* process_output: the error of an output, and the difference it makes.    *)
(* Outputs are checked against the state before the transaction, never     *)
(* against the outputs before them.  A contract that is invoked is looked  *)
(* up in that state too; running it is left to the WASM runtime.           *)
OutputError(out, env, state) ==
    CASE out.kind = "log" -> "none"
      [] out.kind = "create" ->
            IF state[out.address].exists THEN "AccountAlreadyExists"
            ELSE set_account(out.address, env)
      [] out.kind = "write" ->
            IF ~state[out.address].exists THEN "AccountDoesNotExist"
            ELSE set_account(out.address, env)
      [] out.kind = "delete" -> delete_account(out.address, env)
      [] out.kind = "executable" ->
            IF env.address # Wasm THEN "UnauthorizedOperation"
            ELSE IF state[out.address].exists THEN "AccountAlreadyExists"
            ELSE set_account(out.address, env)
      [] out.kind = "invoke" -> contract(out.contract, state)

OutputDiff(out, env, state) ==
    CASE out.kind = "create" ->
            Set(EmptyDiff, out.address, Account(0, FALSE, env.address, out.data))
      [] out.kind = "write" ->
            Set(EmptyDiff, out.address, [state[out.address] EXCEPT !.data = out.data])
      [] out.kind = "delete" -> Delete(EmptyDiff, out.address)
      [] out.kind = "executable" ->
            Set(EmptyDiff, out.address,
                Account(0, TRUE, Wasm, [NoData EXCEPT !.kind = "code"]))
      [] OTHER -> EmptyDiff

NoOutput == [error |-> "none", diff |-> EmptyDiff, logs |-> 0]

(* ExecutionUnit::execute: the outputs of the contract are processed one   *)
(* after the other, and the first failure voids all of them.               *)
process_outputs(outputs, env, state) ==
    LET after[n \in 0..Len(outputs)] ==
            IF n = 0 THEN NoOutput
            ELSE LET sofar == after[n-1]
                     out == outputs[n]
                     error == OutputError(out, env, state)
                     logs == sofar.logs + (IF out.kind = "log" THEN 1 ELSE 0) IN
                 IF sofar.error # "none" THEN sofar
                 ELSE [error |-> IF error # "none" THEN error
                                 ELSE ErrorIf(logs > MaxLogs, "TooManyLogs"),
                       diff |-> Merge(sofar.diff, OutputDiff(out, env, state)),
                       logs |-> logs]
    IN  after[Len(outputs)]

(* The entry points of BUILTIN_CONTRACTS that the genesis enables.         *)
builtin(a, env, call) ==
    CASE a = Currency -> CurrencyContract(env, call)
      [] a = Wasm -> WasmContract(env, call)
      [] a = Sha3 -> Sha3Contract(env)

Admission_mutant(tx, state) ==
    Checked(<<ErrorIf(Len(tx.accounts) > MaxAccounts, "TooManyInputAccounts"),
              ErrorIf(~tx.valid, "SignatureError"),
              ErrorIf(tx.nonce > state[tx.payer].nonce, "InvalidTransactionNonce"),
              IF tx.contract \in {Currency, Wasm, Sha3} THEN "none"
              ELSE contract(tx.contract, state)>>, <<>>).error

(* The error of ExecutionUnit::new.  `state' has the payer's nonce already *)
(* incremented.                                                            *)
Admission(tx, state) ==
    Checked(<<ErrorIf(Len(tx.accounts) > MaxAccounts, "TooManyInputAccounts"),
              ErrorIf(~tx.valid, "SignatureError"),
              ErrorIf(tx.nonce # state[tx.payer].nonce, "InvalidTransactionNonce"),
              IF tx.contract \in {Currency, Wasm, Sha3} THEN "none"
              ELSE contract(tx.contract, state)>>, <<>>).error

(* ExecutionUnit::new and execute.  A contract that is not builtin is only *)
(* looked up: no account ever is one (Machine_proofs!NothingIsDeployed).   *)
ExecutionUnit(tx, state) ==
    LET env == create_environment(tx.accounts, state, tx.contract)
        called == builtin(tx.contract, env, tx.call) IN
    IF Admission(tx, state) # "none" THEN [NoOutput EXCEPT !.error = Admission(tx, state)]
    ELSE IF called.error # "none" THEN [NoOutput EXCEPT !.error = called.error]
    ELSE process_outputs(called.outputs, env, state)

-----------------------------------------------------------------------------
(* Machine::execute on a block.                                            *)

(* The payer's account with its nonce incremented, whatever comes of the   *)
(* transaction.                                                            *)
PaidBy(payer, state) ==
    IF state[payer].exists THEN [state[payer] EXCEPT !.nonce = @ + 1]
    ELSE Account(1, FALSE, None, NoData)

ExecuteOne_mutant(state, sofar, tx) ==
    LET paid == Set(sofar.state, tx.payer, PaidBy(tx.payer, Overlayed(state, sofar.state)))
        txout == ExecutionUnit(tx, Overlayed(state, paid)) IN
    IF txout.error = "none"
    THEN [state |-> Merge(paid, txout.diff),
          logs |-> sofar.logs \cup {<<tx.hash, txout.logs>>},
          errors |-> sofar.errors]
    ELSE [sofar EXCEPT !.errors = @ \cup {<<tx.hash, txout.error>>}]

(* One transaction of a block: `sofar' is what the transactions before it  *)
(* have accumulated.                                                       *)
ExecuteOne(state, sofar, tx) ==
    LET paid == Set(sofar.state, tx.payer, PaidBy(tx.payer, Overlayed(state, sofar.state)))
        txout == ExecutionUnit(tx, Overlayed(state, paid)) IN
    IF txout.error = "none"
    THEN [state |-> Merge(paid, txout.diff),
          logs |-> sofar.logs \cup {<<tx.hash, txout.logs>>},
          errors |-> sofar.errors]
    ELSE [state |-> paid, logs |-> sofar.logs,
          errors |-> {e \in sofar.errors : e[1] # tx.hash} \cup {<<tx.hash, txout.error>>}]

execute(state, txs) ==
    LET after[n \in 0..Len(txs)] ==
            IF n = 0 THEN [state |-> EmptyDiff, logs |-> {}, errors |-> {}]
            ELSE ExecuteOne(state, after[n-1], txs[n])
    IN  after[Len(txs)]

(* BlockOutput::hash.                                                      *)
OutputHash(output) == <<DiffHash(output.state), output.logs, output.errors>>

-----------------------------------------------------------------------------
(* The validators.                                                         *)

Included(r) == finalized[r] + Len(volatile[r])

(* The state at the head of a validator.                                   *)
HeadState(r) == CascadingState(base[r], volatile[r])

Init ==
    /\ chain = <<>>
    /\ base = [r \in Replicas |-> [a \in Addresses |->
                 IF GenesisState[a].exists THEN Persisted(GenesisState[a]) ELSE NoAccount]]
    /\ finalized = [r \in Replicas |-> 0]
    /\ volatile = [r \in Replicas |-> <<>>]
    /\ rejected = [r \in Replicas |-> FALSE]

(* BlockProducer::produce on top of the producer's head, and the inclusion *)
(* of the block in the producer's own chain.                               *)
Produce(r, txs) ==
    /\ r \in Producers
    /\ ~rejected[r] /\ Included(r) = Len(chain)
    /\ verify_transactions_order(txs)
    /\ LET output == execute(HeadState(r), txs) IN
       /\ chain' = Append(chain, [txs |-> txs, output |-> output])
       /\ volatile' = [volatile EXCEPT ![r] = Append(@, output.state)]
    /\ UNCHANGED <<base, finalized, rejected>>

(* Executed::new on the next block, and ForkTree::add_child: the block is  *)
(* executed on the state at the head and refused unless its output has the *)
(* hash that its header declares.                                          *)
Include(r) ==
    /\ ~rejected[r] /\ Included(r) < Len(chain)
    /\ LET block == chain[Included(r) + 1]
           output == execute(HeadState(r), block.txs) IN
       IF OutputHash(output) = OutputHash(block.output)
       THEN /\ volatile' = [volatile EXCEPT ![r] = Append(@, output.state)]
            /\ UNCHANGED rejected
       ELSE /\ rejected' = [rejected EXCEPT ![r] = TRUE]
            /\ UNCHANGED volatile
    /\ UNCHANGED <<chain, base, finalized>>

Finalize_mutant(r) ==
    /\ volatile[r] # <<>>
    /\ base' = [base EXCEPT ![r] = Applied(@, Head(volatile[r]))]
    /\ finalized' = [finalized EXCEPT ![r] = @ + 1]
    /\ UNCHANGED <<chain, rejected, volatile>>

(* Finalized::apply: the difference of the oldest volatile block becomes   *)
(* part of the persistent state.                                           *)
Finalize(r) ==
    /\ volatile[r] # <<>>
    /\ base' = [base EXCEPT ![r] = Applied(@, Head(volatile[r]))]
    /\ finalized' = [finalized EXCEPT ![r] = @ + 1]
    /\ volatile' = [volatile EXCEPT ![r] = Tail(@)]
    /\ UNCHANGED <<chain, rejected>>

TxCount == LET upto[n \in 0..Len(chain)] ==
                   IF n = 0 THEN 0 ELSE upto[n-1] + Len(chain[n].txs)
           IN  upto[Len(chain)]

(* Blocks without transactions change no state and are left out.           *)
Next ==
    \/ /\ Len(chain) < ChainBound
       /\ \E n \in 1..BlockBound : \E txs \in [1..n -> Transactions] :
             /\ TxCount + n <= TotalBound
             /\ \E r \in Replicas : Produce(r, txs)
    \/ \E r \in Replicas : Include(r)
    \/ \E r \in Replicas : Finalize(r)

Spec == Init /\ [][Next]_vars

-----------------------------------------------------------------------------
(* Properties.                                                             *)

Diffs == [data : [Addresses -> Accounts], deletes : SUBSET Addresses]

(* Every state and every difference maps addresses to accounts, and a      *)
(* validator is never ahead of the chain.                                  *)
TypeOK ==
    /\ \A i \in DOMAIN chain : \A j \in DOMAIN chain[i].txs : chain[i].txs[j] \in Transactions
    /\ \A i \in DOMAIN chain : chain[i].output.state \in Diffs
    /\ base \in [Replicas -> [Addresses -> Accounts]]
    /\ \A r \in Replicas : /\ finalized[r] \in Nat /\ rejected[r] \in BOOLEAN
                          /\ \A i \in DOMAIN volatile[r] : volatile[r][i] \in Diffs
                          /\ Included(r) <= Len(chain)

(* The coin accounts of a mint in a state, and the tokens of a wallet.     *)
CoinsOf(mint, state) ==
    {a \in Addresses : state[a].exists /\ state[a].data.kind = "coin"
                       /\ state[a].data.mint = mint}
Mints == {a \in Addresses : \E r \in Replicas : HeadState(r)[a].data.kind = "mint"}

(* Validators that have included the same blocks see the same accounts,    *)
(* wherever each of them is with finalization.  The one difference is an   *)
(* account that a block has deleted: it is still read, with no tokens,     *)
(* until the block is finalized.                                           *)
ReplicasAgree ==
    \A r, s \in Replicas : Included(r) = Included(s) =>
        \A a \in Addresses :
            LET x == HeadState(r)[a]
                y == HeadState(s)[a] IN
            \/ Persisted(x) = Persisted(y)
            \/ ~x.exists /\ y.data.kind = "coin" /\ y.data.balance = 0
            \/ ~y.exists /\ x.data.kind = "coin" /\ x.data.balance = 0

Succeeded(i) == {entry[1] : entry \in chain[i].output.logs}

(* A transaction takes effect at most once in the life of the chain, with  *)
(* whatever blocks it is included in again.                                *)
NoReplay == \A i, j \in DOMAIN chain : i # j => Succeeded(i) \cap Succeeded(j) = {}

PaidTxs(payer, n) ==
    {p \in (1..n) \X (1..BlockBound) :
        p[2] \in DOMAIN chain[p[1]].txs /\ chain[p[1]].txs[p[2]].payer = payer}

(* The nonce of a wallet counts the transactions that it has paid for in   *)
(* the blocks included so far, failed ones too: no write to the account by *)
(* a contract, and no finalization, takes the count back.                  *)
NonceCounts ==
    \A r \in Replicas : \A w \in Wallets :
        HeadState(r)[w].nonce = GenesisState[w].nonce + Cardinality(PaidTxs(w, Included(r)))

SumOver(S, value(_)) ==
    LET sum[T \in SUBSET S] ==
            IF T = {} THEN 0
            ELSE LET x == CHOOSE x \in T : TRUE IN value(x) + sum[T \ {x}]
    IN  sum[S]

(* The transfers of a wallet to itself that succeeded in the first n       *)
(* blocks.                                                                 *)
SelfTransfers(mint, n) ==
    {tx \in Transactions :
        /\ tx.contract = Currency /\ tx.call.op = "transfer"
        /\ tx.accounts[1].address = mint
        /\ tx.accounts[3].address = tx.accounts[5].address
        /\ \E i \in 1..n : tx.hash \in Succeeded(i)}

Balances(mint, state) ==
    SumOver(CoinsOf(mint, state), LAMBDA a : state[a].data.balance)

(* The tokens in all accounts of a mint are its supply, as long as no      *)
(* transfer of a wallet to itself has succeeded: mints, burns and other    *)
(* transfers, failures in the middle of a block, deletions of emptied      *)
(* accounts and finalization neither make nor lose a token.                *)
SupplyIsAccounted ==
    \A r \in Replicas : \A m \in Mints :
        HeadState(r)[m].exists /\ SelfTransfers(m, Included(r)) = {} =>
            Balances(m, HeadState(r)) = HeadState(r)[m].data.supply

(* Once the authority of a mint is removed, its supply never grows again   *)
(* and no authority comes back, in the state at the head and through any   *)
(* number of finalizations.                                                *)
RevokedIsFinal ==
    [][\A r \in Replicas : \A a \in Addresses :
          LET old == HeadState(r)[a].data
              new == HeadState(r)'[a].data IN
          old.kind = "mint" /\ old.authority = None =>
              /\ new.kind = "mint" /\ new.authority = None
              /\ new.supply <= old.supply]_vars

(* The tokens of a wallet become fewer only in a block with a transaction  *)
(* that the wallet has signed.                                             *)
OnlySignersPay ==
    [][\A r \in Replicas : \A m \in Mints : \A w \in Wallets :
          LET coin == derive(Currency, m \o w) IN
          (coin \in Addresses /\ HeadState(r)'[coin].data.balance < HeadState(r)[coin].data.balance)
          => \E j \in DOMAIN chain'[Included(r)'].txs :
                LET tx == chain'[Included(r)'].txs[j] IN
                tx.valid /\ \E i \in DOMAIN tx.accounts :
                               tx.accounts[i].address = w /\ tx.accounts[i].signer]_vars
=============================================================================
