------------------------------ MODULE Currency ------------------------------
(***************************************************************************)
(* The Currency builtin contract, vm/builtin/currency.rs: fungible tokens  *)
(* with a mint account per token and a coin account per token and wallet.  *)
(*                                                                         *)
(* A contract takes an environment and returns a list of outputs, or an    *)
(* error, and changes nothing itself.  The environment is                  *)
(*   [address : the contract, accounts : the views of the listed accounts] *)
(* where a view is [address, signer, writable, executable, owner, data].   *)
(* Token names, symbols and decimals are left out, so is what logs say: a  *)
(* log entry is an output of kind "log".                                   *)
(***************************************************************************)
EXTENDS StateDiffs

CONSTANT MaxAmount   \* u64::MAX, where saturating arithmetic stops

ASSUME AmountAssumption == MaxAmount \in Nat \ {0}

(* What a contract, or a step of a transaction, returns: Ok if none of its *)
(* checks, in the order of the code, fails, and the first error otherwise. *)
ErrorIf(failed, error) == IF failed THEN error ELSE "none"
Checked(checks, outputs) ==
    [error |-> LET failing == {i \in DOMAIN checks : checks[i] # "none"} IN
               IF failing = {} THEN "none"
               ELSE checks[CHOOSE i \in failing : \A j \in failing : i <= j],
     outputs |-> outputs]

(* The i-th account of an environment.                                     *)
NoView == [address |-> None, signer |-> FALSE, writable |-> FALSE,
           executable |-> FALSE, owner |-> None, data |-> NoData]
Acc(env, i) == IF i \in DOMAIN env.accounts THEN env.accounts[i] ELSE NoView

Logs(n) == [i \in 1..n |-> [kind |-> "log"]]
CreateOwnedAccount(a, data) == [kind |-> "create", address |-> a, data |-> data]
WriteAccountData(a, data) == [kind |-> "write", address |-> a, data |-> data]
DeleteOwnedAccount(a) == [kind |-> "delete", address |-> a]

saturating_add(x, y) == IF x + y > MaxAmount THEN MaxAmount ELSE x + y
saturating_sub(x, y) == IF x < y THEN 0 ELSE x - y

Mint(authority) == [NoData EXCEPT !.kind = "mint", !.authority = authority]
CoinAccount(mint, owner, balance) ==
    [NoData EXCEPT !.kind = "coin", !.mint = mint, !.owner = owner, !.balance = balance]

-----------------------------------------------------------------------------
(* The error of read_coin_mint for the account.  Data of another kind does *)
(* not deserialize as a mint.                                              *)
read_coin_mint(acc, env) ==
    Checked(<<ErrorIf(has_private_key(acc.address), "InvalidInputAccounts"),
              ErrorIf(acc.owner # env.address, "InvalidAccountOwner"),
              ErrorIf(acc.data.kind # "mint", "InvalidInputAccounts")>>, <<>>).error

(* The error of read_coin_account.  No error and no data means that the    *)
(* wallet has no account for this coin.                                    *)
read_coin_account(acc, mint, wallet, env) ==
    LET coin == acc.data IN
    Checked(<<ErrorIf(acc.address # derive(env.address, mint \o wallet),
                      "InvalidInputAccounts"),
              ErrorIf(acc.owner \notin {None, env.address}, "InvalidAccountOwner"),
              ErrorIf(coin # NoData /\ coin.kind # "coin", "InvalidInputAccounts"),
              ErrorIf(coin # NoData /\ coin.mint # mint, "InvalidInputAccounts"),
              ErrorIf(coin # NoData /\ coin.owner # wallet, "InvalidAccountOwner")>>,
            <<>>).error

CheckAuthority_mutant(mint, authority) ==
    Checked(<<ErrorIf(mint.data.authority \notin {None, authority.address}, "NotAuthorized"),
              ErrorIf(~authority.signer, "MissingSigners")>>, <<>>).error

(* The error of a call that only the current authority of a mint may make. *)
CheckAuthority(mint, authority) ==
    Checked(<<ErrorIf(mint.data.authority = None, "AuthorityRemoved"),
              ErrorIf(mint.data.authority # authority.address, "NotAuthorized"),
              ErrorIf(~authority.signer, "MissingSigners")>>, <<>>).error

CheckSpending_mutant(coin, wallet, amount) ==
    Checked(<<ErrorIf(coin.data = NoData, "AccountDoesNotExist"),
              ErrorIf(coin.data.balance < amount, "NotEnoughBalance")>>, <<>>).error

(* The error of a call that spends from the coin account of a wallet.      *)
CheckSpending(coin, wallet, amount) ==
    Checked(<<ErrorIf(coin.data = NoData, "AccountDoesNotExist"),
              ErrorIf(~wallet.signer, "MissingSigners"),
              ErrorIf(coin.data.balance < amount, "NotEnoughBalance")>>, <<>>).error

(* The output that adds an amount to a coin account, which is created if   *)
(* the wallet has none.                                                    *)
Credit(acc, mint, wallet, amount) ==
    IF acc.data = NoData
    THEN CreateOwnedAccount(acc.address, CoinAccount(mint, wallet, amount))
    ELSE WriteAccountData(acc.address,
            [acc.data EXCEPT !.balance = saturating_add(@, amount)])

Debit_mutant(acc, amount) ==
    LET coin == [acc.data EXCEPT !.balance = saturating_sub(@, amount)] IN
    IF coin.balance = 0 THEN <<DeleteOwnedAccount(acc.address)>>
    ELSE <<WriteAccountData(acc.address, coin)>>

(* The outputs that take an amount off a coin account: an account that is  *)
(* left with nothing is written and then deleted.                          *)
Debit(acc, amount) ==
    LET coin == [acc.data EXCEPT !.balance = saturating_sub(@, amount)] IN
    <<WriteAccountData(acc.address, coin)>> \o
    (IF coin.balance = 0 THEN <<DeleteOwnedAccount(acc.address)>> ELSE <<>>)

-----------------------------------------------------------------------------
(* `valid' stands for the limits on symbol, name and decimals.             *)
process_create(env, seed, authority, valid) ==
    LET acc == Acc(env, 1) IN
    Checked(<<ErrorIf(Len(env.accounts) # 1, "InvalidInputAccounts"),
              ErrorIf(acc.address # derive(env.address, seed), "InvalidInputAccounts"),
              ErrorIf(acc.data # NoData \/ acc.owner # None, "AccountAlreadyExists"),
              ErrorIf(~valid, "InvalidInputParameters")>>,
            <<CreateOwnedAccount(acc.address, Mint(authority))>> \o Logs(5))

process_mint(env, amount) ==
    LET mint == Acc(env, 1)
        wallet == Acc(env, 3).address
        coin == Acc(env, 4) IN
    Checked(<<ErrorIf(Len(env.accounts) # 4, "InvalidInputAccounts"),
              ErrorIf(amount = 0, "InvalidInputParameters"),
              read_coin_mint(mint, env),
              CheckAuthority(mint, Acc(env, 2)),
              read_coin_account(coin, mint.address, wallet, env)>>,
            Logs(3) \o
            <<Credit(coin, mint.address, wallet, amount),
              WriteAccountData(mint.address,
                 [mint.data EXCEPT !.supply = saturating_add(@, amount)])>>)

(* Both coin accounts are read from the environment, which is the state    *)
(* before the transaction, also when they are the same account.            *)
process_transfer(env, amount) ==
    LET mint == Acc(env, 1).address
        sender == Acc(env, 2)
        from == Acc(env, 3)
        recipient == Acc(env, 4).address
        to == Acc(env, 5) IN
    Checked(<<ErrorIf(Len(env.accounts) # 5, "InvalidInputAccounts"),
              ErrorIf(amount = 0, "InvalidInputParameters"),
              read_coin_mint(Acc(env, 1), env),
              read_coin_account(from, mint, sender.address, env),
              CheckSpending(from, sender, amount),
              read_coin_account(to, mint, recipient, env)>>,
            Logs(5) \o Debit(from, amount) \o <<Credit(to, mint, recipient, amount)>>)

process_burn(env, amount) ==
    LET mint == Acc(env, 1)
        wallet == Acc(env, 2)
        coin == Acc(env, 3) IN
    Checked(<<ErrorIf(Len(env.accounts) # 3, "InvalidInputAccounts"),
              ErrorIf(amount = 0, "InvalidInputParameters"),
              read_coin_mint(mint, env),
              read_coin_account(coin, mint.address, wallet.address, env),
              CheckSpending(coin, wallet, amount)>>,
            Logs(4) \o
            <<WriteAccountData(mint.address,
                 [mint.data EXCEPT !.supply = saturating_sub(@, amount)])>> \o
            Debit(coin, amount))

process_set_authority(env, authority) ==
    LET mint == Acc(env, 1) IN
    Checked(<<ErrorIf(Len(env.accounts) # 2, "InvalidInputAccounts"),
              read_coin_mint(mint, env),
              CheckAuthority(mint, Acc(env, 2))>>,
            Logs(5) \o
            <<WriteAccountData(mint.address, [mint.data EXCEPT !.authority = authority])>>)

(* The entry point; `call' is the decoded instruction.                     *)
CurrencyContract(env, call) ==
    CASE call.op = "create" -> process_create(env, call.seed, call.who, call.valid)
      [] call.op = "mint" -> process_mint(env, call.amount)
      [] call.op = "transfer" -> process_transfer(env, call.amount)
      [] call.op = "burn" -> process_burn(env, call.amount)
      [] call.op = "set_authority" -> process_set_authority(env, call.who)
      [] OTHER -> Checked(<<"InvalidInputParameters">>, <<>>)
=============================================================================
