------------------------------ MODULE MCMachine ------------------------------
(***************************************************************************)
(* A validator that produces, one that follows, and a token with 2 units   *)
(* in the account of w1 and 1 in that of w2.                               *)
(***************************************************************************)
EXTENDS MachineClaims

W1 == <<"w1">>
W2 == <<"w2">>
MCCurrency == <<"currency">>
MCWasm == <<"wasm">>
MCSha3 == <<"sha3">>
Gold == derive(MCCurrency, <<"gold">>)
Silver == derive(MCCurrency, <<"silver">>)
Coin(w) == derive(MCCurrency, Gold \o w)
Code == derive(MCWasm, <<"code">>)
Bytecode == derive(MCWasm, <<"code", "bytecode">>)

MCWallets == {W1, W2}
MCAddresses == MCWallets \cup {Gold, Silver, Coin(W1), Coin(W2), Code, Bytecode}

MCGenesisState ==
    [a \in MCAddresses |->
        CASE a = Gold -> Account(0, FALSE, MCCurrency, [Mint(W1) EXCEPT !.supply = 3])
          [] a = Coin(W1) -> Account(0, FALSE, MCCurrency, CoinAccount(Gold, W1, 2))
          [] a = Coin(W2) -> Account(0, FALSE, MCCurrency, CoinAccount(Gold, W2, 1))
          [] OTHER -> NoAccount]

Ref(a, writable, signer) == [address |-> a, writable |-> writable, signer |-> signer]
Call(op, seed, who, amount) ==
    [op |-> op, seed |-> seed, who |-> who, amount |-> amount, valid |-> TRUE]
Tx(hash, payer, nonce, program, accounts, call) ==
    [hash |-> hash, payer |-> payer, nonce |-> nonce, contract |-> program,
     accounts |-> accounts, call |-> call, valid |-> TRUE]

Transfer(from, signed, to, amount, hash, payer, nonce) ==
    Tx(hash, payer, nonce, MCCurrency,
       <<Ref(Gold, FALSE, FALSE), Ref(from, FALSE, signed), Ref(Coin(from), TRUE, FALSE),
         Ref(to, FALSE, FALSE), Ref(Coin(to), TRUE, FALSE)>>,
       Call("transfer", <<>>, None, amount))
MintTo(to, hash, nonce) ==
    Tx(hash, W1, nonce, MCCurrency,
       <<Ref(Gold, TRUE, FALSE), Ref(W1, FALSE, TRUE), Ref(to, FALSE, FALSE),
         Ref(Coin(to), TRUE, FALSE)>>, Call("mint", <<>>, None, 1))
Burn(wallet, amount, hash, nonce) ==
    Tx(hash, wallet, nonce, MCCurrency,
       <<Ref(Gold, TRUE, FALSE), Ref(wallet, FALSE, TRUE), Ref(Coin(wallet), TRUE, FALSE)>>,
       Call("burn", <<>>, None, amount))
Digest(wallet, hash, nonce) ==
    Tx(hash, wallet, nonce, MCSha3, <<Ref(wallet, TRUE, TRUE)>>, Call("sha3", <<>>, None, 0))
Deploy(op, hash, nonce) ==
    Tx(hash, W2, nonce, MCWasm,
       <<Ref(Code, TRUE, FALSE), Ref(Bytecode, TRUE, FALSE)>> \o
       (IF op = "allocate" THEN <<>> ELSE <<Ref(W2, FALSE, TRUE)>>),
       Call(op, <<"code">>, W2, 1))

MCTransactions ==
    { Transfer(W1, TRUE, W2, 2, 5, W1, 1),
      Transfer(W2, TRUE, W2, 1, 8, W2, 1),
      Transfer(W1, FALSE, W2, 1, 3, W2, 1),
      MintTo(W2, 2, 1),
      MintTo(W1, 9, 2),
      Burn(W1, 1, 7, 2),
      Burn(W2, 1, 6, 2),
      Tx(4, W1, 1, MCCurrency, <<Ref(Gold, TRUE, FALSE), Ref(W1, FALSE, TRUE)>>,
         Call("set_authority", <<>>, None, 0)),
      Tx(1, W1, 1, MCCurrency, <<Ref(Silver, TRUE, FALSE)>>,
         Call("create", <<"silver">>, W1, 0)),
      [Digest(W1, 10, 1) EXCEPT !.valid = FALSE],
      Digest(W2, 11, 1),
      Deploy("allocate", 12, 1),
      Deploy("install", 13, 2),
      Tx(14, W2, 2, Code, <<>>, Call("run", <<>>, None, 0)) }
=============================================================================
