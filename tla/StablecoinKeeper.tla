-------------------------- MODULE StablecoinKeeper --------------------------
(***************************************************************************)
(* The keeper and the message server of x/stablecoin.  A handler takes the *)
(* store it runs on and a message and gives [err, st]: the error ("nil" for *)
(* none, "panic" for a Go panic) and the store it leaves.  A handler that  *)
(* fails after it has called the bank leaves the bank's writes behind: it  *)
(* is the transaction around it that discards them.                        *)
(***************************************************************************)
EXTENDS Bank

Store == [params : Params \cup {Absent},    \* collections item, prefix 1
          total  : Numeral \cup {Absent},   \* TotalSupplyKey, 0x10
          bal    : Balances,
          supply : Supplies]

Errors == {"nil", "panic", "ErrNotFound", "ErrPaused", "ErrNotIssuer",
           "ErrInvalidAmount", "invalid max supply", "exceeds max supply",
           "bad address", "blocked", "insufficient funds",
           "total supply underflow", "invalid authority address",
           "ErrInvalidSigner", "invalid params"}

MintBurnMsg == [authority : AddrText, addr : AddrText, amount : Numeral]
UpdateMsg == [authority : AddrText, params : Params]

GetTotalSupply(s) ==
  IF s.total # Absent /\ IntOK(s.total) THEN NewIntFromString(s.total) ELSE 0

SetTotalSupply_Lost(s, n) == s
SetTotalSupply(s, n) == [s EXCEPT !.total = Text(n)]

-----------------------------------------------------------------------------
\* The prologue Mint and Burn share.  The issuer is compared as a text.
AccessError_NoPause(s, m) ==
  IF s.params = Absent                      THEN "ErrNotFound"
  ELSE IF m.authority # s.params.issuer     THEN "ErrNotIssuer"
  ELSE "nil"
AccessError_NoIssuer(s, m) ==
  IF s.params = Absent                      THEN "ErrNotFound"
  ELSE IF s.params.paused                   THEN "ErrPaused"
  ELSE "nil"
AccessError(s, m) ==
  IF s.params = Absent                      THEN "ErrNotFound"
  ELSE IF s.params.paused                   THEN "ErrPaused"
  ELSE IF m.authority # s.params.issuer     THEN "ErrNotIssuer"
  ELSE "nil"

ExceedsMax_AmountOnly(s, n) == n > NewIntFromString(s.params.max_supply)
ExceedsMax(s, n) ==
  GetTotalSupply(s) + n > NewIntFromString(s.params.max_supply)

\* The error Mint returns; m.addr is ToAddress.
MintError(s, m) ==
  LET p   == s.params
      amt == NewIntFromString(m.amount)
  IN  IF AccessError(s, m) # "nil"                      THEN AccessError(s, m)
      ELSE IF ~IsPositiveInt(m.amount)                  THEN "ErrInvalidAmount"
      ELSE IF ~IntOK(p.max_supply)                      THEN "invalid max supply"
      ELSE IF GetTotalSupply(s) + amt > IntLimit        THEN "panic"
      ELSE IF ExceedsMax(s, amt)                        THEN "exceeds max supply"
      ELSE IF AccAddressFromBech32(m.addr) = NoAcct     THEN "bad address"
      ELSE IF p.denom \notin Denom                      THEN "panic"
      ELSE IF ~MintCoinsOK(s, p.denom, amt)             THEN "panic"
      ELSE IF AccAddressFromBech32(m.addr) \in Blocked  THEN "blocked"
      ELSE "nil"

Mint(s, m) ==
  LET err    == MintError(s, m)
      amt    == NewIntFromString(m.amount)
      minted == MintCoins(s, s.params.denom, amt)
      sent   == Move(minted, Module, AccAddressFromBech32(m.addr),
                     s.params.denom, amt)
  IN  [err |-> err,
       st  |-> IF err = "nil"
                 THEN SetTotalSupply(sent, GetTotalSupply(s) + amt)
               ELSE IF err = "blocked" THEN minted ELSE s]

\* The error Burn returns; m.addr is FromAddress.
BurnError(s, m) ==
  LET p    == s.params
      amt  == NewIntFromString(m.amount)
      from == AccAddressFromBech32(m.addr)
  IN  IF AccessError(s, m) # "nil"              THEN AccessError(s, m)
      ELSE IF from = NoAcct                     THEN "bad address"
      ELSE IF ~IsPositiveInt(m.amount)          THEN "ErrInvalidAmount"
      ELSE IF p.denom \notin Denom              THEN "panic"
      ELSE IF ~Has(s, from, p.denom, amt)       THEN "insufficient funds"
      ELSE IF ~BurnCoinsOK(s, p.denom, amt)     THEN "panic"
      ELSE IF GetTotalSupply(s) < amt           THEN "total supply underflow"
      ELSE "nil"

Burn(s, m) ==
  LET err    == BurnError(s, m)
      amt    == NewIntFromString(m.amount)
      moved  == Move(s, AccAddressFromBech32(m.addr), Module,
                     s.params.denom, amt)
      burned == BurnCoins(moved, s.params.denom, amt)
  IN  [err |-> err,
       st  |-> IF err = "nil"
                 THEN SetTotalSupply(burned, GetTotalSupply(s) - amt)
               ELSE IF err = "total supply underflow" THEN burned ELSE s]

\* GetAuthority: app_config.go leaves the authority to its default, x/gov.
GetAuthority == Gov

IsAuthority(t) == AccAddressFromBech32(t) = GetAuthority

UpdateParams_Unchecked(s, m) ==
  LET err == IF AccAddressFromBech32(m.authority) = NoAcct
               THEN "invalid authority address"
             ELSE IF ~IsAuthority(m.authority)
               THEN "ErrInvalidSigner"
             ELSE "nil"
  IN  [err |-> err,
       st  |-> IF err = "nil" THEN [s EXCEPT !.params = m.params] ELSE s]
UpdateParams(s, m) ==
  LET err == IF AccAddressFromBech32(m.authority) = NoAcct
               THEN "invalid authority address"
             ELSE IF ~IsAuthority(m.authority)
               THEN "ErrInvalidSigner"
             ELSE IF ~Validate(m.params) THEN "invalid params"
             ELSE "nil"
  IN  [err |-> err,
       st  |-> IF err = "nil" THEN [s EXCEPT !.params = m.params] ELSE s]

-----------------------------------------------------------------------------
\* InitGenesis of the module stores the parameters as they are, unchecked;
\* ExportGenesis fails when there are none and exports nothing else.
InitGenesis(s, p) == [s EXCEPT !.params = p]
ExportOK(s) == s.params # Absent
ExportGenesis(s) == s.params
=============================================================================
