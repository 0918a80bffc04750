----------------------------- MODULE ChainSpec -----------------------------
(***************************************************************************)
(* Which rules of the EVM are in force at a block (crates/chain-spec).  A  *)
(* schedule is a sequence of forks, by block number first and then by      *)
(* timestamp; a rule set is its place in revm's SpecId.                    *)
(***************************************************************************)
EXTENDS Naturals, Sequences

SpecIds == <<"FRONTIER", "FRONTIER_THAWING", "HOMESTEAD", "DAO_FORK", "TANGERINE",
  "SPURIOUS_DRAGON", "BYZANTIUM", "CONSTANTINOPLE", "PETERSBURG", "ISTANBUL", "MUIR_GLACIER",
  "BERLIN", "LONDON", "ARROW_GLACIER", "GRAY_GLACIER", "MERGE", "SHANGHAI", "CANCUN", "PRAGUE">>

SpecId(name) == CHOOSE i \in DOMAIN SpecIds : SpecIds[i] = name

Block(n, name) == [by |-> "block", at |-> n, spec |-> SpecId(name)]
Timestamp(t, name) == [by |-> "timestamp", at |-> t, spec |-> SpecId(name)]

PolygonMainnet == <<
  Block(0, "PETERSBURG"), Block(3395000, "ISTANBUL"), Block(3395000, "MUIR_GLACIER"),
  Block(14750000, "BERLIN"), Block(23850000, "LONDON"), Block(50523000, "SHANGHAI"),
  Block(54876000, "CANCUN"), Block(73440256, "PRAGUE")>>

EthereumMainnet == <<
  Block(0, "FRONTIER"), Block(200000, "FRONTIER_THAWING"), Block(1150000, "HOMESTEAD"),
  Block(1920000, "DAO_FORK"), Block(2463000, "TANGERINE"), Block(2675000, "SPURIOUS_DRAGON"),
  Block(4370000, "BYZANTIUM"), Block(7280000, "PETERSBURG"), Block(9069000, "ISTANBUL"),
  Block(9200000, "MUIR_GLACIER"), Block(12244000, "BERLIN"), Block(12965000, "LONDON"),
  Block(13773000, "ARROW_GLACIER"), Block(15050000, "GRAY_GLACIER"), Block(15537394, "MERGE"),
  Timestamp(1681338455, "SHANGHAI"), Timestamp(1710338135, "CANCUN"),
  Timestamp(1746612311, "PRAGUE")>>

Active(fork, number, time) == (IF fork.by = "block" THEN number ELSE time) >= fork.at

\* The last fork of the schedule that is active, wherever the ones before it stand.
SpecAt(schedule, number, time) ==
  LET on == {i \in DOMAIN schedule : Active(schedule[i], number, time)}
  IN IF on = {} THEN SpecId("FRONTIER")
     ELSE schedule[CHOOSE i \in on : \A j \in on : j <= i].spec

\* The rules only move forward along a schedule.
Advances(schedule) == \A i, j \in DOMAIN schedule : i < j =>
  /\ schedule[i].spec < schedule[j].spec
  /\ schedule[i].by = schedule[j].by => schedule[i].at <= schedule[j].at
  /\ schedule[j].by = "block" => schedule[i].by = "block"

ASSUME SchedulesAdvance == Advances(PolygonMainnet) /\ Advances(EthereumMainnet)
=============================================================================
