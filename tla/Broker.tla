------------------------------- MODULE Broker -------------------------------
(***************************************************************************)
(* The order calls of the broker a strategy is configured with             *)
(* (src/crates/bb-core/src/broker.rs, trait Broker), by exchange.          *)
(***************************************************************************)
Bullet == INSTANCE BulletBroker
Hyperliquid == INSTANCE HyperliquidBroker

Exchanges == {"bullet", "hyperliquid"}

PlaceOrders(exchange, batch) ==
  IF exchange = "bullet" THEN Bullet!PlaceOrders(batch) ELSE Hyperliquid!PlaceOrders(batch)

CancelOrders(exchange, batch, byOid) ==
  IF exchange = "bullet" THEN Bullet!CancelOrders(batch)
  ELSE Hyperliquid!CancelOrders(batch, byOid)

AmendOrders(exchange, batch, byOid) ==
  IF exchange = "bullet" THEN Bullet!AmendOrders(batch)
  ELSE Hyperliquid!AmendOrders(batch, byOid)

CancelAllOrders(exchange, resting) ==
  IF exchange = "bullet" THEN Bullet!CancelAllOrders(resting)
  ELSE Hyperliquid!CancelAllOrders(resting)

OpenOrdersCarryClientIds(exchange) ==
  IF exchange = "bullet" THEN Bullet!OpenOrdersCarryClientIds
  ELSE Hyperliquid!OpenOrdersCarryClientIds
=============================================================================
