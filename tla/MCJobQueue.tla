----------------------------- MODULE MCJobQueue -----------------------------
EXTENDS JobQueue

CONSTANTS m1, p1

MCTaskOf == (m1 :> "email") @@ (p1 :> "promotional")

Setting(driver, transactional, promotional, up) ==
    [driver |-> driver, transactional |-> transactional, promotional |-> promotional, up |-> up]

\* Everything on one backend, the documented split, an override whose backend
\* does not come up, and a default driver that does not: no jobs at all.
MCSettings ==
    {Setting("redis", "", "", {}),
     Setting("redis", "rabbitmq", "kafka", {"rabbitmq", "kafka"}),
     Setting("rabbitmq", "", "", {"rabbitmq"}),
     Setting("kafka", "redis", "rabbitmq", {"kafka"}),
     Setting("rabbitmq", "", "redis", {})}

\* One mail on rabbitmq.
OneBackend == {Setting("rabbitmq", "", "", {"rabbitmq"})}
=============================================================================
