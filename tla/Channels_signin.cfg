\* Two reconciles and a reconnect share the sign-in of one channel.
CONSTANTS
  loop = loop
  job = job
  admin = admin
  followed = followed
  chat = chat
  Loop = loop
  Jobs = {job}
  Connects = {admin}
  Types = {followed}
  MaxGrants = 2
  MaxTurns = 1
  MaxFaults = 2
SPECIFICATION FairSpec
INVARIANTS SpentOnce StampEarned
PROPERTIES SubscriptionsHeal LapsedExpire
