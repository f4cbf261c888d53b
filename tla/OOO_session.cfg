SPECIFICATION FairSpec
CONSTANTS
  a1 = a1
  a2 = a2
  Account = {a1, a2}
  First = a1
  Secure = {a2}
  Anonymous = {a2}
  Scripted = {a1}
  Env = {"refuse", "referral", "break", "close", "tear", "password"}
  Conn = {1, 2, 3}
  MaxClicks = 3
INVARIANTS TypeOK ShownIsServed LoginFirst 
 
CHECK_DEADLOCK FALSE
