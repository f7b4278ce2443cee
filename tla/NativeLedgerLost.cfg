SPECIFICATION SharedSpec
CONSTANTS
    f1 = f1
    f2 = f2
    Facades = {f1, f2}
    Wallets = {1, 2}
    Txs = {1, 2, 3, 4}
    Sender <- MCSender
    Recipient <- MCRecipient
    Nonce <- MCNonce
    Amount <- MCAmount
    Grant <- MCGrant
    Reward = 1
    Creators = {1, 2}
    Scores = {1, 3}
    HashLower <- MCHashLower
    MaxBlockTxs = 2
    MaxHeight = 1
PROPERTIES
    AcknowledgedNeverDisappears
