SPECIFICATION OutboundSpec
CONSTANTS
    SsrKinds = {"plain", "http_simple", "random_head", "tls1.2_ticket_auth"}
    SimpleKinds = {"obfs_http", "obfs_tls"}
    Framings = {"origin", "auth_sha1_v4", "auth_aes128", "auth_chain"}
    Messages <- MCMessages
    Answers <- MCAnswers
    MaxPack = 1
    AppBuf = 1
    RelayBuf = 4
    ChunkSize = 2
    h1 = h1
    h2 = h2
    Handlers = {h1, h2}
    Jobs = {1, 2, 3, 4}
    Threshold = 2
    Starts = {0, 1}
INVARIANTS IdsAreUnique PaddingAgrees
PROPERTIES UploadIsPipe DownloadIsPipe
CHECK_DEADLOCK FALSE
